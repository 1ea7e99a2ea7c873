------------------------------ MODULE ConnProofs ------------------------------
(***************************************************************************)
(* Proofs about Conn, for every set of configurations and every limit on   *)
(* the warnings: close_notify is the last thing a connection says, a fatal *)
(* alert ends it and is sent, and a write that succeeded was put in one    *)
(* record.                                                                 *)
(*                                                                         *)
(* The C functions are operators on a ctx, so the invariant is a predicate *)
(* on a ctx and there is a lemma per operator; the actions then follow by  *)
(* composition.  The lemmas separate what the record layer changes (Layer) *)
(* from what the connection management changes (Manage).                   *)
(***************************************************************************)
EXTENDS Conn, TLAPS

Live == {"HANDSHAKING", "TRANSPORTING", "RENEGOTIATION"}
Outcomes == {"ok", "busy", "fail"}

\* What the output buffer holds of the data being written, and that nothing
\* was built or delivered that should not have been.
RecordInv(c) ==
  /\ c.log.afterClose = {} /\ c.log.afterFatal = {}
  /\ c.outBuf = "app" => c.log.writing
  /\ c.log.writing /\ ~c.log.disturbed => c.log.copies = IF c.outBuf = "app" THEN 1 ELSE 0

\* An alert to send has a kind that is sent; a fatal one is on record; one that
\* was built is in the buffer or on the wire.
AlertInv(c) ==
  /\ c.alert.flag = "SEND" => c.alert.kind \in {"close", "no_reneg", "fatal"}
  /\ c.alert.flag # "NO" /\ c.alert.kind = "fatal" => c.log.fatal
  /\ ~config.writeErrors /\ c.alert.flag = "SEND" /\ c.alert.kind = "fatal" /\ c.alert.isFlush
       => "fatal" \in c.log.wire \/ c.outBuf = "fatal"

Base(c) == c \in Ctx /\ RecordInv(c) /\ AlertInv(c)

\* Nothing has ended the connection, and its next warning may be counted.
Clean(c) == "close" \notin c.log.encoded /\ ~c.log.fatal /\ c.warnCount < MaxAlertCount

\* ALERTING protects the gap between an alert that is built and one that is sent.
AlertingInv(c) ==
  /\ c.alert.flag = "SEND"
  /\ c.log.fatal => c.alert.kind = "fatal"
  /\ "close" \in c.log.encoded /\ c.alert.kind = "close" => c.alert.isFlush
  /\ c.alert.kind = "no_reneg" => Clean(c) /\ c.preState \in Live

FatalGone(c) ==
  ~config.writeErrors /\ c.alert.flag = "SEND" /\ c.alert.kind = "fatal" => "fatal" \in c.log.wire

\* What each direction of a closed connection may still do is in shutdownState.
ClosedInv(c) ==
  /\ c.log.fatal => c.shutdownState = Shutdown
  /\ "close" \in c.log.encoded => "SENT" \in c.shutdownState
  /\ "SENT" \notin c.shutdownState => c.alert.flag = "NO"

\* What the state of a connection says about its alerts.
StateInv(c) ==
  /\ c.state \in Live \cup {"IDLE"} => Clean(c) /\ c.alert.flag = "NO"
  /\ c.state = "ALERTING" => AlertingInv(c)
  /\ c.state = "ALERTED" => FatalGone(c)
  /\ c.state = "CLOSED" => ClosedInv(c)

CtxInv(c) == Base(c) /\ StateInv(c)

\* A loop runs in an open connection and for the call it serves; a write is under
\* way until it succeeds.
CallInv ==
  /\ call \in [api : APIs, at : Loops, ret : Rets]
  /\ call.at \in {"Handshaking", "Renegotiation", "Reading", "Writing"} => ctx.state \in Live /\ call.api # "Close"
  /\ call.at = "Reading" => call.api = "Read"
  /\ call.at = "Writing" => call.api = "Write"
  /\ call.at = "Dispatch" => ctx.state # "ALERTING" \/ call.api = "Close"
  /\ call.at # "user" /\ call.api = "Write" => ctx.log.writing
  /\ call.at = "user" /\ call.api = "Write" /\ call.ret = "SUCCESS"
       => ~ctx.log.writing /\ (ctx.log.disturbed \/ ctx.log.copies = 1)

IInv == config \in Config /\ CtxInv(ctx) /\ CallInv

-------------------------------------------------------------------------------
(* The two halves of a ctx. *)

\* The record layer's part is the same in c and d.
SameLayer(c, d) ==
  /\ d.outBuf = c.outBuf /\ d.log.encoded = c.log.encoded /\ d.log.wire = c.log.wire
  /\ d.log.afterClose = c.log.afterClose /\ d.log.afterFatal = c.log.afterFatal
  /\ d.log.copies = c.log.copies /\ d.log.writing = c.log.writing /\ d.log.disturbed = c.log.disturbed

\* The part of the connection management is the same in c and d.
SameManage(c, d) ==
  /\ d.state = c.state /\ d.preState = c.preState /\ d.shutdownState = c.shutdownState
  /\ d.alert = c.alert /\ d.warnCount = c.warnCount /\ d.log.fatal = c.log.fatal

\* The invariants read nothing else of a ctx.
LEMMA SameInv ==
  ASSUME NEW c \in Ctx, NEW d \in Ctx, SameLayer(c, d), SameManage(c, d), CtxInv(c)
  PROVE  CtxInv(d)
  BY DEF SameLayer, SameManage, CtxInv, Base, RecordInv, AlertInv, StateInv, Clean, AlertingInv, FatalGone, ClosedInv

\* ALERT_Send puts the alert in place, unless a weightier one is pending.
LEMMA SendFacts ==
  ASSUME NEW c \in Ctx, NEW kind \in AlertKinds, NEW d, d = ALERT_Send(c, kind)
  PROVE  /\ d \in Ctx /\ SameLayer(c, d)
         /\ d.state = c.state /\ d.preState = c.preState /\ d.shutdownState = c.shutdownState
         /\ d.warnCount = c.warnCount
         /\ IF AlertIsAbnormalInput(c.alert, kind) THEN d = c
            ELSE /\ d.alert.flag = "SEND" /\ d.alert.kind = kind /\ ~d.alert.isFlush
                 /\ d.log.fatal = (c.log.fatal \/ kind = "fatal")
  <1> DEFINE a == [flag |-> "SEND", kind |-> kind, isFlush |-> FALSE]
             f == c.log.fatal \/ kind = "fatal"
  <1>1. a \in AlertCtx /\ a.flag = "SEND" /\ a.kind = kind /\ a.isFlush = FALSE
    BY DEF AlertCtx
  <1>2. f \in BOOLEAN
    OBVIOUS
  <1>3. CASE AlertIsAbnormalInput(c.alert, kind)
    BY <1>3 DEF ALERT_Send, SameLayer
  <1>4. CASE ~AlertIsAbnormalInput(c.alert, kind)
    <2>1. d = [c EXCEPT !.alert = a, !.log.fatal = f]
      BY <1>4, Zenon DEF ALERT_Send
    <2> HIDE DEF a, f
    <2>2. d \in Ctx
      <3> DEFINE l == [c.log EXCEPT !.fatal = f]
      <3>1. l \in Log
        BY <1>2 DEF Ctx, Log
      <3>2. d = [c EXCEPT !.alert = a, !.log = l]
        BY <2>1 DEF Ctx, Log
      <3> HIDE DEF l
      <3>3. QED
        BY <1>1, <3>1, <3>2 DEF Ctx
    <2>3. d.alert = a /\ d.log.fatal = f
      BY <2>1 DEF Ctx, Log
    <2>4. /\ SameLayer(c, d) /\ d.state = c.state /\ d.preState = c.preState /\ d.shutdownState = c.shutdownState
          /\ d.warnCount = c.warnCount
      BY <2>1 DEF Ctx, Log, SameLayer
    <2>5. QED
      BY <1>1, <1>4, <2>2, <2>3, <2>4 DEF f
  <1>5. QED
    BY <1>3, <1>4

\* ALERT_CleanInfo forgets the alert.
LEMMA CleanFacts ==
  ASSUME NEW c \in Ctx, NEW d, d = ALERT_CleanInfo(c)
  PROVE  /\ d \in Ctx /\ SameLayer(c, d) /\ d.alert.flag = "NO" /\ d.alert.kind = "none"
         /\ d.state = c.state /\ d.preState = c.preState /\ d.shutdownState = c.shutdownState
         /\ d.warnCount = c.warnCount /\ d.log.fatal = c.log.fatal
  <1>1. NoAlert \in AlertCtx /\ NoAlert.flag = "NO" /\ NoAlert.kind = "none"
    BY DEF NoAlert, AlertCtx
  <1>2. QED
    BY <1>1 DEF ALERT_CleanInfo, Ctx, SameLayer

\* An alert of the peer is taken in, unless a weightier one is pending.
LEMMA DecryptedFacts ==
  ASSUME NEW c \in Ctx, NEW kind \in AlertKinds, NEW d, d = ProcessDecryptedAlert(c, kind)
  PROVE  /\ d \in Ctx /\ SameLayer(c, d)
         /\ d.state = c.state /\ d.preState = c.preState /\ d.shutdownState = c.shutdownState
         /\ d.warnCount = c.warnCount
         /\ IF AlertIsAbnormalInput(c.alert, kind) THEN d = c
            ELSE /\ d.alert.flag = "RECV" /\ d.alert.kind \in AlertKinds
                 /\ d.log.fatal = (c.log.fatal \/ d.alert.kind = "fatal")
  <1> DEFINE k == IF config.isTls13 /\ kind # "close" THEN "fatal" ELSE kind
             a == [flag |-> "RECV", kind |-> k, isFlush |-> c.alert.isFlush]
             f == c.log.fatal \/ k = "fatal"
  <1>1. k \in AlertKinds
    BY DEF AlertKinds
  <1>2. a \in AlertCtx /\ a.flag = "RECV" /\ a.kind = k
    BY <1>1 DEF AlertCtx, Ctx
  <1>3. f \in BOOLEAN
    OBVIOUS
  <1>4. CASE AlertIsAbnormalInput(c.alert, kind)
    BY <1>4 DEF ProcessDecryptedAlert, SameLayer
  <1>5. CASE ~AlertIsAbnormalInput(c.alert, kind)
    <2>1. d = [c EXCEPT !.alert = a, !.log.fatal = f]
      BY <1>5, Zenon DEF ProcessDecryptedAlert
    <2> HIDE DEF a, f, k
    <2>2. d \in Ctx
      <3> DEFINE l == [c.log EXCEPT !.fatal = f]
      <3>1. l \in Log
        BY <1>3 DEF Ctx, Log
      <3>2. d = [c EXCEPT !.alert = a, !.log = l]
        BY <2>1 DEF Ctx, Log
      <3> HIDE DEF l
      <3>3. QED
        BY <1>2, <3>1, <3>2 DEF Ctx
    <2>3. d.alert = a /\ d.log.fatal = f
      BY <2>1 DEF Ctx, Log
    <2>4. /\ SameLayer(c, d) /\ d.state = c.state /\ d.preState = c.preState /\ d.shutdownState = c.shutdownState
          /\ d.warnCount = c.warnCount
      BY <2>1 DEF Ctx, Log, SameLayer
    <2>5. QED
      BY <1>1, <1>2, <1>5, <2>2, <2>3, <2>4 DEF f
  <1>6. QED
    BY <1>4, <1>5

\* ALERT_ClearWarnCount
LEMMA ClearWarnFacts ==
  ASSUME NEW c \in Ctx, NEW d, d = ALERT_ClearWarnCount(c)
  PROVE  /\ d \in Ctx /\ SameLayer(c, d) /\ d.alert = c.alert /\ d.warnCount = 0
         /\ d.state = c.state /\ d.preState = c.preState /\ d.shutdownState = c.shutdownState
         /\ d.log.fatal = c.log.fatal
  <1>1. 0 \in 0 .. MaxAlertCount
    BY AlertCountAssumption
  <1>2. QED
    BY <1>1 DEF ALERT_ClearWarnCount, Ctx, SameLayer

\* ChangeConnState
LEMMA ChangeFacts ==
  ASSUME NEW c \in Ctx, NEW s \in States, NEW d, d = ChangeConnState(c, s)
  PROVE  /\ d \in Ctx /\ SameLayer(c, d) /\ d.alert = c.alert /\ d.warnCount = c.warnCount
         /\ d.state = s /\ d.preState = (IF c.state = s THEN c.preState ELSE c.state)
         /\ d.shutdownState = c.shutdownState /\ d.log.fatal = c.log.fatal
  <1> DEFINE o == IF s = "ALERTING" THEN c.state ELSE c.log.from
  <1>1. CASE c.state = s
    BY <1>1 DEF ChangeConnState, SameLayer
  <1>2. CASE c.state # s
    <2>1. d = [c EXCEPT !.preState = c.state, !.state = s, !.log.from = o]
      BY <1>2, Zenon DEF ChangeConnState
    <2>2. o \in States
      BY DEF Ctx, Log
    <2> HIDE DEF o
    <2>3. d \in Ctx
      <3> DEFINE l == [c.log EXCEPT !.from = o]
      <3>1. l \in Log
        BY <2>2 DEF Ctx, Log
      <3>2. d = [c EXCEPT !.preState = c.state, !.state = s, !.log = l]
        BY <2>1 DEF Ctx, Log
      <3> HIDE DEF l
      <3>3. c.state \in States
        BY DEF Ctx
      <3>4. QED
        BY <3>1, <3>2, <3>3 DEF Ctx
    <2>4. QED
      BY <1>2, <2>1, <2>3 DEF Ctx, Log, SameLayer
  <1>3. QED
    BY <1>1, <1>2

\* SetShutdown
LEMMA ShutFacts ==
  ASSUME NEW c \in Ctx, NEW flags \in SUBSET Shutdown, NEW d, d = SetShutdown(c, flags)
  PROVE  /\ d \in Ctx /\ SameLayer(c, d) /\ d.alert = c.alert /\ d.warnCount = c.warnCount
         /\ d.state = c.state /\ d.preState = c.preState /\ d.log.fatal = c.log.fatal
         /\ d.shutdownState = c.shutdownState \cup flags
  <1>1. c.shutdownState \cup flags \in SUBSET Shutdown
    BY DEF Ctx
  <1>2. QED
    BY <1>1 DEF SetShutdown, Ctx, SameLayer

\* ALERT_HaveExceeded: the warning is counted, and one too many is fatal.
LEMMA ExceededFacts ==
  ASSUME NEW c \in Ctx, c.warnCount < MaxAlertCount, NEW d, d = ALERT_HaveExceeded(c)
  PROVE  /\ d \in Ctx /\ SameLayer(c, d)
         /\ d.state = c.state /\ d.preState = c.preState /\ d.shutdownState = c.shutdownState
         /\ \/ /\ d.alert = c.alert /\ d.log.fatal = c.log.fatal
               /\ d.warnCount < MaxAlertCount \/ (c.alert.flag # "NO" /\ c.alert.kind = "fatal")
            \/ d.alert.flag = "SEND" /\ d.alert.kind = "fatal" /\ ~d.alert.isFlush /\ d.log.fatal
  <1> DEFINE n == c.warnCount + 1
             e == [c EXCEPT !.warnCount = n]
  <1>1. n \in 0 .. MaxAlertCount
    BY AlertCountAssumption DEF Ctx
  <1>2. d = IF e.warnCount >= MaxAlertCount THEN ALERT_Send(e, "fatal") ELSE e
    BY Zenon DEF ALERT_HaveExceeded
  <1> HIDE DEF n
  <1>3. e \in Ctx
    BY <1>1 DEF Ctx
  <1>4. /\ SameLayer(c, e) /\ e.state = c.state /\ e.preState = c.preState /\ e.shutdownState = c.shutdownState
        /\ e.alert = c.alert /\ e.log.fatal = c.log.fatal /\ e.warnCount = n
    BY DEF Ctx, SameLayer
  <1> HIDE DEF e
  <1>5. CASE e.warnCount >= MaxAlertCount
    <2>1. d = ALERT_Send(e, "fatal") /\ "fatal" \in AlertKinds
      BY <1>2, <1>5 DEF AlertKinds
    <2>2. /\ d \in Ctx /\ SameLayer(e, d)
          /\ d.state = e.state /\ d.preState = e.preState /\ d.shutdownState = e.shutdownState
          /\ IF AlertIsAbnormalInput(e.alert, "fatal") THEN d = e
             ELSE /\ d.alert.flag = "SEND" /\ d.alert.kind = "fatal" /\ ~d.alert.isFlush
                  /\ d.log.fatal = (e.log.fatal \/ "fatal" = "fatal")
      BY <1>3, <2>1, SendFacts
    <2>3. SameLayer(c, d)
      BY <1>4, <2>2 DEF SameLayer
    <2>4. CASE AlertIsAbnormalInput(e.alert, "fatal")
      BY <1>4, <2>2, <2>3, <2>4 DEF AlertIsAbnormalInput
    <2>5. CASE ~AlertIsAbnormalInput(e.alert, "fatal")
      BY <1>4, <2>2, <2>3, <2>5
    <2>6. QED
      BY <2>4, <2>5
  <1>6. CASE ~(e.warnCount >= MaxAlertCount)
    <2>1. d = e
      BY <1>2, <1>6
    <2>2. e.warnCount < MaxAlertCount
      BY <1>1, <1>4, <1>6, AlertCountAssumption
    <2>3. QED
      BY <1>3, <1>4, <2>1, <2>2
  <1>7. QED
    BY <1>5, <1>6

-------------------------------------------------------------------------------
(* The record layer. *)

\* Taken: the transport has the record.
LEMMA TakenFacts ==
  ASSUME NEW c \in Ctx, NEW kind, NEW d, d = Taken(c, kind)
  PROVE  /\ d \in Ctx /\ SameManage(c, d) /\ d.outBuf = "none" /\ d.log.encoded = c.log.encoded
         /\ d.log.wire = c.log.wire \cup ({kind} \cap {"close", "fatal"})
         /\ d.log.afterClose = c.log.afterClose /\ d.log.afterFatal = c.log.afterFatal
         /\ d.log.copies = c.log.copies /\ d.log.writing = c.log.writing /\ d.log.disturbed = c.log.disturbed
  BY DEF Taken, Ctx, Log, SameManage

\* Built: the record layer makes a record of the kind.
LEMMA BuiltFacts ==
  ASSUME NEW c \in Ctx, NEW kind, NEW d, d = Built(c, kind)
  PROVE  /\ d \in Ctx /\ SameManage(c, d) /\ d.outBuf = c.outBuf
         /\ d.log.encoded = c.log.encoded \cup ({kind} \cap {"close", "fatal"})
         /\ d.log.wire = c.log.wire /\ d.log.writing = c.log.writing /\ d.log.disturbed = c.log.disturbed
         /\ ~("close" \in c.log.encoded /\ kind \in {"app", "hs", "close"}) => d.log.afterClose = c.log.afterClose
         /\ ~(c.log.fatal /\ kind = "app") => d.log.afterFatal = c.log.afterFatal
         /\ d.log.copies = IF kind = "app" /\ c.log.copies < 2 THEN c.log.copies + 1 ELSE c.log.copies
  <1> DEFINE e == c.log.encoded \cup ({kind} \cap {"close", "fatal"})
             a == IF "close" \in c.log.encoded
                  THEN c.log.afterClose \cup ({kind} \cap {"app", "hs", "close"}) ELSE c.log.afterClose
             f == IF c.log.fatal THEN c.log.afterFatal \cup ({kind} \cap {"app"}) ELSE c.log.afterFatal
             n == IF kind = "app" /\ c.log.copies < 2 THEN c.log.copies + 1 ELSE c.log.copies
             l == [c.log EXCEPT !.encoded = e, !.afterClose = a, !.afterFatal = f, !.copies = n]
  <1>1. /\ e \in SUBSET {"close", "fatal"} /\ a \in SUBSET {"app", "hs", "close"}
        /\ f \in SUBSET {"app", "read"} /\ n \in 0 .. 2
    BY DEF Ctx, Log
  <1>2. /\ ~("close" \in c.log.encoded /\ kind \in {"app", "hs", "close"}) => a = c.log.afterClose
        /\ ~(c.log.fatal /\ kind = "app") => f = c.log.afterFatal
    BY DEF Ctx, Log
  <1>3. d = [c EXCEPT !.log = l]
    <2> HIDE DEF e, a, f, n
    <2>1. d = [c EXCEPT !.log.encoded = e, !.log.afterClose = a, !.log.afterFatal = f, !.log.copies = n]
      BY Zenon DEF Built, e, a, f, n
    <2>2. QED
      BY <2>1 DEF Ctx, Log
  <1>4. /\ l \in Log /\ l.encoded = e /\ l.afterClose = a /\ l.afterFatal = f /\ l.copies = n /\ l.wire = c.log.wire
        /\ l.writing = c.log.writing /\ l.disturbed = c.log.disturbed /\ l.fatal = c.log.fatal
    <2> HIDE DEF e, a, f, n
    <2>1. c.log \in Log
      BY DEF Ctx
    <2>2. QED
      BY <1>1, <2>1 DEF Log
  <1> HIDE DEF l
  <1>5. d \in Ctx /\ d.log = l /\ SameManage(c, d) /\ d.outBuf = c.outBuf
    BY <1>3, <1>4 DEF Ctx, SameManage
  <1>6. QED
    BY <1>2, <1>4, <1>5 DEF e, n

\* What no operation of the record layer undoes.
LayerStep(c, d) ==
  /\ c.log.wire \subseteq d.log.wire /\ c.log.encoded \subseteq d.log.encoded
  /\ c.outBuf = "fatal" => d.outBuf = "fatal" \/ "fatal" \in d.log.wire

\* What REC_OutBufFlush returns.
FlushOK(c, r) ==
  /\ r.ctx \in Ctx /\ SameManage(c, r.ctx) /\ LayerStep(c, r.ctx) /\ RecordInv(r.ctx)
  /\ r.ctx.log.encoded = c.log.encoded /\ r.ctx.log.writing = c.log.writing
  /\ r.ctx.log.copies = c.log.copies /\ (c.log.disturbed => r.ctx.log.disturbed)
  /\ r.ret \in {"SUCCESS", "IO_BUSY"}
  /\ r.ret = "SUCCESS" => r.ctx.outBuf = "none"

\* REC_OutBufFlush keeps the data of a write accounted for.
LEMMA FlushFacts ==
  ASSUME NEW c \in Ctx, RecordInv(c), NEW io \in {"ok", "busy"}, NEW r, r = REC_OutBufFlush(c, io)
  PROVE  FlushOK(c, r)
  <1> DEFINE t == Taken(c, c.outBuf)
             b == t.log.disturbed \/ c.outBuf = "app"
             d == [t EXCEPT !.pendingData = FALSE, !.log.disturbed = b]
  <1>1. CASE c.outBuf = "none" \/ io = "busy"
    <2>1. (r = Result(c, "SUCCESS") /\ c.outBuf = "none") \/ r = Result(c, "IO_BUSY")
      BY <1>1, Zenon DEF REC_OutBufFlush
    <2>2. r.ctx = c /\ ((r.ret = "SUCCESS" /\ c.outBuf = "none") \/ r.ret = "IO_BUSY")
      BY <2>1 DEF Result
    <2>3. QED
      BY <2>2 DEF FlushOK, SameManage, LayerStep
  <1>2. CASE c.outBuf # "none" /\ io = "ok"
    <2>1. r = Result(d, "SUCCESS")
      BY <1>2, Zenon DEF REC_OutBufFlush
    <2>2. /\ t \in Ctx /\ SameManage(c, t) /\ t.outBuf = "none" /\ t.log.encoded = c.log.encoded
          /\ t.log.wire = c.log.wire \cup ({c.outBuf} \cap {"close", "fatal"})
          /\ t.log.afterClose = c.log.afterClose /\ t.log.afterFatal = c.log.afterFatal
          /\ t.log.copies = c.log.copies /\ t.log.writing = c.log.writing /\ t.log.disturbed = c.log.disturbed
      BY TakenFacts
    <2>3. b \in BOOLEAN
      OBVIOUS
    <2> HIDE DEF t, b
    <2>4. d \in Ctx
      <3> DEFINE l == [t.log EXCEPT !.disturbed = b]
      <3>1. l \in Log
        BY <2>2, <2>3 DEF Ctx, Log
      <3>2. d = [t EXCEPT !.pendingData = FALSE, !.log = l]
        BY <2>2 DEF Ctx, Log
      <3> HIDE DEF l
      <3>3. QED
        BY <2>2, <3>1, <3>2 DEF Ctx
    <2>5. /\ SameManage(t, d) /\ d.outBuf = t.outBuf /\ d.log.encoded = t.log.encoded /\ d.log.wire = t.log.wire
          /\ d.log.afterClose = t.log.afterClose /\ d.log.afterFatal = t.log.afterFatal
          /\ d.log.copies = t.log.copies /\ d.log.writing = t.log.writing /\ d.log.disturbed = b
      BY <2>2 DEF Ctx, Log, SameManage
    <2> HIDE DEF d
    <2>6. RecordInv(d)
      BY <2>2, <2>5 DEF RecordInv, b
    <2>7. r.ctx = d /\ r.ret = "SUCCESS"
      BY <2>1 DEF Result
    <2>8. LayerStep(c, d) /\ SameManage(c, d)
      BY <2>2, <2>5 DEF LayerStep, SameManage
    <2>9. QED
      BY <2>2, <2>4, <2>5, <2>6, <2>7, <2>8 DEF FlushOK, b
  <1>3. QED
    BY <1>1, <1>2

\* What REC_Write returns.
WriteOK(c, kind, io, w) ==
  /\ w.ctx \in Ctx /\ SameManage(c, w.ctx) /\ LayerStep(c, w.ctx) /\ w.ctx.log.writing = c.log.writing
  /\ w.ctx.log.encoded \subseteq c.log.encoded \cup {kind}
  /\ w.ret \in {"SUCCESS", "IO_BUSY", "ERROR"}
  /\ IF kind = "app" /\ w.ret = "SUCCESS"
     THEN /\ w.ctx.log.afterClose = {} /\ w.ctx.log.afterFatal = {} /\ w.ctx.outBuf = "none"
          /\ w.ctx.log.disturbed \/ w.ctx.log.copies = 1
     ELSE RecordInv(w.ctx)
  /\ c.outBuf = "none" /\ kind = "fatal" /\ io # "fail"
       => "fatal" \in w.ctx.log.wire \/ (w.ctx.outBuf = "fatal" /\ w.ret # "SUCCESS")

\* A record may be built for application data or a handshake message before
\* anything has ended the connection, and for one close_notify.
MayBuild(c, kind) ==
  /\ kind \in {"app", "hs", "close", "no_reneg", "fatal"}
  /\ kind \in {"app", "hs", "close"} => "close" \notin c.log.encoded
  /\ kind = "app" => c.log.writing /\ ~c.log.fatal

\* REC_Write keeps the data of a write accounted for.
LEMMA WriteFacts ==
  ASSUME NEW c \in Ctx, RecordInv(c), NEW kind, MayBuild(c, kind), NEW io \in Outcomes,
         NEW w, w = REC_Write(c, kind, io)
  PROVE  WriteOK(c, kind, io, w)
  <1>1. CASE c.outBuf # "none" /\ io # "ok"
    <2>1. w = Result(c, "IO_BUSY")
      BY <1>1, Zenon DEF REC_Write
    <2>2. w.ctx = c /\ w.ret = "IO_BUSY"
      BY <2>1 DEF Result
    <2>3. QED
      BY <1>1, <2>2 DEF WriteOK, SameManage, LayerStep
  <1>2. CASE c.outBuf # "none" /\ io = "ok"
    <2> DEFINE t == Taken(c, c.outBuf)
               m == t.log.lost \/ kind # c.outBuf
               b == t.log.disturbed \/ (kind # c.outBuf /\ "app" \in {kind, c.outBuf})
               d == [t EXCEPT !.log.lost = m, !.log.disturbed = b]
    <2>1. w = Result(d, "SUCCESS")
      BY <1>2, Zenon DEF REC_Write
    <2>2. /\ t \in Ctx /\ SameManage(c, t) /\ t.outBuf = "none" /\ t.log.encoded = c.log.encoded
          /\ t.log.wire = c.log.wire \cup ({c.outBuf} \cap {"close", "fatal"})
          /\ t.log.afterClose = c.log.afterClose /\ t.log.afterFatal = c.log.afterFatal
          /\ t.log.copies = c.log.copies /\ t.log.writing = c.log.writing /\ t.log.disturbed = c.log.disturbed
      BY TakenFacts
    <2>3. b \in BOOLEAN /\ m \in BOOLEAN
      OBVIOUS
    <2> HIDE DEF t, b, m
    <2>4. d \in Ctx
      <3> DEFINE l == [t.log EXCEPT !.lost = m, !.disturbed = b]
      <3>1. l \in Log
        BY <2>2, <2>3 DEF Ctx, Log
      <3>2. d = [t EXCEPT !.log = l]
        BY <2>2 DEF Ctx, Log
      <3> HIDE DEF l
      <3>3. QED
        BY <2>2, <3>1, <3>2 DEF Ctx
    <2>5. /\ SameManage(t, d) /\ d.outBuf = t.outBuf /\ d.log.encoded = t.log.encoded /\ d.log.wire = t.log.wire
          /\ d.log.afterClose = t.log.afterClose /\ d.log.afterFatal = t.log.afterFatal
          /\ d.log.copies = t.log.copies /\ d.log.writing = t.log.writing /\ d.log.disturbed = b
      BY <2>2 DEF Ctx, Log, SameManage
    <2> HIDE DEF d
    <2>6. IF kind = "app"
          THEN /\ d.log.afterClose = {} /\ d.log.afterFatal = {} /\ d.outBuf = "none"
               /\ d.log.disturbed \/ d.log.copies = 1
          ELSE RecordInv(d)
      BY <2>2, <2>5 DEF RecordInv, b, MayBuild
    <2>7. w.ctx = d /\ w.ret = "SUCCESS"
      BY <2>1 DEF Result
    <2>8. LayerStep(c, d) /\ SameManage(c, d)
      BY <2>2, <2>5 DEF LayerStep, SameManage
    <2>9. QED
      BY <1>2, <2>2, <2>4, <2>5, <2>6, <2>7, <2>8 DEF WriteOK
  <1>3. CASE c.outBuf = "none" /\ io = "fail"
    <2>1. w = Result(c, "ERROR")
      BY <1>3, Zenon DEF REC_Write
    <2>2. w.ctx = c /\ w.ret = "ERROR"
      BY <2>1 DEF Result
    <2>3. QED
      BY <1>3, <2>2 DEF WriteOK, SameManage, LayerStep
  <1>4. CASE c.outBuf = "none" /\ io \in {"ok", "busy"}
    <2> DEFINE b == Built(c, kind)
    <2>1. /\ b \in Ctx /\ SameManage(c, b) /\ b.outBuf = c.outBuf
          /\ b.log.encoded = c.log.encoded \cup ({kind} \cap {"close", "fatal"})
          /\ b.log.wire = c.log.wire /\ b.log.writing = c.log.writing /\ b.log.disturbed = c.log.disturbed
          /\ ~("close" \in c.log.encoded /\ kind \in {"app", "hs", "close"}) => b.log.afterClose = c.log.afterClose
          /\ ~(c.log.fatal /\ kind = "app") => b.log.afterFatal = c.log.afterFatal
          /\ b.log.copies = IF kind = "app" /\ c.log.copies < 2 THEN c.log.copies + 1 ELSE c.log.copies
      BY BuiltFacts
    <2>2. b.log.afterClose = {} /\ b.log.afterFatal = {}
      BY <2>1 DEF RecordInv, MayBuild
    <2>3. /\ kind # "app" => b.log.copies = c.log.copies
          /\ kind = "app" /\ ~c.log.disturbed => b.log.copies = 1
      BY <1>4, <2>1 DEF RecordInv, MayBuild
    <2>4. CASE io = "ok"
      <3> DEFINE d == Taken(b, kind)
      <3>1. w = Result(d, "SUCCESS")
        BY <1>4, <2>4, Zenon DEF REC_Write
      <3> HIDE DEF b
      <3>2. /\ d \in Ctx /\ SameManage(b, d) /\ d.outBuf = "none" /\ d.log.encoded = b.log.encoded
            /\ d.log.wire = b.log.wire \cup ({kind} \cap {"close", "fatal"})
            /\ d.log.afterClose = b.log.afterClose /\ d.log.afterFatal = b.log.afterFatal
            /\ d.log.copies = b.log.copies /\ d.log.writing = b.log.writing /\ d.log.disturbed = b.log.disturbed
        BY <2>1, TakenFacts
      <3> HIDE DEF d
      <3>3. IF kind = "app"
            THEN d.log.disturbed \/ d.log.copies = 1
            ELSE RecordInv(d)
        BY <1>4, <2>1, <2>2, <2>3, <3>2 DEF RecordInv
      <3>4. w.ctx = d /\ w.ret = "SUCCESS"
        BY <3>1 DEF Result
      <3>5. LayerStep(c, d) /\ SameManage(c, d)
        BY <1>4, <2>1, <3>2 DEF LayerStep, SameManage
      <3>6. QED
        BY <2>1, <2>2, <3>2, <3>3, <3>4, <3>5 DEF WriteOK
    <2>5. CASE io = "busy"
      <3> DEFINE d == [b EXCEPT !.outBuf = kind]
      <3>1. w = Result(d, "IO_BUSY")
        BY <1>4, <2>5, Zenon DEF REC_Write
      <3> HIDE DEF b
      <3>2. /\ d \in Ctx /\ SameManage(b, d) /\ d.outBuf = kind /\ d.log = b.log
        BY <2>1 DEF Ctx, SameManage, MayBuild
      <3> HIDE DEF d
      <3>3. RecordInv(d)
        BY <1>4, <2>1, <2>2, <2>3, <3>2 DEF RecordInv, MayBuild
      <3>4. w.ctx = d /\ w.ret = "IO_BUSY"
        BY <3>1 DEF Result
      <3>5. LayerStep(c, d) /\ SameManage(c, d)
        BY <1>4, <2>1, <3>2 DEF LayerStep, SameManage
      <3>6. QED
        BY <2>1, <2>2, <3>2, <3>3, <3>4, <3>5 DEF WriteOK
    <2>6. QED
      BY <1>4, <2>4, <2>5
  <1>5. QED
    BY <1>1, <1>2, <1>3, <1>4 DEF Outcomes

\* REC_Write returns a ctx and a code.
LEMMA WriteResult ==
  ASSUME NEW c, NEW kind, NEW io \in Outcomes, NEW w, w = REC_Write(c, kind, io)
  PROVE  w = Result(w.ctx, w.ret)
  <1>1. \E d, ret : w = Result(d, ret)
    BY Zenon DEF REC_Write, Outcomes
  <1>2. PICK d, ret : w = Result(d, ret)
    BY <1>1
  <1>3. w.ctx = d /\ w.ret = ret
    BY <1>2 DEF Result
  <1>4. QED
    BY <1>2, <1>3

-------------------------------------------------------------------------------
(* Alerts. *)

\* What the transport may answer.
LEMMA IOFacts ==
  ASSUME NEW io \in IO
  PROVE  io.flush \in {"ok", "busy"} /\ io.write \in Outcomes /\ (~config.writeErrors => io.write # "fail")
  BY DEF IO, BuildOutcomes, Outcomes

\* The parts of a ctx that sending its alert leaves alone.
SameUnsent(c, d) ==
  /\ d.state = c.state /\ d.preState = c.preState /\ d.shutdownState = c.shutdownState
  /\ d.warnCount = c.warnCount /\ d.log.fatal = c.log.fatal
  /\ d.alert.flag = c.alert.flag /\ d.alert.kind = c.alert.kind /\ (c.alert.isFlush => d.alert.isFlush)

\* What ALERT_Flush returns.
AlertFlushOK(c, r) ==
  /\ Base(r.ctx) /\ SameUnsent(c, r.ctx) /\ r.ctx.log.writing = c.log.writing
  /\ "close" \in r.ctx.log.encoded => "close" \in c.log.encoded \/ (c.alert.kind = "close" /\ r.ctx.alert.isFlush)
  /\ r.ret \in Rets
  /\ r.ret = "SUCCESS" => FatalGone(r.ctx)

\* ALERT_Flush builds the alert once, however often it is called, and succeeds
\* when the transport has it.
LEMMA AlertFlushFacts ==
  ASSUME NEW c, Base(c), c.alert.flag = "SEND",
         "close" \in c.log.encoded /\ c.alert.kind = "close" => c.alert.isFlush,
         NEW io \in IO, NEW r, r = ALERT_Flush(c, io)
  PROVE  AlertFlushOK(c, r)
  <1> DEFINE f == REC_OutBufFlush(c, io.flush)
             w == REC_Write(f.ctx, c.alert.kind, io.write)
             g == [w EXCEPT !.ctx.alert.isFlush = TRUE]
  <1>1. io.flush \in {"ok", "busy"} /\ io.write \in Outcomes /\ (~config.writeErrors => io.write # "fail")
    BY IOFacts
  <1>2. c \in Ctx /\ RecordInv(c) /\ AlertInv(c)
    BY DEF Base
  <1>3. FlushOK(c, f)
    BY <1>1, <1>2, FlushFacts
  <1>4. /\ f.ctx \in Ctx /\ SameManage(c, f.ctx) /\ LayerStep(c, f.ctx) /\ RecordInv(f.ctx)
        /\ f.ctx.log.encoded = c.log.encoded /\ f.ctx.log.writing = c.log.writing
        /\ f.ret \in {"SUCCESS", "IO_BUSY"} /\ (f.ret = "SUCCESS" => f.ctx.outBuf = "none")
    BY <1>3 DEF FlushOK
  <1>5. r = IF f.ret # "SUCCESS" \/ c.alert.isFlush THEN f
            ELSE IF f.ctx.pendingData /\ c.alert.kind = "close" THEN Result(f.ctx, "IO_BUSY") ELSE g
    BY Zenon DEF ALERT_Flush
  <1> HIDE DEF f
  <1>6. AlertInv(f.ctx)
    BY <1>2, <1>4 DEF AlertInv, SameManage, LayerStep
  <1>7. Base(f.ctx) /\ SameUnsent(c, f.ctx)
    BY <1>4, <1>6 DEF Base, SameManage, SameUnsent
  <1>8. CASE f.ret # "SUCCESS" \/ c.alert.isFlush
    <2>1. r = f
      BY <1>5, <1>8
    <2>2. f.ret = "SUCCESS" => FatalGone(f.ctx)
      BY <1>2, <1>4, <1>8 DEF AlertInv, FatalGone, LayerStep, SameManage
    <2>3. QED
      BY <1>4, <1>7, <2>1, <2>2 DEF AlertFlushOK, Rets
  <1>9. CASE f.ret = "SUCCESS" /\ ~c.alert.isFlush /\ f.ctx.pendingData /\ c.alert.kind = "close"
    <2>1. r = Result(f.ctx, "IO_BUSY")
      BY <1>5, <1>9
    <2>2. r.ctx = f.ctx /\ r.ret = "IO_BUSY"
      BY <2>1 DEF Result
    <2>3. QED
      BY <1>4, <1>7, <2>2 DEF AlertFlushOK, Rets
  <1>10. CASE f.ret = "SUCCESS" /\ ~c.alert.isFlush /\ ~(f.ctx.pendingData /\ c.alert.kind = "close")
    <2>1. r = g
      BY <1>5, <1>10
    <2>2. MayBuild(f.ctx, c.alert.kind)
      BY <1>2, <1>4, <1>10 DEF MayBuild, AlertInv
    <2>3. WriteOK(f.ctx, c.alert.kind, io.write, w)
      BY <1>1, <1>4, <2>2, WriteFacts
    <2>4. w = Result(w.ctx, w.ret)
      BY <1>1, WriteResult
    <2> HIDE DEF w
    <2>5. /\ w.ctx \in Ctx /\ SameManage(f.ctx, w.ctx) /\ LayerStep(f.ctx, w.ctx) /\ w.ctx.log.writing = f.ctx.log.writing
          /\ w.ctx.log.encoded \subseteq f.ctx.log.encoded \cup {c.alert.kind}
          /\ w.ret \in {"SUCCESS", "IO_BUSY", "ERROR"} /\ RecordInv(w.ctx)
          /\ c.alert.kind = "fatal" /\ io.write # "fail"
               => "fatal" \in w.ctx.log.wire \/ (w.ctx.outBuf = "fatal" /\ w.ret # "SUCCESS")
      BY <1>2, <1>4, <1>10, <2>3 DEF WriteOK, AlertInv
    <2> DEFINE v == w.ctx
               a == [v.alert EXCEPT !.isFlush = TRUE]
               d == [v EXCEPT !.alert = a]
    <2>6. a \in AlertCtx /\ a.flag = v.alert.flag /\ a.kind = v.alert.kind /\ a.isFlush = TRUE
      BY <2>5 DEF Ctx, AlertCtx
    <2>7. g.ctx = d /\ g.ret = w.ret
      BY <2>4 DEF Result
    <2> HIDE DEF v, a, g
    <2>8. /\ d \in Ctx /\ d.alert = a /\ d.outBuf = v.outBuf /\ d.log = v.log
          /\ d.state = v.state /\ d.preState = v.preState /\ d.shutdownState = v.shutdownState /\ d.warnCount = v.warnCount
      BY <2>5, <2>6 DEF Ctx, v
    <2> HIDE DEF d
    <2>9. RecordInv(d)
      BY <2>5, <2>8 DEF RecordInv, v
    <2>10. SameUnsent(c, d) /\ d.alert.isFlush
      BY <1>4, <1>10, <2>5, <2>6, <2>8 DEF SameUnsent, SameManage, v
    <2>11. AlertInv(d)
      BY <1>1, <1>2, <2>5, <2>8, <2>10 DEF AlertInv, SameUnsent, v
    <2>12. w.ret = "SUCCESS" => FatalGone(d)
      BY <1>1, <2>5, <2>8, <2>10 DEF FatalGone, SameUnsent, v
    <2>13. d.log.writing = c.log.writing /\ d.log.encoded \subseteq c.log.encoded \cup {c.alert.kind}
      BY <1>4, <2>5, <2>8 DEF v
    <2>14. QED
      BY <2>1, <2>5, <2>7, <2>8, <2>9, <2>10, <2>11, <2>12, <2>13 DEF AlertFlushOK, Base, Rets
  <1>11. QED
    BY <1>8, <1>9, <1>10

\* What the handlers of a pending alert return.
EventOK(c, r) ==
  /\ CtxInv(r.ctx) /\ r.ctx.log.writing = c.log.writing /\ r.ret \in Rets
  /\ r.ret = "SUCCESS" => r.ctx.state \in Live \cup {"ALERTED", "CLOSED"}

\* The pending alert goes out and the connection ends, or goes on after a warning.
LEMMA CommonFacts ==
  ASSUME NEW c, CtxInv(c), c.state = "ALERTING", NEW io \in IO, NEW r, r = CommonEventInAlertingState(c, io)
  PROVE  EventOK(c, r)
  <1> DEFINE f == ALERT_Flush(c, io)
             s == IF c.userShutDown THEN "CLOSED" ELSE "ALERTED"
             d == ChangeConnState(f.ctx, s)
             flags == {"SENT"} \cup (IF d.preState # "TRANSPORTING" THEN {"RECEIVED"} ELSE {})
             p == [f.ctx EXCEPT !.state = f.ctx.preState]
  <1>1. Base(c) /\ AlertingInv(c)
    BY DEF CtxInv, StateInv
  <1>2. AlertFlushOK(c, f)
    <2>1. c.alert.flag = "SEND" /\ ("close" \in c.log.encoded /\ c.alert.kind = "close" => c.alert.isFlush)
      BY <1>1 DEF AlertingInv
    <2>2. QED
      BY <1>1, <2>1, AlertFlushFacts
  <1>3. r = IF f.ret # "SUCCESS" THEN f
            ELSE CASE c.alert.kind = "fatal" -> Result(ChangeConnState(f.ctx, "ALERTED"), "SUCCESS")
                   [] c.alert.kind = "close" -> Result(SetShutdown(d, flags), "SUCCESS")
                   [] OTHER -> Result(ALERT_CleanInfo(p), "SUCCESS")
    BY Zenon DEF CommonEventInAlertingState
  <1> HIDE DEF f
  <1>4. /\ Base(f.ctx) /\ SameUnsent(c, f.ctx) /\ f.ctx.log.writing = c.log.writing
        /\ "close" \in f.ctx.log.encoded => "close" \in c.log.encoded \/ (c.alert.kind = "close" /\ f.ctx.alert.isFlush)
        /\ f.ret \in Rets /\ (f.ret = "SUCCESS" => FatalGone(f.ctx))
    BY <1>2 DEF AlertFlushOK
  <1>5. AlertingInv(f.ctx) /\ f.ctx \in Ctx
    BY <1>1, <1>4 DEF AlertingInv, Clean, SameUnsent, Base
  <1>6. CASE f.ret # "SUCCESS"
    <2>1. r = f
      BY <1>3, <1>6
    <2>2. StateInv(f.ctx)
      BY <1>4, <1>5 DEF StateInv, SameUnsent, Live
    <2>3. QED
      BY <1>4, <1>6, <2>1, <2>2 DEF EventOK, CtxInv
  <1>7. CASE f.ret = "SUCCESS" /\ c.alert.kind = "fatal"
    <2> DEFINE e == ChangeConnState(f.ctx, "ALERTED")
    <2>1. r = Result(e, "SUCCESS")
      BY <1>3, <1>7
    <2>2. /\ e \in Ctx /\ SameLayer(f.ctx, e) /\ e.alert = f.ctx.alert /\ e.state = "ALERTED"
          /\ e.log.fatal = f.ctx.log.fatal
      <3>1. "ALERTED" \in States
        BY DEF States
      <3>2. QED
        BY <1>5, <3>1, ChangeFacts
    <2> HIDE DEF e
    <2>3. Base(e) /\ FatalGone(e)
      BY <1>4, <1>7, <2>2 DEF Base, RecordInv, AlertInv, FatalGone, SameLayer
    <2>4. StateInv(e)
      BY <2>2, <2>3 DEF StateInv, Live
    <2>5. r.ctx = e /\ r.ret = "SUCCESS"
      BY <2>1 DEF Result
    <2>6. e.log.writing = c.log.writing
      BY <1>4, <2>2 DEF SameLayer
    <2>7. QED
      BY <2>2, <2>3, <2>4, <2>5, <2>6 DEF EventOK, CtxInv, Rets
  <1>8. CASE f.ret = "SUCCESS" /\ c.alert.kind = "close"
    <2> DEFINE e == SetShutdown(d, flags)
    <2>1. r = Result(e, "SUCCESS")
      BY <1>3, <1>8
    <2>2. s \in States /\ s \in {"CLOSED", "ALERTED"} /\ flags \in SUBSET Shutdown /\ "SENT" \in flags
      BY DEF States, Shutdown
    <2> HIDE DEF s, flags
    <2>3. /\ d \in Ctx /\ SameLayer(f.ctx, d) /\ d.alert = f.ctx.alert /\ d.state = s
          /\ d.log.fatal = f.ctx.log.fatal
      BY <1>5, <2>2, ChangeFacts
    <2> HIDE DEF d
    <2>4. /\ e \in Ctx /\ SameLayer(d, e) /\ e.alert = d.alert /\ e.state = d.state /\ e.log.fatal = d.log.fatal
          /\ e.shutdownState = d.shutdownState \cup flags
      BY <2>2, <2>3, ShutFacts
    <2> HIDE DEF e
    <2>5. Base(e)
      BY <1>4, <2>3, <2>4 DEF Base, RecordInv, AlertInv, SameLayer
    <2>6. "SENT" \in e.shutdownState /\ ~e.log.fatal /\ e.alert.kind = "close"
      BY <1>4, <1>5, <1>8, <2>2, <2>3, <2>4 DEF AlertingInv, SameUnsent
    <2>7. StateInv(e)
      BY <2>2, <2>3, <2>4, <2>6 DEF StateInv, ClosedInv, FatalGone, Live
    <2>8. r.ctx = e /\ r.ret = "SUCCESS"
      BY <2>1 DEF Result
    <2>9. e.log.writing = c.log.writing
      BY <1>4, <2>3, <2>4 DEF SameLayer
    <2>10. QED
      BY <2>2, <2>3, <2>4, <2>5, <2>7, <2>8, <2>9 DEF EventOK, CtxInv, Rets
  <1>9. CASE f.ret = "SUCCESS" /\ c.alert.kind # "fatal" /\ c.alert.kind # "close"
    <2> DEFINE e == ALERT_CleanInfo(p)
    <2>1. r = Result(e, "SUCCESS")
      BY <1>3, <1>9
    <2>2. c.alert.kind = "no_reneg"
      BY <1>1, <1>9 DEF AlertingInv, Base, AlertInv
    <2>3. Clean(f.ctx) /\ f.ctx.preState \in Live
      BY <1>4, <1>5, <2>2 DEF AlertingInv, SameUnsent
    <2>4. /\ p \in Ctx /\ SameLayer(f.ctx, p) /\ p.state = f.ctx.preState /\ p.warnCount = f.ctx.warnCount
          /\ p.log.fatal = f.ctx.log.fatal
      BY <1>5 DEF Ctx, SameLayer
    <2> HIDE DEF p
    <2>5. /\ e \in Ctx /\ SameLayer(p, e) /\ e.alert.flag = "NO" /\ e.state = p.state
          /\ e.warnCount = p.warnCount /\ e.log.fatal = p.log.fatal
      BY <2>4, CleanFacts
    <2> HIDE DEF e
    <2>6. Base(e)
      BY <1>4, <2>4, <2>5 DEF Base, RecordInv, AlertInv, SameLayer
    <2>7. e.state \in Live /\ Clean(e)
      BY <2>3, <2>4, <2>5 DEF Clean, SameLayer
    <2>8. StateInv(e)
      BY <2>5, <2>7 DEF StateInv, Live
    <2>9. r.ctx = e /\ r.ret = "SUCCESS"
      BY <2>1 DEF Result
    <2>10. e.log.writing = c.log.writing
      BY <1>4, <2>4, <2>5 DEF SameLayer
    <2>11. QED
      BY <2>6, <2>7, <2>8, <2>9, <2>10 DEF EventOK, CtxInv, Rets
  <1>10. QED
    BY <1>6, <1>7, <1>8, <1>9

\* An alert was raised or received in c, and is still to be handled.
Pending(c) ==
  /\ Base(c) /\ c.alert.flag # "NO" /\ c.state \in Live \cup {"CLOSED"}
  /\ "close" \in c.log.encoded => c.state = "CLOSED" /\ "SENT" \in c.shutdownState
  /\ c.log.fatal => c.alert.kind = "fatal"
  /\ c.alert.flag = "SEND" => c.alert.kind # "close" /\ (c.alert.kind = "no_reneg" => c.state \in Live)
  /\ c.alert.kind \notin {"close", "fatal"} /\ c.state \in Live => c.warnCount < MaxAlertCount

\* The peer's close_notify closes the connection, with an answer unless the user
\* may still send.
LEMMA RecvCloseFacts ==
  ASSUME NEW c, Pending(c), c.alert.kind = "close", NEW io \in IO, NEW r, r = AlertRecvClose(c, io)
  PROVE  EventOK(c, r)
  <1> DEFINE k == ALERT_CleanInfo(c)
             h == SetShutdown(k, {"RECEIVED"})
             q == [h EXCEPT !.log.gotClose = TRUE]
             a == ALERT_Send(q, "close")
             b == ChangeConnState(a, "ALERTING")
             s == ALERT_Flush(b, io)
  <1>1. /\ Base(c) /\ c \in Ctx /\ RecordInv(c) /\ c.state \in Live \cup {"CLOSED"} /\ ~c.log.fatal
        /\ "close" \in c.log.encoded => c.state = "CLOSED" /\ "SENT" \in c.shutdownState
    BY DEF Pending, Base
  <1>2. {"RECEIVED"} \in SUBSET Shutdown /\ {"SENT"} \in SUBSET Shutdown
    BY DEF Shutdown
  <1>3. {"ALERTED", "CLOSED", "ALERTING"} \subseteq States
    BY DEF States
  <1>4. r = CASE config.isQuietShutdown ->
                   Result(ChangeConnState(SetShutdown(q, {"SENT"}), "ALERTED"), "SUCCESS")
              [] ~config.isQuietShutdown /\ "SENT" \in q.shutdownState ->
                   Result(IF q.state = "CLOSED" THEN q ELSE ChangeConnState(q, "ALERTED"), "LINK_CLOSED")
              [] ~config.isQuietShutdown /\ "SENT" \notin q.shutdownState /\ q.state = "TRANSPORTING" ->
                   Result(ChangeConnState(q, "CLOSED"), "LINK_CLOSED")
              [] OTHER ->
                   IF s.ret # "SUCCESS" THEN s
                   ELSE Result(ChangeConnState(SetShutdown(s.ctx, {"SENT"}), "ALERTED"), "LINK_CLOSED")
    BY Zenon DEF AlertRecvClose
  <1>5. /\ k \in Ctx /\ SameLayer(c, k) /\ k.alert.flag = "NO" /\ k.state = c.state
        /\ k.shutdownState = c.shutdownState /\ k.log.fatal = c.log.fatal
    BY <1>1, CleanFacts
  <1> HIDE DEF k
  <1>6. /\ h \in Ctx /\ SameLayer(k, h) /\ h.alert = k.alert /\ h.state = k.state
        /\ h.shutdownState = k.shutdownState \cup {"RECEIVED"} /\ h.log.fatal = k.log.fatal
    BY <1>2, <1>5, ShutFacts
  <1> HIDE DEF h
  <1>7. q \in Ctx
    <2> DEFINE l == [h.log EXCEPT !.gotClose = TRUE]
    <2>1. l \in Log
      BY <1>6 DEF Ctx, Log
    <2>2. q = [h EXCEPT !.log = l]
      BY <1>6 DEF Ctx, Log
    <2> HIDE DEF l
    <2>3. QED
      BY <1>6, <2>1, <2>2 DEF Ctx
  <1>8. /\ SameLayer(h, q) /\ q.alert = h.alert /\ q.state = h.state
        /\ q.shutdownState = h.shutdownState /\ q.log.fatal = h.log.fatal
    BY <1>6 DEF Ctx, Log, SameLayer
  <1> HIDE DEF q
  <1>9. /\ SameLayer(c, q) /\ q.alert.flag = "NO" /\ q.state = c.state /\ ~q.log.fatal
        /\ "close" \in q.log.encoded => q.state = "CLOSED" /\ "SENT" \in q.shutdownState
    BY <1>1, <1>5, <1>6, <1>8 DEF SameLayer
  <1>10. RecordInv(q) /\ AlertInv(q)
    BY <1>1, <1>9 DEF RecordInv, AlertInv, SameLayer
  <1>11. CASE config.isQuietShutdown
    <2> DEFINE v == SetShutdown(q, {"SENT"})
               e == ChangeConnState(v, "ALERTED")
    <2>1. r = Result(e, "SUCCESS")
      BY <1>4, <1>11
    <2>2. v \in Ctx /\ SameLayer(q, v) /\ v.alert = q.alert /\ v.log.fatal = q.log.fatal
      BY <1>2, <1>7, ShutFacts
    <2> HIDE DEF v
    <2>3. e \in Ctx /\ SameLayer(v, e) /\ e.alert = v.alert /\ e.log.fatal = v.log.fatal /\ e.state = "ALERTED"
      BY <1>3, <2>2, ChangeFacts
    <2> HIDE DEF e
    <2>4. Base(e) /\ StateInv(e)
      BY <1>9, <1>10, <2>2, <2>3 DEF Base, RecordInv, AlertInv, SameLayer, StateInv, FatalGone, Live
    <2>5. r.ctx = e /\ r.ret = "SUCCESS" /\ e.log.writing = c.log.writing
      BY <1>9, <2>1, <2>2, <2>3 DEF Result, SameLayer
    <2>6. QED
      BY <2>3, <2>4, <2>5 DEF EventOK, CtxInv, Rets
  <1>12. CASE ~config.isQuietShutdown /\ "SENT" \in q.shutdownState
    <2> DEFINE v == ChangeConnState(q, "ALERTED")
               e == IF q.state = "CLOSED" THEN q ELSE v
    <2>1. r = Result(e, "LINK_CLOSED")
      BY <1>4, <1>12
    <2>2. v \in Ctx /\ SameLayer(q, v) /\ v.alert = q.alert /\ v.log.fatal = q.log.fatal /\ v.state = "ALERTED"
      BY <1>3, <1>7, ChangeFacts
    <2> HIDE DEF v
    <2>3. Base(v) /\ StateInv(v)
      BY <1>9, <1>10, <2>2 DEF Base, RecordInv, AlertInv, SameLayer, StateInv, FatalGone, Live
    <2>4. q.state = "CLOSED" => Base(q) /\ StateInv(q)
      BY <1>7, <1>9, <1>10, <1>12 DEF Base, StateInv, ClosedInv, Live
    <2>5. q.log.writing = c.log.writing /\ v.log.writing = c.log.writing
      BY <1>9, <2>2 DEF SameLayer
    <2>6. r.ctx = e /\ r.ret = "LINK_CLOSED"
      BY <2>1 DEF Result
    <2>7. QED
      BY <2>3, <2>4, <2>5, <2>6 DEF EventOK, CtxInv, Rets
  <1>13. CASE ~config.isQuietShutdown /\ "SENT" \notin q.shutdownState /\ q.state = "TRANSPORTING"
    <2> DEFINE e == ChangeConnState(q, "CLOSED")
    <2>1. r = Result(e, "LINK_CLOSED")
      BY <1>4, <1>13
    <2>2. e \in Ctx /\ SameLayer(q, e) /\ e.alert = q.alert /\ e.log.fatal = q.log.fatal /\ e.state = "CLOSED"
      BY <1>3, <1>7, ChangeFacts
    <2> HIDE DEF e
    <2>3. Base(e)
      BY <1>10, <2>2 DEF Base, RecordInv, AlertInv, SameLayer
    <2>4. StateInv(e)
      BY <1>9, <1>13, <2>2 DEF SameLayer, StateInv, ClosedInv, Live
    <2>5. r.ctx = e /\ r.ret = "LINK_CLOSED" /\ e.log.writing = c.log.writing
      BY <1>9, <2>1, <2>2 DEF Result, SameLayer
    <2>6. QED
      BY <2>3, <2>4, <2>5 DEF EventOK, CtxInv, Rets
  <1>14. CASE ~config.isQuietShutdown /\ "SENT" \notin q.shutdownState /\ q.state # "TRANSPORTING"
    <2>1. r = IF s.ret # "SUCCESS" THEN s
              ELSE Result(ChangeConnState(SetShutdown(s.ctx, {"SENT"}), "ALERTED"), "LINK_CLOSED")
      BY <1>4, <1>14
    <2>2. ~AlertIsAbnormalInput(q.alert, "close") /\ "close" \in AlertKinds
      BY <1>9 DEF AlertIsAbnormalInput, AlertKinds
    <2>3. /\ a \in Ctx /\ SameLayer(q, a) /\ a.alert.flag = "SEND" /\ a.alert.kind = "close"
          /\ a.log.fatal = (q.log.fatal \/ "close" = "fatal")
      BY <1>7, <2>2, SendFacts
    <2> HIDE DEF a
    <2>4. /\ b \in Ctx /\ SameLayer(a, b) /\ b.alert = a.alert /\ b.log.fatal = a.log.fatal /\ b.state = "ALERTING"
      BY <1>3, <2>3, ChangeFacts
    <2> HIDE DEF b
    <2>5. Base(b) /\ b.alert.flag = "SEND" /\ b.alert.kind = "close" /\ "close" \notin b.log.encoded /\ ~b.log.fatal
      BY <1>9, <1>10, <1>14, <2>3, <2>4, ZenonT(60) DEF Base, RecordInv, AlertInv, SameLayer
    <2>6. AlertFlushOK(b, s)
      BY <2>5, AlertFlushFacts
    <2> HIDE DEF s
    <2>7. /\ Base(s.ctx) /\ SameUnsent(b, s.ctx) /\ s.ctx.log.writing = b.log.writing /\ s.ret \in Rets
          /\ "close" \in s.ctx.log.encoded => s.ctx.alert.isFlush
      BY <2>5, <2>6 DEF AlertFlushOK
    <2>8. b.log.writing = c.log.writing
      BY <1>9, <2>3, <2>4 DEF SameLayer
    <2>9. CASE s.ret # "SUCCESS"
      <3>1. StateInv(s.ctx)
        BY <2>4, <2>5, <2>7 DEF StateInv, AlertingInv, SameUnsent, Live
      <3>2. QED
        BY <2>1, <2>7, <2>8, <2>9, <3>1 DEF EventOK, CtxInv
    <2>10. CASE s.ret = "SUCCESS"
      <3> DEFINE v == SetShutdown(s.ctx, {"SENT"})
                 e == ChangeConnState(v, "ALERTED")
      <3>1. r = Result(e, "LINK_CLOSED")
        BY <2>1, <2>10
      <3>2. v \in Ctx /\ SameLayer(s.ctx, v) /\ v.alert = s.ctx.alert /\ v.log.fatal = s.ctx.log.fatal
        BY <1>2, <2>7, ShutFacts DEF Base
      <3> HIDE DEF v
      <3>3. e \in Ctx /\ SameLayer(v, e) /\ e.alert = v.alert /\ e.log.fatal = v.log.fatal /\ e.state = "ALERTED"
        BY <1>3, <3>2, ChangeFacts
      <3> HIDE DEF e
      <3>4. Base(e)
        BY <2>7, <3>2, <3>3 DEF Base, RecordInv, AlertInv, SameLayer
      <3>5. StateInv(e)
        BY <2>5, <2>7, <3>2, <3>3 DEF SameUnsent, StateInv, FatalGone, Live
      <3>6. r.ctx = e /\ r.ret = "LINK_CLOSED" /\ e.log.writing = c.log.writing
        BY <2>7, <2>8, <3>1, <3>2, <3>3 DEF Result, SameLayer
      <3>7. QED
        BY <3>4, <3>5, <3>6 DEF EventOK, CtxInv, Rets
    <2>11. QED
      BY <2>9, <2>10
  <1>15. QED
    BY <1>11, <1>12, <1>13, <1>14

\* AlertEventProcess handles a pending alert.
LEMMA EventFacts ==
  ASSUME NEW c, Pending(c), NEW io \in IO, NEW r, r = AlertEventProcess(c, io)
  PROVE  EventOK(c, r)
  <1>1. Base(c) /\ c \in Ctx /\ c.alert.flag \in {"SEND", "RECV"}
    BY DEF Pending, Base, Ctx, AlertCtx
  <1>2. CASE c.alert.flag = "SEND"
    <2> DEFINE d == ChangeConnState(c, "ALERTING")
    <2>1. r = CommonEventInAlertingState(d, io)
      BY <1>2, Zenon DEF AlertEventProcess
    <2>2. c.state # "ALERTING" /\ "ALERTING" \in States
      BY DEF Pending, Live, States
    <2>3. /\ d \in Ctx /\ SameLayer(c, d) /\ d.alert = c.alert /\ d.warnCount = c.warnCount
          /\ d.state = "ALERTING" /\ d.preState = c.state /\ d.log.fatal = c.log.fatal
      BY <1>1, <2>2, ChangeFacts
    <2> HIDE DEF d
    <2>4. Base(d)
      BY <1>1, <2>3 DEF Base, RecordInv, AlertInv, SameLayer
    <2>5. AlertingInv(d)
      BY <1>2, <2>3 DEF AlertingInv, Pending, SameLayer, Clean, Live
    <2>6. CtxInv(d)
      BY <2>3, <2>4, <2>5 DEF CtxInv, StateInv, Live
    <2>7. EventOK(d, r)
      BY <2>1, <2>3, <2>6, CommonFacts
    <2>8. QED
      BY <2>3, <2>7 DEF EventOK, SameLayer
  <1>3. CASE c.alert.flag = "RECV" /\ c.alert.kind = "fatal"
    <2> DEFINE d == ChangeConnState(c, "ALERTED")
               e == SetShutdown(d, {"RECEIVED"})
    <2>1. r = Result(e, "SUCCESS")
      BY <1>3, Zenon DEF AlertEventProcess, AlertRecvProcess
    <2>2. "ALERTED" \in States /\ {"RECEIVED"} \in SUBSET Shutdown
      BY DEF States, Shutdown
    <2>3. d \in Ctx /\ SameLayer(c, d) /\ d.alert = c.alert /\ d.state = "ALERTED" /\ d.log.fatal = c.log.fatal
      BY <1>1, <2>2, ChangeFacts
    <2> HIDE DEF d
    <2>4. e \in Ctx /\ SameLayer(d, e) /\ e.alert = d.alert /\ e.state = d.state /\ e.log.fatal = d.log.fatal
      BY <2>2, <2>3, ShutFacts
    <2> HIDE DEF e
    <2>5. Base(e)
      BY <1>1, <2>3, <2>4 DEF Base, RecordInv, AlertInv, SameLayer
    <2>6. StateInv(e)
      BY <1>3, <2>3, <2>4 DEF StateInv, FatalGone, Live
    <2>7. r.ctx = e /\ r.ret = "SUCCESS" /\ e.log.writing = c.log.writing
      BY <2>1, <2>3, <2>4 DEF Result, SameLayer
    <2>8. QED
      BY <2>3, <2>4, <2>5, <2>6, <2>7 DEF EventOK, CtxInv, Rets
  <1>4. CASE c.alert.flag = "RECV" /\ c.alert.kind = "close"
    <2>1. r = AlertRecvClose(c, io)
      BY <1>4, Zenon DEF AlertEventProcess, AlertRecvProcess
    <2>2. QED
      BY <1>4, <2>1, RecvCloseFacts
  <1>5. CASE c.alert.flag = "RECV" /\ c.alert.kind # "fatal" /\ c.alert.kind # "close"
    <2> DEFINE e == ALERT_CleanInfo(c)
    <2>1. r = Result(e, "SUCCESS")
      BY <1>5, Zenon DEF AlertEventProcess, AlertRecvProcess
    <2>2. /\ e \in Ctx /\ SameLayer(c, e) /\ e.alert.flag = "NO" /\ e.state = c.state
          /\ e.shutdownState = c.shutdownState /\ e.warnCount = c.warnCount /\ e.log.fatal = c.log.fatal
      BY <1>1, CleanFacts
    <2> HIDE DEF e
    <2>3. Base(e)
      BY <1>1, <2>2 DEF Base, RecordInv, AlertInv, SameLayer
    <2>4. StateInv(e) /\ e.state \in Live \cup {"CLOSED"}
      BY <1>5, <2>2 DEF StateInv, Pending, ClosedInv, Clean, SameLayer, Live
    <2>5. r.ctx = e /\ r.ret = "SUCCESS" /\ e.log.writing = c.log.writing
      BY <2>1, <2>2 DEF Result, SameLayer
    <2>6. QED
      BY <2>3, <2>4, <2>5 DEF EventOK, CtxInv, Rets
  <1>6. QED
    BY <1>1, <1>2, <1>3, <1>4, <1>5

-------------------------------------------------------------------------------
(* The loops. *)

LoopNames == {"Handshaking", "Renegotiation", "Reading", "Writing"}

\* An open connection without an alert, where a loop runs.
Quiet(c) == Base(c) /\ c.state \in Live /\ Clean(c) /\ c.alert.flag = "NO"

\* An alert was raised or received in an open connection.
Raised(c) ==
  /\ Base(c) /\ c.state \in Live /\ c.alert.flag # "NO" /\ c.warnCount < MaxAlertCount
  /\ "close" \notin c.log.encoded
  /\ c.log.fatal => c.alert.kind = "fatal"
  /\ c.alert.flag = "SEND" => c.alert.kind # "close"

\* A loop runs in an open connection without an alert.
LEMMA LoopQuiet ==
  ASSUME IInv, call.at \in LoopNames
  PROVE  Quiet(ctx)
  BY DEF IInv, CallInv, CtxInv, StateInv, Quiet, LoopNames

\* An open connection without an alert satisfies the invariant.
LEMMA QuietInv ==
  ASSUME NEW c, Quiet(c)
  PROVE  CtxInv(c)
  BY DEF Quiet, CtxInv, StateInv, Live

\* Raised and Quiet read only the two halves of a ctx.
LEMMA SameQuiet ==
  ASSUME NEW c, NEW d \in Ctx, SameLayer(c, d), SameManage(c, d)
  PROVE  (Quiet(c) => Quiet(d)) /\ (Raised(c) => Raised(d)) /\ d.log.writing = c.log.writing
  BY DEF SameLayer, SameManage, Quiet, Raised, Base, RecordInv, AlertInv, Clean

\* ALERT_ClearWarnCount keeps the connection open.
LEMMA ClearQuiet ==
  ASSUME NEW c, Quiet(c), NEW d, d = ALERT_ClearWarnCount(c)
  PROVE  Quiet(d) /\ d.log.writing = c.log.writing
  <1>1. c \in Ctx
    BY DEF Quiet, Base
  <1>2. /\ d \in Ctx /\ SameLayer(c, d) /\ d.alert = c.alert /\ d.warnCount = 0 /\ d.state = c.state
        /\ d.log.fatal = c.log.fatal
    BY <1>1, ClearWarnFacts
  <1>3. 0 < MaxAlertCount
    BY AlertCountAssumption
  <1>4. QED
    BY <1>2, <1>3 DEF Quiet, Base, RecordInv, AlertInv, Clean, SameLayer

\* The code raises a fatal alert or refuses a renegotiation.
LEMMA SendRaises ==
  ASSUME NEW c, Quiet(c), NEW kind \in {"fatal", "no_reneg"}, NEW d, d = ALERT_Send(c, kind)
  PROVE  Raised(d) /\ d.log.writing = c.log.writing
  <1>1. c \in Ctx /\ kind \in AlertKinds /\ ~AlertIsAbnormalInput(c.alert, kind)
    BY DEF Quiet, Base, AlertKinds, AlertIsAbnormalInput
  <1>2. /\ d \in Ctx /\ SameLayer(c, d) /\ d.state = c.state /\ d.warnCount = c.warnCount
        /\ d.alert.flag = "SEND" /\ d.alert.kind = kind /\ ~d.alert.isFlush
        /\ d.log.fatal = (c.log.fatal \/ kind = "fatal")
    BY <1>1, SendFacts
  <1>3. QED
    BY <1>2 DEF Quiet, Raised, Base, RecordInv, AlertInv, Clean, SameLayer

\* The peer sends an alert.
LEMMA RecvRaises ==
  ASSUME NEW c, Quiet(c), NEW kind \in AlertKinds, NEW d, d = ProcessDecryptedAlert(c, kind)
  PROVE  Raised(d) /\ d.log.writing = c.log.writing
  <1>1. c \in Ctx /\ ~AlertIsAbnormalInput(c.alert, kind)
    BY DEF Quiet, Base, AlertIsAbnormalInput
  <1>2. /\ d \in Ctx /\ SameLayer(c, d) /\ d.state = c.state /\ d.warnCount = c.warnCount
        /\ d.alert.flag = "RECV" /\ d.log.fatal = (c.log.fatal \/ d.alert.kind = "fatal")
    BY <1>1, DecryptedFacts
  <1>3. QED
    BY <1>2 DEF Quiet, Raised, Base, RecordInv, AlertInv, Clean, SameLayer

\* A refused renegotiation becomes a fatal alert.
LEMMA InnerRaises ==
  ASSUME NEW c, Raised(c), NEW d, d = InnerRenegotiationProcess(c)
  PROVE  Raised(d) /\ d.log.writing = c.log.writing
  <1>1. CASE c.alert.kind = "no_reneg"
    <2>1. d = ALERT_Send(c, "fatal")
      BY <1>1 DEF InnerRenegotiationProcess
    <2>2. c \in Ctx /\ "fatal" \in AlertKinds /\ ~AlertIsAbnormalInput(c.alert, "fatal")
      BY <1>1 DEF Raised, Base, AlertKinds, AlertIsAbnormalInput
    <2>3. /\ d \in Ctx /\ SameLayer(c, d) /\ d.state = c.state /\ d.warnCount = c.warnCount
          /\ d.alert.flag = "SEND" /\ d.alert.kind = "fatal" /\ ~d.alert.isFlush
          /\ d.log.fatal = (c.log.fatal \/ "fatal" = "fatal")
      BY <2>1, <2>2, SendFacts
    <2>4. QED
      BY <2>3 DEF Raised, Base, RecordInv, AlertInv, SameLayer
  <1>2. CASE c.alert.kind # "no_reneg"
    BY <1>2 DEF InnerRenegotiationProcess
  <1>3. QED
    BY <1>1, <1>2

\* The warning that is one too many is fatal; the alert is then handled.
LEMMA ExceededPending ==
  ASSUME NEW c, Raised(c), NEW d, d = ALERT_HaveExceeded(c)
  PROVE  Pending(d) /\ d.log.writing = c.log.writing
  <1>1. c \in Ctx /\ c.warnCount < MaxAlertCount
    BY DEF Raised, Base
  <1>2. /\ d \in Ctx /\ SameLayer(c, d) /\ d.state = c.state
        /\ \/ /\ d.alert = c.alert /\ d.log.fatal = c.log.fatal
              /\ d.warnCount < MaxAlertCount \/ (c.alert.flag # "NO" /\ c.alert.kind = "fatal")
           \/ d.alert.flag = "SEND" /\ d.alert.kind = "fatal" /\ ~d.alert.isFlush /\ d.log.fatal
    BY <1>1, ExceededFacts
  <1>3. Base(d)
    BY <1>2 DEF Raised, Base, RecordInv, AlertInv, SameLayer
  <1>4. QED
    BY <1>2, <1>3 DEF Raised, Pending, SameLayer

\* The invariant of the new ctx is the invariant of the next state.
LEMMA CtxPrime ==
  ASSUME NEW d, CtxInv(d), ctx' = d, config' = config
  PROVE  CtxInv(ctx)'
  BY DEF CtxInv, Base, RecordInv, AlertInv, StateInv, Clean, AlertingInv, FatalGone, ClosedInv

\* A call returns.
LEMMA ReturnInv ==
  ASSUME CallInv, NEW r \in Rets, Return(r),
         call.api = "Write" /\ r = "SUCCESS" => ~ctx'.log.writing /\ (ctx'.log.disturbed \/ ctx'.log.copies = 1)
  PROVE  CallInv'
  <1>1. "user" \in Loops
    BY DEF Loops
  <1>2. call' \in [api : APIs, at : Loops, ret : Rets] /\ call'.at = "user" /\ call'.ret = r /\ call'.api = call.api
    BY <1>1 DEF CallInv, Return
  <1>3. QED
    BY <1>2 DEF CallInv

\* A call goes on in a loop.
LEMMA ContinueInv ==
  ASSUME CallInv, NEW loop \in LoopNames, Continue(loop), ctx'.state \in Live, call.api # "Close",
         call.at # "user", ctx'.log.writing = ctx.log.writing,
         loop = "Reading" => call.api = "Read", loop = "Writing" => call.api = "Write"
  PROVE  CallInv'
  <1>1. loop \in Loops /\ loop # "user" /\ loop # "Dispatch"
    BY DEF Loops, LoopNames
  <1>2. call' \in [api : APIs, at : Loops, ret : Rets] /\ call'.at = loop /\ call'.api = call.api
    BY <1>1 DEF CallInv, Continue
  <1>3. QED
    BY <1>1, <1>2 DEF CallInv

\* The call goes on where it is.
LEMMA SameCallInv ==
  ASSUME CallInv, UNCHANGED call, ctx'.log.writing = ctx.log.writing,
         call.at \in LoopNames => ctx'.state \in Live,
         call.at = "Dispatch" => ctx'.state # "ALERTING" \/ call.api = "Close",
         call.at = "user" => ctx'.log.disturbed = ctx.log.disturbed /\ ctx'.log.copies = ctx.log.copies
  PROVE  CallInv'
  BY DEF CallInv, LoopNames

\* What a loop does about an alert keeps the invariant.
LEMMA LoopKeeps ==
  ASSUME IInv, config' = config, call.at \in LoopNames, NEW c, Raised(c), c.log.writing = ctx.log.writing,
         NEW ret \in Rets \ {"SUCCESS"}, NEW io \in IO, AlertInLoop(c, ret, io)
  PROVE  IInv'
  <1> DEFINE d == ALERT_HaveExceeded(c)
             a == AlertEventProcess(d, io)
  <1>1. /\ ctx' = a.ctx
        /\ IF a.ret # "SUCCESS" THEN Return(a.ret)
           ELSE IF a.ctx.state \in {"ALERTED", "CLOSED"} THEN Return(ret)
           ELSE UNCHANGED call
    BY Zenon DEF AlertInLoop
  <1>2. Pending(d) /\ d.log.writing = c.log.writing
    BY ExceededPending
  <1> HIDE DEF d
  <1>3. EventOK(d, a)
    BY <1>2, EventFacts
  <1> HIDE DEF a
  <1>4. CtxInv(a.ctx) /\ a.ctx.log.writing = ctx.log.writing /\ a.ret \in Rets
        /\ (a.ret = "SUCCESS" => a.ctx.state \in Live \cup {"ALERTED", "CLOSED"})
    BY <1>2, <1>3 DEF EventOK
  <1>5. CtxInv(ctx)'
    BY <1>1, <1>4, CtxPrime
  <1>6. CallInv
    BY DEF IInv
  <1>7. CallInv'
    <2>1. CASE a.ret # "SUCCESS"
      BY <1>1, <1>4, <1>6, <2>1, ReturnInv
    <2>2. CASE a.ret = "SUCCESS" /\ a.ctx.state \in {"ALERTED", "CLOSED"}
      BY <1>1, <1>6, <2>2, ReturnInv
    <2>3. CASE a.ret = "SUCCESS" /\ a.ctx.state \notin {"ALERTED", "CLOSED"}
      <3>1. UNCHANGED call /\ ctx'.state \in Live /\ ctx'.log.writing = ctx.log.writing
        BY <1>1, <1>4, <2>3
      <3>2. call.at # "user" /\ call.at # "Dispatch"
        BY DEF LoopNames
      <3>3. QED
        BY <1>6, <3>1, <3>2, SameCallInv
    <2>4. QED
      BY <2>1, <2>2, <2>3
  <1>8. QED
    BY <1>5, <1>7 DEF IInv

-------------------------------------------------------------------------------
(* What the handshake changes is not read by the invariants. *)

SameCtx(c, d) == d \in Ctx /\ SameLayer(c, d) /\ SameManage(c, d)

\* HsInitChangeState
LEMMA HsInitFacts ==
  ASSUME NEW c \in Ctx, NEW d, d = HS_Init(c)
  PROVE  SameCtx(c, d)
  <1> DEFINE h == IF config.isClient THEN "send" ELSE IF c.isRenegotiation THEN "sendHelloRequest" ELSE "hello"
  <1>1. h \in HsStates
    BY DEF HsStates, SendStates, RecvStates
  <1>2. d = [c EXCEPT !.hs = h]
    BY Zenon DEF HS_Init
  <1> HIDE DEF h
  <1>3. QED
    BY <1>1, <1>2 DEF SameCtx, SameLayer, SameManage, Ctx

\* Setting the state of the handshake alone.
LEMMA HsSet ==
  ASSUME NEW c \in Ctx, NEW h \in HsStates, NEW d, d = [c EXCEPT !.hs = h]
  PROVE  SameCtx(c, d)
  BY DEF SameCtx, SameLayer, SameManage, Ctx

\* The extension of post-handshake authentication is noted.
LEMMA OfferFacts ==
  ASSUME NEW c \in Ctx, NEW pha, NEW d, d = OfferPha(c, pha)
  PROVE  SameCtx(c, d) /\ d.isRenegotiation = c.isRenegotiation
  <1> DEFINE p == IF c.phaState = "PHA_NONE" THEN "PHA_EXTENSION" ELSE c.phaState
             l == [c.log EXCEPT !.pha = TRUE]
  <1>1. p \in PhaStates
    BY DEF Ctx, PhaStates
  <1>2. CASE pha /\ config.isTls13 /\ config.supportPha
    <2>1. d = [c EXCEPT !.log.pha = TRUE, !.phaState = p]
      BY <1>2 DEF OfferPha, Ctx, Log
    <2> HIDE DEF p
    <2>2. d = [c EXCEPT !.log = l, !.phaState = p]
      BY <2>1 DEF Ctx, Log
    <2>3. /\ l \in Log /\ l.encoded = c.log.encoded /\ l.wire = c.log.wire
          /\ l.afterClose = c.log.afterClose /\ l.afterFatal = c.log.afterFatal /\ l.copies = c.log.copies
          /\ l.writing = c.log.writing /\ l.disturbed = c.log.disturbed /\ l.fatal = c.log.fatal
      BY DEF Ctx, Log
    <2> HIDE DEF l
    <2>4. QED
      BY <1>1, <2>2, <2>3 DEF SameCtx, SameLayer, SameManage, Ctx
  <1>3. CASE ~(pha /\ config.isTls13 /\ config.supportPha)
    BY <1>3 DEF OfferPha, SameCtx, SameLayer, SameManage
  <1>4. QED
    BY <1>2, <1>3

\* Where a handshake may stand after a message.
HsNexts == {"send", "hello", "recv", "connected"}

\* The last message of an exchange.
LEMMA FinishFacts ==
  ASSUME NEW c \in Ctx, NEW next \in HsNexts, NEW d, d = Finish(c, next)
  PROVE  SameCtx(c, d)
  <1> DEFINE p == IF next = "connected" /\ c.phaState = "PHA_REQUESTED" THEN "PHA_EXTENSION" ELSE c.phaState
  <1>1. p \in PhaStates /\ next \in HsStates
    BY DEF Ctx, PhaStates, HsStates, SendStates, RecvStates, HsNexts
  <1>2. d = [c EXCEPT !.hs = next, !.phaState = p]
    BY DEF Finish, Ctx
  <1> HIDE DEF p
  <1>3. QED
    BY <1>1, <1>2 DEF SameCtx, SameLayer, SameManage, Ctx

\* SameCtx is transitive.
LEMMA SameTrans ==
  ASSUME NEW c, NEW d, NEW e, SameCtx(c, d), SameCtx(d, e)
  PROVE  SameCtx(c, e)
  BY DEF SameCtx, SameLayer, SameManage

\* A handshake message was written.
LEMMA SentFacts ==
  ASSUME NEW c \in Ctx, c.hs \in SendStates, NEW next \in HsNexts, NEW pha, NEW d, d = SentMsg(c, next, pha)
  PROVE  SameCtx(c, d)
  <1>1. "connected" \in HsStates /\ "PHA_REQUESTED" \in PhaStates
    BY DEF HsStates, PhaStates
  <1>2. CASE c.hs = "sendHelloRequest"
    <2>1. d = [c EXCEPT !.hs = "connected", !.isRenegotiation = FALSE]
      BY <1>2, Zenon DEF SentMsg
    <2>2. QED
      BY <1>1, <2>1 DEF SameCtx, SameLayer, SameManage, Ctx
  <1>3. CASE c.hs = "sendKeyUpdate"
    <2>1. d = [c EXCEPT !.hs = "connected"]
      BY <1>3, Zenon DEF SentMsg
    <2>2. QED
      BY <1>1, <2>1 DEF SameCtx, SameLayer, SameManage, Ctx
  <1>4. CASE c.hs = "sendCertRequest"
    <2>1. d = [c EXCEPT !.hs = "connected", !.phaState = "PHA_REQUESTED"]
      BY <1>4, Zenon DEF SentMsg
    <2>2. QED
      BY <1>1, <2>1 DEF SameCtx, SameLayer, SameManage, Ctx
  <1>5. CASE c.hs = "send"
    <2> DEFINE o == IF next = "hello" THEN OfferPha(c, pha) ELSE c
    <2>1. d = Finish(o, next)
      BY <1>5, Zenon DEF SentMsg
    <2>2. SameCtx(c, o)
      <3>1. SameCtx(c, OfferPha(c, pha))
        BY OfferFacts
      <3>2. SameCtx(c, c)
        BY DEF SameCtx, SameLayer, SameManage
      <3>3. QED
        BY <3>1, <3>2
    <2> HIDE DEF o
    <2>3. SameCtx(o, d)
      BY <2>1, <2>2, FinishFacts DEF SameCtx
    <2>4. QED
      BY <2>2, <2>3, SameTrans
  <1>6. QED
    BY <1>2, <1>3, <1>4, <1>5 DEF SendStates

\* A handshake message was received and accepted.
LEMMA ReceivedFacts ==
  ASSUME NEW c \in Ctx, c.hs \in RecvStates, NEW next \in HsNexts, NEW pha, NEW d, d = ReceivedMsg(c, next, pha)
  PROVE  SameCtx(c, d)
  <1>1. {"connected", "send", "recv", "sendKeyUpdate"} \subseteq HsStates
    BY DEF HsStates, SendStates, RecvStates
  <1>2. CASE c.hs = "recvHelloRequest"
    <2>1. d = [c EXCEPT !.hs = "send", !.isRenegotiation = TRUE]
      BY <1>2, Zenon DEF ReceivedMsg
    <2>2. QED
      BY <1>1, <2>1 DEF SameCtx, SameLayer, SameManage, Ctx
  <1>3. CASE c.hs = "recvKeyUpdate"
    <2> DEFINE h == IF next = "send" THEN "sendKeyUpdate" ELSE "connected"
    <2>1. d = [c EXCEPT !.hs = h]
      BY <1>3, Zenon DEF ReceivedMsg
    <2>2. h \in HsStates
      BY <1>1
    <2> HIDE DEF h
    <2>3. QED
      BY <2>1, <2>2, HsSet
  <1>4. CASE c.hs = "hello"
    <2> DEFINE o == IF config.isClient THEN c ELSE OfferPha(c, pha)
               h == IF next = "recv" THEN "recv" ELSE "send"
               b == o.isRenegotiation \/ (~config.isClient /\ c.state = "RENEGOTIATION")
    <2>1. d = [o EXCEPT !.hs = h, !.isRenegotiation = b]
      BY <1>4, Zenon DEF ReceivedMsg
    <2>2. SameCtx(c, o)
      <3>1. SameCtx(c, OfferPha(c, pha))
        BY OfferFacts
      <3>2. SameCtx(c, c)
        BY DEF SameCtx, SameLayer, SameManage
      <3>3. QED
        BY <3>1, <3>2
    <2>3. h \in HsStates /\ b \in BOOLEAN
      BY <1>1
    <2> HIDE DEF o, h, b
    <2>4. SameCtx(o, d)
      BY <2>1, <2>2, <2>3 DEF SameCtx, SameLayer, SameManage, Ctx
    <2>5. QED
      BY <2>2, <2>4, SameTrans
  <1>5. CASE c.hs = "recv"
    <2>1. d = Finish(c, next)
      BY <1>5, Zenon DEF ReceivedMsg
    <2>2. QED
      BY <2>1, FinishFacts
  <1>6. QED
    BY <1>2, <1>3, <1>4, <1>5 DEF RecvStates

\* REC_Write leaves the state of the handshake alone.
LEMMA WriteHs ==
  ASSUME NEW c \in Ctx, NEW kind, NEW io \in Outcomes, NEW w, w = REC_Write(c, kind, io)
  PROVE  w.ctx.hs = c.hs
  <1> DEFINE t == Taken(c, c.outBuf)
             b == Built(c, kind)
             x == Taken(b, kind)
  <1>1. t \in Ctx /\ t.hs = c.hs
    <2>1. t \in Ctx
      BY TakenFacts
    <2>2. t.hs = c.hs
      BY DEF Taken, Ctx
    <2>3. QED
      BY <2>1, <2>2
  <1>2. b \in Ctx /\ b.hs = c.hs
    <2>1. b \in Ctx
      BY BuiltFacts
    <2>2. b.hs = c.hs
      BY DEF Built, Ctx
    <2>3. QED
      BY <2>1, <2>2
  <1> HIDE DEF b
  <1>3. x.hs = c.hs
    BY <1>2 DEF Taken, Ctx
  <1>4. CASE c.outBuf # "none" /\ io = "ok"
    <2> DEFINE m == t.log.lost \/ kind # c.outBuf
               f == t.log.disturbed \/ (kind # c.outBuf /\ "app" \in {kind, c.outBuf})
               d == [t EXCEPT !.log.lost = m, !.log.disturbed = f]
    <2>1. w = Result(d, "SUCCESS")
      BY <1>4, Zenon DEF REC_Write
    <2> HIDE DEF t, m, f
    <2>2. d.hs = c.hs
      BY <1>1 DEF Ctx
    <2> HIDE DEF d
    <2>3. QED
      BY <2>1, <2>2 DEF Result
  <1>5. CASE c.outBuf # "none" /\ io # "ok"
    BY <1>5 DEF REC_Write, Result
  <1>6. CASE c.outBuf = "none" /\ io = "ok"
    <2>1. w = Result(x, "SUCCESS")
      BY <1>6, Zenon DEF REC_Write, b
    <2> HIDE DEF x
    <2>2. QED
      BY <1>3, <2>1 DEF Result
  <1>7. CASE c.outBuf = "none" /\ io = "busy"
    <2> DEFINE d == [b EXCEPT !.outBuf = kind]
    <2>1. w = Result(d, "IO_BUSY")
      BY <1>7, Zenon DEF REC_Write, b
    <2>2. d.hs = c.hs
      BY <1>2 DEF Ctx
    <2> HIDE DEF d
    <2>3. QED
      BY <2>1, <2>2 DEF Result
  <1>8. CASE c.outBuf = "none" /\ io = "fail"
    <2>1. w = Result(c, "ERROR")
      BY <1>8, Zenon DEF REC_Write
    <2>2. QED
      BY <2>1 DEF Result
  <1>9. QED
    BY <1>4, <1>5, <1>6, <1>7, <1>8 DEF Outcomes

-------------------------------------------------------------------------------
(* The actions of a handshake. *)

\* A loop goes on with an open connection.
LEMMA QuietKeeps ==
  ASSUME IInv, config' = config, call.at \in LoopNames, UNCHANGED call,
         NEW d, Quiet(d), d.log.writing = ctx.log.writing, ctx' = d
  PROVE  IInv'
  <1>1. CtxInv(ctx)'
    BY QuietInv, CtxPrime
  <1>2. ctx'.state \in Live
    BY DEF Quiet
  <1>3. call.at # "user" /\ call.at # "Dispatch" /\ CallInv
    BY DEF LoopNames, IInv
  <1>4. CallInv'
    BY <1>2, <1>3, SameCallInv
  <1>5. QED
    BY <1>1, <1>4 DEF IInv

\* A call returns, and its connection is as it should be.
LEMMA ReturnKeeps ==
  ASSUME IInv, config' = config, NEW d, CtxInv(d), ctx' = d, NEW r \in Rets, Return(r),
         call.api = "Write" /\ r = "SUCCESS" => ~d.log.writing /\ (d.log.disturbed \/ d.log.copies = 1)
  PROVE  IInv'
  <1>1. CtxInv(ctx)'
    BY CtxPrime
  <1>2. CallInv'
    BY ReturnInv DEF IInv
  <1>3. QED
    BY <1>1, <1>2 DEF IInv

\* A handshake runs in a loop.
LEMMA HandshakeLoop ==
  ASSUME IInv, InHandshake
  PROVE  call.at \in LoopNames /\ Quiet(ctx) /\ ctx \in Ctx
  <1>1. call.at \in LoopNames
    BY DEF InHandshake, LoopNames
  <1>2. QED
    BY <1>1, LoopQuiet DEF Quiet, Base

\* An alert during a handshake keeps the invariant.
LEMMA AlertInHandshakeKeeps ==
  ASSUME IInv, config' = config, InHandshake, NEW c, Raised(c), c.log.writing = ctx.log.writing,
         NEW io \in IO, AlertInHandshake(c, io)
  PROVE  IInv'
  <1> DEFINE d == IF call.at = "Renegotiation" THEN InnerRenegotiationProcess(c) ELSE c
  <1>1. AlertInLoop(d, "ERROR", io)
    BY DEF AlertInHandshake
  <1>2. Raised(d) /\ d.log.writing = ctx.log.writing
    BY InnerRaises
  <1> HIDE DEF d
  <1>3. "ERROR" \in Rets \ {"SUCCESS"} /\ call.at \in LoopNames
    BY HandshakeLoop DEF Rets
  <1>4. QED
    BY <1>1, <1>2, <1>3, LoopKeeps

\* Sending a handshake message.
LEMMA HsSendKeeps ==
  ASSUME IInv, config' = config, NEW next \in HsNexts, NEW pha, NEW io \in BuildOutcomes, HsSend(next, pha, io)
  PROVE  IInv'
  <1> DEFINE w == REC_Write(ctx, "hs", io)
             d == SentMsg(w.ctx, next, pha)
  <1>1. /\ InHandshake /\ ctx.hs \in SendStates
        /\ IF w.ret = "SUCCESS" THEN ctx' = d /\ UNCHANGED call
           ELSE ctx' = w.ctx /\ Return(w.ret)
    BY DEF HsSend
  <1>2. call.at \in LoopNames /\ Quiet(ctx) /\ ctx \in Ctx /\ io \in Outcomes
    BY <1>1, HandshakeLoop DEF BuildOutcomes, Outcomes
  <1>3. RecordInv(ctx) /\ MayBuild(ctx, "hs")
    BY <1>2 DEF Quiet, Base, MayBuild, Clean
  <1>4. WriteOK(ctx, "hs", io, w)
    BY <1>2, <1>3, WriteFacts
  <1>5. w.ctx.hs = ctx.hs
    BY <1>2, WriteHs
  <1> HIDE DEF w
  <1>6. Quiet(w.ctx) /\ w.ctx \in Ctx /\ w.ctx.log.writing = ctx.log.writing /\ w.ret \in Rets
    <2>1. /\ w.ctx \in Ctx /\ SameManage(ctx, w.ctx) /\ w.ctx.log.writing = ctx.log.writing
          /\ w.ctx.log.encoded \subseteq ctx.log.encoded \cup {"hs"}
          /\ RecordInv(w.ctx) /\ w.ret \in Rets
      BY <1>4 DEF WriteOK, Rets
    <2>2. QED
      BY <1>2, <2>1 DEF Quiet, Base, AlertInv, Clean, SameManage
  <1>7. CASE w.ret = "SUCCESS"
    <2>1. SameCtx(w.ctx, d)
      BY <1>1, <1>5, <1>6, SentFacts
    <2> HIDE DEF d
    <2>2. Quiet(d) /\ d.log.writing = ctx.log.writing
      BY <1>6, <2>1, SameQuiet DEF SameCtx
    <2>3. QED
      BY <1>1, <1>2, <1>7, <2>2, QuietKeeps
  <1>8. CASE w.ret # "SUCCESS"
    <2>1. CtxInv(w.ctx)
      BY <1>6, QuietInv
    <2>2. QED
      BY <1>1, <1>6, <1>8, <2>1, ReturnKeeps
  <1>9. QED
    BY <1>7, <1>8

\* Receiving a handshake message.
LEMMA HsRecvKeeps ==
  ASSUME IInv, config' = config, NEW next \in HsNexts, NEW pha, NEW io \in IO, HsRecv(next, pha, io)
  PROVE  IInv'
  <1> DEFINE c == ALERT_ClearWarnCount(ctx)
             a == ALERT_Send(c, "no_reneg")
             e == [a EXCEPT !.hs = "connected"]
             d == ReceivedMsg(c, next, pha)
             b == ~config.isClient /\ ~config.isTls13 /\ c.hs = "hello" /\ IsUnexpectedHandshaking(c)
  <1>1. /\ InHandshake /\ ctx.hs \in RecvStates
        /\ IF b THEN AlertInHandshake(e, io) ELSE ctx' = d /\ UNCHANGED call
    BY DEF HsRecv
  <1> HIDE DEF b
  <1>2. call.at \in LoopNames /\ Quiet(ctx) /\ ctx \in Ctx
    BY <1>1, HandshakeLoop
  <1>3. Quiet(c) /\ c.log.writing = ctx.log.writing
    BY <1>2, ClearQuiet
  <1>4. c \in Ctx /\ c.hs = ctx.hs
    <2>1. c.hs = ctx.hs
      BY <1>2 DEF ALERT_ClearWarnCount, Ctx
    <2>2. QED
      BY <1>3, <2>1 DEF Quiet, Base
  <1> HIDE DEF c
  <1>5. CASE b
    <2>1. Raised(a) /\ a.log.writing = c.log.writing
      BY <1>3, SendRaises
    <2> HIDE DEF a
    <2>2. a \in Ctx /\ "connected" \in HsStates
      BY <2>1 DEF Raised, Base, HsStates
    <2>3. SameCtx(a, e)
      BY <2>2, HsSet
    <2> HIDE DEF e
    <2>4. Raised(e) /\ e.log.writing = ctx.log.writing
      BY <1>3, <2>1, <2>3, SameQuiet DEF SameCtx
    <2>5. QED
      BY <1>1, <1>5, <2>4, AlertInHandshakeKeeps
  <1>6. CASE ~b
    <2>1. SameCtx(c, d)
      BY <1>1, <1>4, ReceivedFacts
    <2> HIDE DEF d
    <2>2. Quiet(d) /\ d.log.writing = ctx.log.writing
      BY <1>3, <2>1, SameQuiet DEF SameCtx
    <2>3. QED
      BY <1>1, <1>2, <1>6, <2>2, QuietKeeps
  <1>7. QED
    BY <1>5, <1>6

\* Rejecting a handshake message.
LEMMA HsRejectsKeeps ==
  ASSUME IInv, config' = config, NEW io \in IO, HsRejects(io)
  PROVE  IInv'
  <1> DEFINE c == ALERT_ClearWarnCount(ctx)
             d == ALERT_Send(c, "fatal")
  <1>1. InHandshake /\ AlertInHandshake(d, io)
    BY DEF HsRejects
  <1>2. Quiet(ctx)
    BY <1>1, HandshakeLoop
  <1>3. Quiet(c) /\ c.log.writing = ctx.log.writing
    BY <1>2, ClearQuiet
  <1> HIDE DEF c
  <1>4. Raised(d) /\ d.log.writing = c.log.writing
    BY <1>3, SendRaises
  <1> HIDE DEF d
  <1>5. QED
    BY <1>1, <1>3, <1>4, AlertInHandshakeKeeps

\* An alert of the peer during a handshake.
LEMMA HsAlertKeeps ==
  ASSUME IInv, config' = config, NEW kind \in AlertKinds, NEW io \in IO, HsAlert(kind, io)
  PROVE  IInv'
  <1> DEFINE d == ProcessDecryptedAlert(ctx, kind)
  <1>1. InHandshake /\ AlertInHandshake(d, io)
    BY DEF HsAlert
  <1>2. Quiet(ctx)
    BY <1>1, HandshakeLoop
  <1>3. Raised(d) /\ d.log.writing = ctx.log.writing
    BY <1>2, RecvRaises
  <1> HIDE DEF d
  <1>4. QED
    BY <1>1, <1>3, AlertInHandshakeKeeps

\* Data that is delivered before a fatal alert leaves no trace.
LEMMA DeliveredFacts ==
  ASSUME NEW c \in Ctx, ~c.log.fatal, NEW d, d = Delivered(c)
  PROVE  SameCtx(c, d)
  <1>1. d = [c EXCEPT !.log.afterFatal = c.log.afterFatal]
    BY DEF Delivered, Ctx, Log
  <1>2. d = c
    BY <1>1 DEF Ctx, Log
  <1>3. QED
    BY <1>2 DEF SameCtx, SameLayer, SameManage

\* A call goes on in a loop, with an open connection.
LEMMA ContinueKeeps ==
  ASSUME IInv, config' = config, call.at # "user", call.api # "Close", NEW loop \in LoopNames, Continue(loop),
         NEW d, Quiet(d), d.log.writing = ctx.log.writing, ctx' = d,
         loop = "Reading" => call.api = "Read", loop = "Writing" => call.api = "Write"
  PROVE  IInv'
  <1>1. CtxInv(ctx)'
    BY QuietInv, CtxPrime
  <1>2. ctx'.state \in Live /\ CallInv
    BY DEF Quiet, IInv
  <1>3. CallInv'
    BY <1>2, ContinueInv
  <1>4. QED
    BY <1>1, <1>3 DEF IInv

\* Nothing to read in a handshake.
LEMMA HsWaitsKeeps ==
  ASSUME IInv, config' = config, HsWaits
  PROVE  IInv'
  <1>1. InHandshake /\ ctx' = ctx
    BY DEF HsWaits
  <1>2. call.at \in LoopNames /\ Quiet(ctx) /\ call.at # "user" /\ call.api # "Close"
    BY <1>1, HandshakeLoop DEF LoopNames, IInv, CallInv
  <1>3. CASE call.api = "Write" /\ Continue("Writing")
    <2>1. "Writing" \in LoopNames
      BY DEF LoopNames
    <2>2. QED
      BY <1>1, <1>2, <1>3, <2>1, ContinueKeeps
  <1>4. CASE Return("BUF_EMPTY")
    <2>1. CtxInv(ctx) /\ "BUF_EMPTY" \in Rets
      BY DEF IInv, Rets
    <2>2. QED
      BY <1>1, <1>4, <2>1, ReturnKeeps
  <1>5. QED
    BY <1>3, <1>4 DEF HsWaits

\* Application data during a handshake.
LEMMA HsAppKeeps ==
  ASSUME IInv, config' = config, NEW io \in IO, HsApp(io)
  PROVE  IInv'
  <1> DEFINE c == ALERT_ClearWarnCount(ctx)
             d == Delivered(c)
             a == ALERT_Send(c, "fatal")
  <1>1. /\ InHandshake
        /\ \/ call.api = "Read" /\ ctx' = d /\ Return("SUCCESS")
           \/ AlertInHandshake(a, io)
    BY DEF HsApp
  <1>2. Quiet(ctx)
    BY <1>1, HandshakeLoop
  <1>3. Quiet(c) /\ c.log.writing = ctx.log.writing
    BY <1>2, ClearQuiet
  <1> HIDE DEF c
  <1>4. c \in Ctx /\ ~c.log.fatal
    BY <1>3 DEF Quiet, Base, Clean
  <1>5. CASE call.api = "Read" /\ ctx' = d /\ Return("SUCCESS")
    <2>1. SameCtx(c, d)
      BY <1>4, DeliveredFacts
    <2> HIDE DEF d
    <2>2. CtxInv(d) /\ "SUCCESS" \in Rets
      BY <1>3, <2>1, SameQuiet, QuietInv DEF SameCtx, Rets
    <2>3. QED
      BY <1>5, <2>2, ReturnKeeps
  <1>6. CASE AlertInHandshake(a, io)
    <2>1. Raised(a) /\ a.log.writing = c.log.writing
      BY <1>3, SendRaises
    <2> HIDE DEF a
    <2>2. QED
      BY <1>1, <1>3, <1>6, <2>1, AlertInHandshakeKeeps
  <1>7. QED
    BY <1>1, <1>5, <1>6

\* ChangeConnState between the states of an open connection, or from IDLE.
LEMMA ChangeQuiet ==
  ASSUME NEW c, Quiet(c) \/ (CtxInv(c) /\ c.state = "IDLE"), NEW s \in Live, NEW d, d = ChangeConnState(c, s)
  PROVE  Quiet(d) /\ d.log.writing = c.log.writing /\ d.state = s
  <1>0. Base(c) /\ Clean(c) /\ c.alert.flag = "NO"
    BY DEF Quiet, CtxInv, StateInv
  <1>1. c \in Ctx /\ s \in States
    BY <1>0 DEF Base, Live, States
  <1>2. /\ d \in Ctx /\ SameLayer(c, d) /\ d.alert = c.alert /\ d.warnCount = c.warnCount /\ d.state = s
        /\ d.log.fatal = c.log.fatal
    BY <1>1, ChangeFacts
  <1>3. QED
    BY <1>0, <1>2 DEF Quiet, Base, RecordInv, AlertInv, Clean, SameLayer

\* The end of a handshake.
LEMMA HsDoneKeeps ==
  ASSUME IInv, config' = config, HsDone
  PROVE  IInv'
  <1> DEFINE b == ChangeConnState(ctx, "TRANSPORTING")
             c == [b EXCEPT !.hs = "none"]
             d == [c EXCEPT !.userRenego = FALSE, !.isRenegotiation = FALSE]
  <1>1. InHandshake /\ (ctx' = c \/ ctx' = d)
    BY Zenon DEF HsDone, HS_DeInit
  <1>2. call.at \in LoopNames /\ Quiet(ctx) /\ call.at # "user" /\ call.api # "Close" /\ call.api \in APIs
    BY <1>1, HandshakeLoop DEF LoopNames, IInv, CallInv
  <1>3. Quiet(b) /\ b.log.writing = ctx.log.writing
    <2>1. "TRANSPORTING" \in Live
      BY DEF Live
    <2>2. QED
      BY <1>2, <2>1, ChangeQuiet
  <1> HIDE DEF b
  <1>4. b \in Ctx /\ "none" \in HsStates
    BY <1>3 DEF Quiet, Base, HsStates
  <1>5. SameCtx(b, c)
    BY <1>4, HsSet
  <1>6. SameCtx(c, d)
    <2> HIDE DEF c
    <2>1. QED
      BY <1>5 DEF SameCtx, SameLayer, SameManage, Ctx
  <1> HIDE DEF c, d
  <1>7. Quiet(c) /\ Quiet(d) /\ c.log.writing = ctx.log.writing /\ d.log.writing = ctx.log.writing
    BY <1>3, <1>5, <1>6, SameQuiet DEF SameCtx
  <1>8. PICK e : ctx' = e /\ Quiet(e) /\ e.log.writing = ctx.log.writing
    BY <1>1, <1>7
  <1>9. CASE call.api \in {"Connect", "Accept"}
    <2>1. Return("SUCCESS") /\ "SUCCESS" \in Rets
      BY <1>9 DEF HsDone, Rets
    <2>2. CtxInv(e)
      BY <1>8, QuietInv
    <2>3. call.api # "Write"
      BY <1>9
    <2>4. QED
      BY <1>8, <2>1, <2>2, <2>3, ReturnKeeps
  <1>10. CASE call.api = "Read"
    <2>1. Continue("Reading") /\ "Reading" \in LoopNames
      BY <1>10 DEF HsDone, LoopNames
    <2>2. QED
      BY <1>2, <1>8, <1>10, <2>1, ContinueKeeps
  <1>11. CASE call.api = "Write"
    <2>1. Continue("Writing") /\ "Writing" \in LoopNames
      BY <1>11 DEF HsDone, LoopNames
    <2>2. QED
      BY <1>2, <1>8, <1>11, <2>1, ContinueKeeps
  <1>12. QED
    BY <1>2, <1>9, <1>10, <1>11 DEF APIs

-------------------------------------------------------------------------------
(* Reading. *)

\* What PreprocessUnexpectHsMsg returns.
PreprocessOK(c, p) ==
  /\ p.ret \in Rets /\ p.ctx.log.writing = c.log.writing
  /\ IF p.ret = "SUCCESS" THEN Quiet(p.ctx) /\ p.ctx.state \in {"HANDSHAKING", "RENEGOTIATION"} ELSE Raised(p.ctx)

\* A message begins an exchange.
LEMMA ExchangeFacts ==
  ASSUME NEW c, Quiet(c), NEW s \in {"HANDSHAKING", "RENEGOTIATION"}, NEW h \in HsStates, NEW p, p = Exchange(c, s, h)
  PROVE  PreprocessOK(c, p)
  <1> DEFINE b == ChangeConnState(c, s)
             d == [b EXCEPT !.hs = h]
  <1>1. p = Result(d, "SUCCESS")
    BY Zenon DEF Exchange
  <1>2. Quiet(b) /\ b.log.writing = c.log.writing /\ b.state = s
    <2>1. s \in Live
      BY DEF Live
    <2>2. QED
      BY <2>1, ChangeQuiet
  <1> HIDE DEF b
  <1>3. SameCtx(b, d)
    BY <1>2, HsSet DEF Quiet, Base
  <1> HIDE DEF d
  <1>4. Quiet(d) /\ d.log.writing = c.log.writing /\ d.state = s
    BY <1>2, <1>3, SameQuiet DEF SameCtx, SameManage
  <1>5. p.ctx = d /\ p.ret = "SUCCESS"
    BY <1>1 DEF Result
  <1>6. QED
    BY <1>4, <1>5 DEF PreprocessOK, Rets

\* A message is refused by an alert.
LEMMA RefusedFacts ==
  ASSUME NEW c, Quiet(c), NEW kind \in {"fatal", "no_reneg"}, NEW ret \in Rets \ {"SUCCESS"},
         NEW p, p = Result(ALERT_Send(c, kind), ret)
  PROVE  PreprocessOK(c, p)
  <1> DEFINE a == ALERT_Send(c, kind)
  <1>1. Raised(a) /\ a.log.writing = c.log.writing
    BY SendRaises
  <1>2. p.ctx = a /\ p.ret = ret
    BY DEF Result
  <1> HIDE DEF a
  <1>3. QED
    BY <1>1, <1>2 DEF PreprocessOK

\* A handshake message while transporting begins an exchange or is refused.
LEMMA PreprocessFacts ==
  ASSUME NEW c, Quiet(c), NEW msg \in HsMsgs, NEW p, p = PreprocessUnexpectHsMsg(c, msg)
  PROVE  PreprocessOK(c, p)
  <1>1. "ERROR" \in Rets \ {"SUCCESS"} /\ "BUF_EMPTY" \in Rets \ {"SUCCESS"}
    BY DEF Rets
  <1>2. {"hello", "recvHelloRequest", "recvKeyUpdate", "recv"} \subseteq HsStates
    BY DEF HsStates, RecvStates
  <1>3. PreprocessOK(c, Unexpected(c)) /\ PreprocessOK(c, Result(ALERT_Send(c, "no_reneg"), "BUF_EMPTY"))
    BY <1>1, RefusedFacts DEF Unexpected
  <1>4. \A s \in {"HANDSHAKING", "RENEGOTIATION"}, h \in {"hello", "recvHelloRequest", "recvKeyUpdate", "recv"} :
          PreprocessOK(c, Exchange(c, s, h))
    BY <1>2, ExchangeFacts
  <1> DEFINE d == [c EXCEPT !.phaState = "PHA_REQUESTED"]
  <1>5. PreprocessOK(c, Exchange(d, "HANDSHAKING", "recv"))
    <2>1. SameCtx(c, d)
      BY DEF SameCtx, SameLayer, SameManage, Ctx, Quiet, Base, PhaStates
    <2> HIDE DEF d
    <2>2. Quiet(d) /\ d.log.writing = c.log.writing
      BY <2>1, SameQuiet DEF SameCtx
    <2>3. PreprocessOK(d, Exchange(d, "HANDSHAKING", "recv"))
      BY <1>2, <2>2, ExchangeFacts
    <2>4. QED
      BY <2>2, <2>3 DEF PreprocessOK
  <1>6. \/ p = Unexpected(c) \/ p = Result(ALERT_Send(c, "no_reneg"), "BUF_EMPTY")
        \/ \E s \in {"HANDSHAKING", "RENEGOTIATION"}, h \in {"hello", "recvHelloRequest", "recvKeyUpdate", "recv"} :
             p = Exchange(c, s, h)
        \/ p = Exchange(d, "HANDSHAKING", "recv")
    <2> HIDE DEF d
    <2>1. CASE msg \in {"hello_request", "client_hello"}
      <3> DEFINE h == IF msg = "client_hello" THEN "hello" ELSE "recvHelloRequest"
      <3>1. \/ p = Unexpected(c) \/ p = Exchange(c, "RENEGOTIATION", h) \/ p = Exchange(c, "HANDSHAKING", "hello")
            \/ p = Result(ALERT_Send(c, "no_reneg"), "BUF_EMPTY")
        BY <2>1, Zenon DEF PreprocessUnexpectHsMsg
      <3>2. h \in {"hello", "recvHelloRequest", "recvKeyUpdate", "recv"}
        OBVIOUS
      <3> HIDE DEF h
      <3>3. QED
        BY <3>1, <3>2
    <2>2. CASE msg = "key_update"
      <3>1. p = Unexpected(c) \/ p = Exchange(c, "HANDSHAKING", "recvKeyUpdate")
        BY <2>2, Zenon DEF PreprocessUnexpectHsMsg
      <3>2. QED
        BY <3>1
    <2>3. CASE msg = "certificate_request"
      BY <2>3, Zenon DEF PreprocessUnexpectHsMsg, d
    <2>4. CASE msg \in {"certificate", "new_session_ticket"}
      <3>1. p = Unexpected(c) \/ p = Exchange(c, "HANDSHAKING", "recv")
        BY <2>4, Zenon DEF PreprocessUnexpectHsMsg
      <3>2. QED
        BY <3>1
    <2>5. CASE msg = "other"
      BY <2>5, Zenon DEF PreprocessUnexpectHsMsg
    <2>6. QED
      BY <2>1, <2>2, <2>3, <2>4, <2>5 DEF HsMsgs
  <1> HIDE DEF d
  <1>7. QED
    BY <1>3, <1>4, <1>5, <1>6

\* An alert while reading keeps the invariant.
LEMMA AlertInReadKeeps ==
  ASSUME IInv, config' = config, call.at \in LoopNames, NEW c, Raised(c), c.log.writing = ctx.log.writing,
         NEW ret \in Rets \ {"SUCCESS"}, NEW io \in IO, AlertInRead(c, ret, io)
  PROVE  IInv'
  <1> DEFINE d == IF c.userRenego THEN InnerRenegotiationProcess(c) ELSE c
  <1>1. AlertInLoop(d, ret, io)
    BY DEF AlertInRead
  <1>2. Raised(d) /\ d.log.writing = ctx.log.writing
    BY InnerRaises
  <1> HIDE DEF d
  <1>3. QED
    BY <1>1, <1>2, LoopKeeps

\* Application data is read.
LEMMA ReadAppKeeps ==
  ASSUME IInv, config' = config, ReadApp
  PROVE  IInv'
  <1> DEFINE c == ALERT_ClearWarnCount(ctx)
             d == Delivered(c)
  <1>1. call.at = "Reading" /\ ctx' = d /\ Return("SUCCESS")
    BY DEF ReadApp
  <1>2. Quiet(ctx) /\ call.api = "Read"
    BY <1>1, LoopQuiet DEF LoopNames, IInv, CallInv
  <1>3. Quiet(c)
    BY <1>2, ClearQuiet
  <1> HIDE DEF c
  <1>4. SameCtx(c, d)
    BY <1>3, DeliveredFacts DEF Quiet, Base, Clean
  <1> HIDE DEF d
  <1>5. CtxInv(d) /\ "SUCCESS" \in Rets
    BY <1>3, <1>4, SameQuiet, QuietInv DEF SameCtx, Rets
  <1>6. QED
    BY <1>1, <1>2, <1>5, ReturnKeeps

\* Nothing to read.
LEMMA ReadNothingKeeps ==
  ASSUME IInv, config' = config, ReadNothing
  PROVE  IInv'
  <1>1. CtxInv(ctx) /\ "BUF_EMPTY" \in Rets /\ ctx' = ctx /\ Return("BUF_EMPTY")
    BY DEF IInv, Rets, ReadNothing
  <1>2. QED
    BY <1>1, ReturnKeeps

\* An alert of the peer, or a record that cannot be read.
LEMMA ReadAlertKeeps ==
  ASSUME IInv, config' = config, NEW io \in IO, NEW kind \in AlertKinds, ReadAlert(kind, io) \/ ReadError(io)
  PROVE  IInv'
  <1> DEFINE p == ProcessDecryptedAlert(ctx, kind)
             a == ALERT_Send(ctx, "fatal")
  <1>1. call.at = "Reading" /\ (AlertInRead(p, "ERROR", io) \/ AlertInRead(a, "ERROR", io))
    BY DEF ReadAlert, ReadError
  <1>2. Quiet(ctx) /\ call.at \in LoopNames /\ "ERROR" \in Rets \ {"SUCCESS"}
    BY <1>1, LoopQuiet DEF LoopNames, Rets
  <1>3. Raised(p) /\ p.log.writing = ctx.log.writing
    BY <1>2, RecvRaises
  <1>4. Raised(a) /\ a.log.writing = ctx.log.writing
    BY <1>2, SendRaises
  <1> HIDE DEF p, a
  <1>5. QED
    BY <1>1, <1>2, <1>3, <1>4, AlertInReadKeeps

\* A handshake message while transporting.
LEMMA ReadHsMsgKeeps ==
  ASSUME IInv, config' = config, NEW io \in IO, NEW msg \in HsMsgs, ReadHsMsg(msg, io)
  PROVE  IInv'
  <1> DEFINE c == ALERT_ClearWarnCount(ctx)
             p == PreprocessUnexpectHsMsg(c, msg)
             v == p.ctx
             d == [v EXCEPT !.hs = "none"]
             loop == LoopFor(v.state)
  <1>1. /\ call.at = "Reading"
        /\ IF p.ret = "SUCCESS" THEN ctx' = v /\ Continue(loop) ELSE AlertInRead(d, p.ret, io)
    BY DEF ReadHsMsg, HS_DeInit
  <1>2. Quiet(ctx) /\ call.at \in LoopNames /\ call.api = "Read" /\ call.at # "user" /\ call.api # "Close"
    BY <1>1, LoopQuiet DEF LoopNames, IInv, CallInv
  <1>3. Quiet(c) /\ c.log.writing = ctx.log.writing
    BY <1>2, ClearQuiet
  <1> HIDE DEF c
  <1>4. PreprocessOK(c, p)
    BY <1>3, PreprocessFacts
  <1>5. /\ p.ret \in Rets /\ v.log.writing = c.log.writing
        /\ IF p.ret = "SUCCESS" THEN Quiet(v) /\ v.state \in {"HANDSHAKING", "RENEGOTIATION"} ELSE Raised(v)
    BY <1>4 DEF PreprocessOK
  <1> HIDE DEF p
  <1>6. CASE p.ret = "SUCCESS"
    <2> HIDE DEF v
    <2>1. loop \in {"Handshaking", "Renegotiation"}
      BY <1>5, <1>6 DEF LoopFor
    <2>2. loop \in LoopNames /\ loop # "Reading" /\ loop # "Writing"
      BY <2>1 DEF LoopNames
    <2> HIDE DEF loop
    <2>3. QED
      BY <1>1, <1>2, <1>3, <1>5, <1>6, <2>2, ContinueKeeps
  <1>7. CASE p.ret # "SUCCESS"
    <2> HIDE DEF v
    <2>1. v \in Ctx /\ "none" \in HsStates
      BY <1>5, <1>7 DEF Raised, Base, HsStates
    <2>2. SameCtx(v, d)
      BY <2>1, HsSet
    <2> HIDE DEF d
    <2>3. Raised(d) /\ d.log.writing = ctx.log.writing
      BY <1>3, <1>5, <1>7, <2>2, SameQuiet DEF SameCtx
    <2>4. p.ret \in Rets \ {"SUCCESS"}
      BY <1>5, <1>7
    <2>5. QED
      BY <1>1, <1>2, <1>7, <2>3, <2>4, AlertInReadKeeps
  <1>8. QED
    BY <1>6, <1>7

\* A closed connection without its alert.
LEMMA ClosedClean ==
  ASSUME NEW c, CtxInv(c), c.state = "CLOSED", NEW d, d = ALERT_CleanInfo(c)
  PROVE  CtxInv(d) /\ SameLayer(c, d) /\ d.state = "CLOSED" /\ d.alert.flag = "NO"
         /\ d.shutdownState = c.shutdownState /\ d.log.fatal = c.log.fatal
  <1>1. c \in Ctx /\ Base(c) /\ ClosedInv(c)
    BY DEF CtxInv, Base, StateInv
  <1>2. /\ d \in Ctx /\ SameLayer(c, d) /\ d.alert.flag = "NO" /\ d.state = c.state
        /\ d.shutdownState = c.shutdownState /\ d.log.fatal = c.log.fatal
    BY <1>1, CleanFacts
  <1>3. Base(d)
    BY <1>1, <1>2 DEF Base, RecordInv, AlertInv, SameLayer
  <1>4. StateInv(d)
    BY <1>1, <1>2 DEF StateInv, ClosedInv, SameLayer, Live
  <1>5. QED
    BY <1>2, <1>3, <1>4 DEF CtxInv

\* What APP_Read leaves of a closed connection.
AppReadOK(c, r) ==
  /\ r \in Ctx /\ r.log.writing = c.log.writing /\ r.state = "CLOSED"
  /\ IF r.alert.flag = "NO" THEN CtxInv(r) /\ ~r.log.fatal ELSE Pending(r)

\* An alert that is met in a closed connection is to be handled.
LEMMA ClosedPending ==
  ASSUME NEW c, CtxInv(c), c.state = "CLOSED", ~c.log.fatal, c.alert.flag = "NO",
         NEW kind \in AlertKinds, NEW d, d = ALERT_Send(c, "fatal") \/ d = ProcessDecryptedAlert(c, kind)
  PROVE  Pending(d) /\ d \in Ctx /\ d.log.writing = c.log.writing /\ d.state = "CLOSED"
  <1>1. /\ c \in Ctx /\ Base(c) /\ ClosedInv(c) /\ "fatal" \in AlertKinds
        /\ ~AlertIsAbnormalInput(c.alert, "fatal") /\ ~AlertIsAbnormalInput(c.alert, kind)
    BY DEF CtxInv, Base, StateInv, AlertKinds, AlertIsAbnormalInput
  <1>2. CASE d = ALERT_Send(c, "fatal")
    <2>1. /\ d \in Ctx /\ SameLayer(c, d) /\ d.state = c.state /\ d.shutdownState = c.shutdownState
          /\ d.alert.flag = "SEND" /\ d.alert.kind = "fatal" /\ ~d.alert.isFlush
          /\ d.log.fatal = (c.log.fatal \/ "fatal" = "fatal")
      BY <1>1, <1>2, SendFacts
    <2>2. Base(d)
      BY <1>1, <2>1 DEF Base, RecordInv, AlertInv, SameLayer
    <2>3. QED
      BY <1>1, <2>1, <2>2 DEF Pending, ClosedInv, SameLayer
  <1>3. CASE d = ProcessDecryptedAlert(c, kind)
    <2>1. /\ d \in Ctx /\ SameLayer(c, d) /\ d.state = c.state /\ d.shutdownState = c.shutdownState
          /\ d.alert.flag = "RECV" /\ d.log.fatal = (c.log.fatal \/ d.alert.kind = "fatal")
      BY <1>1, <1>3, DecryptedFacts
    <2>2. Base(d)
      BY <1>1, <2>1 DEF Base, RecordInv, AlertInv, SameLayer
    <2>3. QED
      BY <1>1, <2>1, <2>2 DEF Pending, ClosedInv, SameLayer, Live
  <1>4. QED
    BY <1>2, <1>3

\* APP_Read in a closed connection.
LEMMA AppReadFacts ==
  ASSUME NEW c, CtxInv(c), c.state = "CLOSED", ~c.log.fatal, NEW record \in Records,
         NEW r, r = APP_Read(ALERT_CleanInfo(c), record)
  PROVE  AppReadOK(c, r)
  <1> DEFINE k == ALERT_CleanInfo(c)
  <1>1. /\ CtxInv(k) /\ SameLayer(c, k) /\ k.state = "CLOSED" /\ k.alert.flag = "NO" /\ ~k.log.fatal
    BY ClosedClean
  <1>2. r = APP_Read(k, record)
    OBVIOUS
  <1> HIDE DEF k
  <1>3. k \in Ctx /\ k.log.writing = c.log.writing
    BY <1>1 DEF CtxInv, Base, SameLayer
  <1>4. CASE record \in AlertKinds
    <2>1. r = ProcessDecryptedAlert(k, record)
      BY <1>2, <1>4 DEF APP_Read, AlertKinds
    <2>2. Pending(r) /\ r \in Ctx /\ r.log.writing = k.log.writing /\ r.state = "CLOSED"
      BY <1>1, <1>4, <2>1, ClosedPending
    <2>3. r.alert.flag # "NO"
      BY <2>2 DEF Pending
    <2>4. QED
      BY <1>3, <2>2, <2>3 DEF AppReadOK
  <1>5. CASE record = "bad"
    <2>1. r = ALERT_Send(k, "fatal") /\ "fatal" \in AlertKinds
      BY <1>2, <1>5 DEF APP_Read, AlertKinds
    <2>2. Pending(r) /\ r \in Ctx /\ r.log.writing = k.log.writing /\ r.state = "CLOSED"
      BY <1>1, <2>1, ClosedPending
    <2>3. r.alert.flag # "NO"
      BY <2>2 DEF Pending
    <2>4. QED
      BY <1>3, <2>2, <2>3 DEF AppReadOK
  <1>6. CASE record = "app"
    <2>1. r = ALERT_ClearWarnCount(k)
      BY <1>2, <1>6 DEF APP_Read, AlertKinds
    <2>2. /\ r \in Ctx /\ SameLayer(k, r) /\ r.alert = k.alert /\ r.state = k.state
          /\ r.shutdownState = k.shutdownState /\ r.log.fatal = k.log.fatal
      BY <1>3, <2>1, ClearWarnFacts
    <2>3. Base(r) /\ StateInv(r)
      BY <1>1, <2>2 DEF CtxInv, Base, RecordInv, AlertInv, SameLayer, StateInv, ClosedInv, Live
    <2>4. r.log.writing = c.log.writing
      BY <1>3, <2>2 DEF SameLayer
    <2>5. QED
      BY <1>1, <2>2, <2>3, <2>4 DEF AppReadOK, CtxInv
  <1>7. CASE record = "nothing"
    <2>1. r = k
      BY <1>2, <1>7 DEF APP_Read, AlertKinds
    <2>2. QED
      BY <1>1, <1>3, <2>1 DEF AppReadOK
  <1>8. QED
    BY <1>4, <1>5, <1>6, <1>7 DEF Records

\* Reading in a connection that this end has closed.
LEMMA ReadClosedKeeps ==
  ASSUME IInv, config' = config, NEW record \in Records, NEW io \in IO, ReadEventInClosedState(record, io)
  PROVE  IInv'
  <1> DEFINE c == APP_Read(ALERT_CleanInfo(ctx), record)
             a == AlertEventProcess(c, io)
             d == IF record = "app" THEN Delivered(c) ELSE c
             m == IF record = "app" THEN "SUCCESS" ELSE "BUF_EMPTY"
             n == IF a.ret # "SUCCESS" THEN a.ret
                  ELSE IF "RECEIVED" \in a.ctx.shutdownState THEN "LINK_CLOSED" ELSE "ERROR"
  <1>1. /\ call.api = "Read" /\ ctx.state = "CLOSED" /\ "RECEIVED" \notin ctx.shutdownState
        /\ IF c.alert.flag = "NO" THEN ctx' = d /\ Return(m) ELSE ctx' = a.ctx /\ Return(n)
    BY DEF ReadEventInClosedState, ClosedForReading
  <1>2. CtxInv(ctx) /\ ~ctx.log.fatal
    BY <1>1 DEF IInv, CtxInv, StateInv, ClosedInv, Shutdown
  <1>3. AppReadOK(ctx, c)
    BY <1>1, <1>2, AppReadFacts
  <1> HIDE DEF c
  <1>4. CASE c.alert.flag = "NO"
    <2>1. CtxInv(c) /\ ~c.log.fatal /\ c \in Ctx
      BY <1>3, <1>4 DEF AppReadOK
    <2>2. SameCtx(c, Delivered(c))
      BY <2>1, DeliveredFacts
    <2>3. CtxInv(d)
      BY <2>1, <2>2, SameInv DEF SameCtx
    <2>4. m \in Rets
      BY DEF Rets
    <2> HIDE DEF d, m
    <2>5. QED
      BY <1>1, <1>4, <2>3, <2>4, ReturnKeeps
  <1>5. CASE c.alert.flag # "NO"
    <2>1. EventOK(c, a)
      BY <1>3, <1>5, EventFacts DEF AppReadOK
    <2> HIDE DEF a
    <2>2. CtxInv(a.ctx) /\ n \in Rets
      BY <2>1 DEF EventOK, Rets
    <2> HIDE DEF n
    <2>3. QED
      BY <1>1, <1>5, <2>2, ReturnKeeps
  <1>6. QED
    BY <1>4, <1>5

-------------------------------------------------------------------------------
(* Writing. *)

\* What the record layer did to a connection that satisfies the invariant.
LEMMA LayerInv ==
  ASSUME NEW c, CtxInv(c), NEW d \in Ctx, SameManage(c, d), LayerStep(c, d), RecordInv(d),
         "close" \in d.log.encoded => "close" \in c.log.encoded
  PROVE  CtxInv(d)
  <1>1. AlertInv(d)
    BY DEF CtxInv, Base, AlertInv, SameManage, LayerStep
  <1>2. StateInv(d)
    BY DEF CtxInv, StateInv, Clean, AlertingInv, FatalGone, ClosedInv, SameManage, LayerStep
  <1>3. QED
    BY <1>1, <1>2 DEF CtxInv, Base

\* What APP_Write returns.
AppWriteOK(c, w) ==
  /\ CtxInv(w.ctx) /\ w.ret \in Rets
  /\ w.ret = "SUCCESS" => ~w.ctx.log.writing /\ (w.ctx.log.disturbed \/ w.ctx.log.copies = 1)

\* APP_Write: the data is in one record when the write succeeds.
LEMMA AppWriteFacts ==
  ASSUME NEW c, CtxInv(c), MayBuild(c, "app"), NEW io \in Outcomes, NEW r, r = APP_Write(c, io)
  PROVE  AppWriteOK(c, r)
  <1> DEFINE p == [c EXCEPT !.pendingData = TRUE]
             w == REC_Write(p, "app", io)
             v == w.ctx
             g == [w EXCEPT !.ctx.pendingData = FALSE, !.ctx.log.writing = FALSE]
  <1>1. r = IF w.ret = "SUCCESS" THEN g ELSE w
    BY Zenon DEF APP_Write
  <1>2. c \in Ctx
    BY DEF CtxInv, Base
  <1>3. p \in Ctx /\ SameLayer(c, p) /\ SameManage(c, p)
    BY <1>2 DEF Ctx, SameLayer, SameManage
  <1> HIDE DEF p
  <1>4. CtxInv(p)
    BY <1>2, <1>3, SameInv
  <1>5. RecordInv(p) /\ MayBuild(p, "app")
    BY <1>3, <1>4 DEF CtxInv, Base, MayBuild, SameLayer, SameManage
  <1>6. WriteOK(p, "app", io, w)
    BY <1>3, <1>5, WriteFacts
  <1>7. w = Result(w.ctx, w.ret)
    BY WriteResult
  <1> HIDE DEF w
  <1>8. /\ v \in Ctx /\ SameManage(p, v) /\ LayerStep(p, v) /\ v.log.writing = p.log.writing
        /\ "close" \in v.log.encoded => "close" \in p.log.encoded
        /\ w.ret \in Rets
        /\ w.ret # "SUCCESS" => RecordInv(v)
        /\ w.ret = "SUCCESS" => /\ v.log.afterClose = {} /\ v.log.afterFatal = {} /\ v.outBuf = "none"
                                /\ v.log.disturbed \/ v.log.copies = 1
    BY <1>6 DEF WriteOK, Rets
  <1>9. CASE w.ret # "SUCCESS"
    <2>1. CtxInv(v)
      <3> HIDE DEF v
      <3>1. QED
        BY <1>4, <1>8, <1>9, LayerInv
    <2>2. QED
      BY <1>1, <1>8, <1>9, <2>1 DEF AppWriteOK
  <1>10. CASE w.ret = "SUCCESS"
    <2> DEFINE l == [v.log EXCEPT !.writing = FALSE]
               d == [v EXCEPT !.pendingData = FALSE, !.log = l]
    <2>1. g.ctx = [v EXCEPT !.pendingData = FALSE, !.log.writing = FALSE] /\ g.ret = w.ret
      BY <1>7, <1>8 DEF Result, Ctx
    <2> HIDE DEF g, v
    <2>2. g.ctx = d
      BY <1>8, <2>1 DEF Ctx, Log
    <2>3. /\ l \in Log /\ l.encoded = v.log.encoded /\ l.wire = v.log.wire /\ l.fatal = v.log.fatal
          /\ l.afterClose = v.log.afterClose /\ l.afterFatal = v.log.afterFatal /\ l.copies = v.log.copies
          /\ l.writing = FALSE /\ l.disturbed = v.log.disturbed
      BY <1>8 DEF Ctx, Log
    <2> HIDE DEF l
    <2>4. d \in Ctx /\ d.log = l /\ d.outBuf = v.outBuf
      BY <1>8, <2>3 DEF Ctx
    <2>5. SameManage(v, d)
      BY <1>8, <2>3 DEF Ctx, SameManage
    <2> HIDE DEF d
    <2>6. RecordInv(d) /\ LayerStep(p, d) /\ SameManage(p, d) /\ ("close" \in d.log.encoded => "close" \in p.log.encoded)
      BY <1>8, <1>10, <2>3, <2>4, <2>5 DEF RecordInv, LayerStep, SameManage
    <2>7. CtxInv(d)
      BY <1>4, <2>4, <2>6, LayerInv
    <2>8. QED
      BY <1>1, <1>8, <1>10, <2>1, <2>2, <2>3, <2>4, <2>7 DEF AppWriteOK
  <1>11. QED
    BY <1>9, <1>10

\* Writing in an open connection.
LEMMA WriteAppKeeps ==
  ASSUME IInv, config' = config, NEW io \in BuildOutcomes, WriteApp(io)
  PROVE  IInv'
  <1> DEFINE w == APP_Write(ctx, io)
  <1>1. call.at = "Writing" /\ ctx' = w.ctx /\ Return(w.ret)
    BY DEF WriteApp
  <1>2. Quiet(ctx) /\ CtxInv(ctx) /\ io \in Outcomes
    BY <1>1, LoopQuiet DEF LoopNames, IInv, BuildOutcomes, Outcomes
  <1>3. ctx.log.writing
    BY <1>1 DEF IInv, CallInv
  <1>4. MayBuild(ctx, "app")
    BY <1>2, <1>3 DEF MayBuild, Quiet, Clean
  <1>5. AppWriteOK(ctx, w)
    BY <1>2, <1>4, AppWriteFacts
  <1> HIDE DEF w
  <1>6. QED
    BY <1>1, <1>5, ReturnKeeps DEF AppWriteOK

\* A retry with other data than what is pending.
LEMMA WriteBadRetryKeeps ==
  ASSUME IInv, config' = config, NEW io \in IO, WriteBadRetry(io)
  PROVE  IInv'
  <1> DEFINE a == ALERT_Send(ctx, "fatal")
  <1>1. call.at = "Writing" /\ AlertInLoop(a, "ERROR", io)
    BY DEF WriteBadRetry
  <1>2. Quiet(ctx) /\ call.at \in LoopNames /\ "ERROR" \in Rets \ {"SUCCESS"}
    BY <1>1, LoopQuiet DEF LoopNames, Rets
  <1>3. Raised(a) /\ a.log.writing = ctx.log.writing
    BY <1>2, SendRaises
  <1> HIDE DEF a
  <1>4. QED
    BY <1>1, <1>2, <1>3, LoopKeeps

\* A connection that the peer closed may still write.
LEMMA ClosedWriteFacts ==
  ASSUME IInv, InClosedWrite, NEW d, d = ALERT_CleanInfo(ctx)
  PROVE  CtxInv(d) /\ d.state = "CLOSED" /\ d.alert.flag = "NO" /\ ~d.log.fatal /\ MayBuild(d, "app")
  <1>1. CtxInv(ctx) /\ ctx.state = "CLOSED" /\ "SENT" \notin ctx.shutdownState
    BY DEF IInv, InClosedWrite, ClosedForWriting
  <1>2. ClosedInv(ctx) /\ ctx.log.writing
    BY <1>1 DEF IInv, CallInv, InClosedWrite, CtxInv, StateInv
  <1>3. /\ CtxInv(d) /\ SameLayer(ctx, d) /\ d.state = "CLOSED" /\ d.alert.flag = "NO" /\ d.log.fatal = ctx.log.fatal
    BY <1>1, ClosedClean
  <1>4. ~ctx.log.fatal /\ "close" \notin ctx.log.encoded
    BY <1>1, <1>2 DEF ClosedInv, Shutdown
  <1>5. QED
    BY <1>2, <1>3, <1>4 DEF MayBuild, SameLayer

\* Writing in a connection that the peer closed.
LEMMA WriteClosedKeeps ==
  ASSUME IInv, config' = config, NEW io \in BuildOutcomes, WriteEventInClosedState(io)
  PROVE  IInv'
  <1> DEFINE k == ALERT_CleanInfo(ctx)
             w == APP_Write(k, io)
  <1>1. InClosedWrite /\ ctx' = w.ctx /\ Return(w.ret)
    BY DEF WriteEventInClosedState
  <1>2. CtxInv(k) /\ MayBuild(k, "app") /\ io \in Outcomes
    BY <1>1, ClosedWriteFacts DEF BuildOutcomes, Outcomes
  <1> HIDE DEF k
  <1>3. AppWriteOK(k, w)
    BY <1>2, AppWriteFacts
  <1> HIDE DEF w
  <1>4. QED
    BY <1>1, <1>3, ReturnKeeps DEF AppWriteOK

\* A retry with other data in a connection that the peer closed.
LEMMA WriteBadRetryClosedKeeps ==
  ASSUME IInv, config' = config, NEW io \in IO, WriteBadRetryInClosedState(io)
  PROVE  IInv'
  <1> DEFINE k == ALERT_CleanInfo(ctx)
             f == ALERT_Send(k, "fatal")
             a == AlertEventProcess(f, io)
             n == IF a.ret # "SUCCESS" THEN a.ret ELSE "ERROR"
  <1>1. InClosedWrite /\ ctx' = a.ctx /\ Return(n)
    BY DEF WriteBadRetryInClosedState
  <1>2. CtxInv(k) /\ k.state = "CLOSED" /\ k.alert.flag = "NO" /\ ~k.log.fatal /\ "fatal" \in AlertKinds
    BY <1>1, ClosedWriteFacts DEF AlertKinds
  <1> HIDE DEF k
  <1>3. Pending(f)
    BY <1>2, ClosedPending
  <1> HIDE DEF f
  <1>4. EventOK(f, a)
    BY <1>3, EventFacts
  <1> HIDE DEF a
  <1>5. CtxInv(a.ctx) /\ n \in Rets /\ n # "SUCCESS"
    BY <1>4 DEF EventOK, Rets
  <1> HIDE DEF n
  <1>6. QED
    BY <1>1, <1>5, ReturnKeeps

-------------------------------------------------------------------------------
(* Closing. *)

\* ALERT_Flush returns a ctx and a code.
LEMMA AlertFlushResult ==
  ASSUME NEW c, NEW io, io.write \in Outcomes, NEW r, r = ALERT_Flush(c, io)
  PROVE  r = Result(r.ctx, r.ret)
  <1> DEFINE f == REC_OutBufFlush(c, io.flush)
             w == REC_Write(f.ctx, c.alert.kind, io.write)
             g == [w EXCEPT !.ctx.alert.isFlush = TRUE]
  <1>1. \E d, ret : f = Result(d, ret)
    BY Zenon DEF REC_OutBufFlush
  <1>2. w = Result(w.ctx, w.ret)
    BY WriteResult
  <1>3. \/ r = Result(c, "ERROR") \/ r = f \/ r = Result(f.ctx, "IO_BUSY") \/ r = g
    BY Zenon DEF ALERT_Flush
  <1> HIDE DEF f, w
  <1>4. \E d, ret : g = Result(d, ret)
    <2> DEFINE u == [w.ctx EXCEPT !.alert.isFlush = TRUE]
    <2>1. g = [w EXCEPT !.ctx = u]
      OBVIOUS
    <2> HIDE DEF g, u
    <2>2. g = Result(u, w.ret)
      BY <1>2, <2>1 DEF Result
    <2>3. QED
      BY <2>2
  <1> HIDE DEF g
  <1>5. PICK d, ret : r = Result(d, ret)
    BY <1>1, <1>3, <1>4
  <1>6. r.ctx = d /\ r.ret = ret
    BY <1>5 DEF Result
  <1>7. QED
    BY <1>5, <1>6

\* What sending a close_notify returns.
NotifyOK(r) ==
  /\ r.ret \in Rets
  /\ IF r.ret = "SUCCESS"
     THEN /\ Base(r.ctx) /\ "SENT" \in r.ctx.shutdownState
          /\ r.ctx.log.fatal => r.ctx.shutdownState = Shutdown
     ELSE CtxInv(r.ctx)

\* A close_notify goes out once.
LEMMA NotifyFacts ==
  ASSUME NEW c, CtxInv(c), c.state \in Live \cup {"CLOSED"}, NEW io \in IO, NEW failState \in {"ALERTED", "ALERTING"},
         NEW r, r = SendCloseNotify(c, io, failState)
  PROVE  NotifyOK(r)
  <1> DEFINE a == ALERT_Send(c, "close")
             f == ALERT_Flush(a, io)
             x == ChangeConnState(f.ctx, failState)
             y == SetShutdown(f.ctx, {"SENT"})
  <1>1. Base(c) /\ c \in Ctx
    BY DEF CtxInv, Base
  <1>2. CASE "SENT" \in c.shutdownState
    <2>1. r = Result(c, "SUCCESS")
      BY <1>2, Zenon DEF SendCloseNotify
    <2>2. c.log.fatal => c.shutdownState = Shutdown
      BY DEF CtxInv, StateInv, ClosedInv, Clean
    <2>3. r.ctx = c /\ r.ret = "SUCCESS"
      BY <2>1 DEF Result
    <2>4. QED
      BY <1>1, <1>2, <2>2, <2>3 DEF NotifyOK, Rets
  <1>3. CASE "SENT" \notin c.shutdownState
    <2>1. r = IF f.ret # "SUCCESS" THEN [f EXCEPT !.ctx = ChangeConnState(f.ctx, failState)]
              ELSE [f EXCEPT !.ctx = SetShutdown(f.ctx, {"SENT"})]
      BY <1>3, Zenon DEF SendCloseNotify
    <2>2. c.alert.flag = "NO" /\ ~c.log.fatal /\ "close" \notin c.log.encoded
      BY <1>3 DEF CtxInv, StateInv, ClosedInv, Clean, Shutdown
    <2>3. "close" \in AlertKinds /\ ~AlertIsAbnormalInput(c.alert, "close")
      BY <2>2 DEF AlertKinds, AlertIsAbnormalInput
    <2>4. /\ a \in Ctx /\ SameLayer(c, a) /\ a.alert.flag = "SEND" /\ a.alert.kind = "close"
          /\ a.log.fatal = (c.log.fatal \/ "close" = "fatal")
      BY <1>1, <2>3, SendFacts
    <2> HIDE DEF a
    <2>5. Base(a) /\ "close" \notin a.log.encoded /\ ~a.log.fatal
      BY <1>1, <2>2, <2>4 DEF Base, RecordInv, AlertInv, SameLayer
    <2>6. AlertFlushOK(a, f)
      BY <2>4, <2>5, AlertFlushFacts
    <2>7. f = Result(f.ctx, f.ret)
      BY IOFacts, AlertFlushResult
    <2> HIDE DEF f
    <2>8. /\ Base(f.ctx) /\ f.ctx \in Ctx /\ ~f.ctx.log.fatal /\ f.ctx.alert.flag = "SEND" /\ f.ctx.alert.kind = "close"
          /\ "close" \in f.ctx.log.encoded => f.ctx.alert.isFlush
          /\ f.ret \in Rets
      BY <2>4, <2>5, <2>6 DEF AlertFlushOK, SameUnsent, Base
    <2>9. /\ f.ret # "SUCCESS" => r.ctx = x /\ r.ret = f.ret
          /\ f.ret = "SUCCESS" => r.ctx = y /\ r.ret = f.ret
      <3> HIDE DEF x, y
      <3>1. r = IF f.ret # "SUCCESS" THEN [f EXCEPT !.ctx = x] ELSE [f EXCEPT !.ctx = y]
        BY <2>1, Zenon DEF x, y
      <3>2. QED
        BY <2>7, <3>1 DEF Result
    <2>10. CASE f.ret # "SUCCESS"
      <3>1. /\ x \in Ctx /\ SameLayer(f.ctx, x) /\ x.alert = f.ctx.alert /\ x.state = failState
            /\ x.log.fatal = f.ctx.log.fatal
        <4>1. failState \in States
          BY DEF States
        <4>2. QED
          BY <2>8, <4>1, ChangeFacts
      <3> HIDE DEF x
      <3>2. Base(x)
        BY <2>8, <3>1 DEF Base, RecordInv, AlertInv, SameLayer
      <3>3. StateInv(x)
        BY <2>8, <3>1 DEF StateInv, AlertingInv, FatalGone, SameLayer, Live
      <3>4. QED
        BY <2>8, <2>9, <2>10, <3>2, <3>3 DEF NotifyOK, CtxInv
    <2>11. CASE f.ret = "SUCCESS"
      <3>1. /\ y \in Ctx /\ SameLayer(f.ctx, y) /\ y.alert = f.ctx.alert /\ y.log.fatal = f.ctx.log.fatal
            /\ y.shutdownState = f.ctx.shutdownState \cup {"SENT"}
        <4>1. {"SENT"} \in SUBSET Shutdown
          BY DEF Shutdown
        <4>2. QED
          BY <2>8, <4>1, ShutFacts
      <3> HIDE DEF y
      <3>2. Base(y)
        BY <2>8, <3>1 DEF Base, RecordInv, AlertInv, SameLayer
      <3>3. QED
        BY <2>8, <2>9, <2>11, <3>1, <3>2 DEF NotifyOK
    <2>12. QED
      BY <2>10, <2>11
  <1>4. QED
    BY <1>2, <1>3

\* What a handler of HITLS_Close returns.
CloseOK(r) == CtxInv(r.ctx) /\ r.ret \in Rets

\* The connection is closed after its close_notify.
LEMMA ClosedFacts ==
  ASSUME NEW q, NEW flags \in SUBSET Shutdown,
         NotifyOK(q) \/ (q.ret = "SUCCESS" /\ Base(q.ctx) /\ flags = Shutdown),
         NEW r, r = Closed(q, flags)
  PROVE  CloseOK(r)
  <1>1. CASE q.ret # "SUCCESS"
    <2>1. r = q
      BY <1>1 DEF Closed
    <2>2. QED
      BY <1>1, <2>1 DEF NotifyOK, CloseOK
  <1>2. CASE q.ret = "SUCCESS"
    <2> DEFINE d == SetShutdown(q.ctx, flags)
               e == ChangeConnState(d, "CLOSED")
    <2>1. r = Result(e, "SUCCESS")
      BY <1>2, Zenon DEF Closed
    <2>2. Base(q.ctx) /\ q.ctx \in Ctx /\ "CLOSED" \in States
      BY <1>2 DEF NotifyOK, Base, States
    <2>3. d \in Ctx /\ SameLayer(q.ctx, d) /\ d.alert = q.ctx.alert /\ d.log.fatal = q.ctx.log.fatal
          /\ d.shutdownState = q.ctx.shutdownState \cup flags
      BY <2>2, ShutFacts
    <2> HIDE DEF d
    <2>4. e \in Ctx /\ SameLayer(d, e) /\ e.alert = d.alert /\ e.log.fatal = d.log.fatal
          /\ e.shutdownState = d.shutdownState /\ e.state = "CLOSED"
      BY <2>2, <2>3, ChangeFacts
    <2> HIDE DEF e
    <2>5. Base(e)
      BY <2>2, <2>3, <2>4 DEF Base, RecordInv, AlertInv, SameLayer
    <2>6. q.ctx.shutdownState \in SUBSET Shutdown
      BY <2>2 DEF Ctx
    <2>7. "SENT" \in e.shutdownState /\ (e.log.fatal => e.shutdownState = Shutdown)
      BY <1>2, <2>3, <2>4, <2>6 DEF NotifyOK, Shutdown
    <2>8. StateInv(e)
      BY <2>4, <2>7 DEF StateInv, ClosedInv, Live
    <2>9. r.ctx = e /\ r.ret = "SUCCESS"
      BY <2>1 DEF Result
    <2>10. QED
      BY <2>5, <2>8, <2>9 DEF CloseOK, CtxInv, Rets
  <1>3. QED
    BY <1>1, <1>2

\* HITLS_Close in a closed connection: the close_notify that is owed, or what the
\* peer still sends.
LEMMA CloseClosedFacts ==
  ASSUME NEW c, CtxInv(c), c.state = "CLOSED", NEW record \in Records, NEW io \in IO,
         NEW q, q = CloseEventInClosedState(c, record, io)
  PROVE  CloseOK(q)
  <1> DEFINE r == APP_Read(ALERT_CleanInfo(c), record)
             a == AlertEventProcess(r, io)
             n == IF record = "app" THEN "SUCCESS" ELSE "BUF_EMPTY"
             v == SendCloseNotify(c, io, "ALERTING")
  <1>1. q = IF "RECEIVED" \in c.shutdownState THEN Closed(v, {})
            ELSE IF r.alert.flag = "NO" THEN Result(r, n)
            ELSE CASE a.ret = "LINK_CLOSED" -> Result(a.ctx, "SUCCESS")
                   [] a.ret = "SUCCESS" -> Result(a.ctx, "ERROR")
                   [] OTHER -> a
    BY Zenon DEF CloseEventInClosedState
  <1>2. CASE "RECEIVED" \in c.shutdownState
    <2>1. NotifyOK(v)
      BY NotifyFacts
    <2> HIDE DEF v
    <2>2. {} \in SUBSET Shutdown
      OBVIOUS
    <2>3. QED
      BY <1>1, <1>2, <2>1, <2>2, ClosedFacts
  <1>3. CASE "RECEIVED" \notin c.shutdownState
    <2>1. ~c.log.fatal
      BY <1>3 DEF CtxInv, StateInv, ClosedInv, Shutdown
    <2>2. AppReadOK(c, r)
      BY <2>1, AppReadFacts
    <2> HIDE DEF r
    <2>3. CASE r.alert.flag = "NO"
      <3>1. q = Result(r, n)
        BY <1>1, <1>3, <2>3
      <3>2. n \in Rets
        BY DEF Rets
      <3> HIDE DEF n
      <3>3. q.ctx = r /\ q.ret = n
        BY <3>1 DEF Result
      <3>4. QED
        BY <2>2, <2>3, <3>2, <3>3 DEF AppReadOK, CloseOK
    <2>4. CASE r.alert.flag # "NO"
      <3>1. EventOK(r, a)
        BY <2>2, <2>4, EventFacts DEF AppReadOK
      <3> HIDE DEF a
      <3>2. q = Result(a.ctx, "SUCCESS") \/ q = Result(a.ctx, "ERROR") \/ q = a
        BY <1>1, <1>3, <2>4
      <3>3. q.ctx = a.ctx /\ q.ret \in {"SUCCESS", "ERROR", a.ret}
        BY <3>2 DEF Result
      <3>4. QED
        BY <3>1, <3>3 DEF EventOK, CloseOK, Rets
    <2>5. QED
      BY <2>3, <2>4
  <1>4. QED
    BY <1>2, <1>3

\* The handler of HITLS_Close in each state.
LEMMA CloseEventFacts ==
  ASSUME NEW c, CtxInv(c), NEW record \in Records, NEW io \in IO, NEW r, r = CloseEvent(c, record, io),
         config \in Config
  PROVE  CloseOK(r)
  <1>1. Base(c) /\ c \in Ctx /\ c.state \in States
    BY DEF CtxInv, Base, Ctx
  <1>2. {"RECEIVED"} \in SUBSET Shutdown /\ {} \in SUBSET Shutdown /\ Shutdown \in SUBSET Shutdown
    BY DEF Shutdown
  <1>3. CASE config.isQuietShutdown \/ c.state \in {"IDLE", "ALERTED"}
    <2> DEFINE q == Result(c, "SUCCESS")
    <2>1. r = Closed(q, Shutdown)
      BY <1>3 DEF CloseEvent
    <2>2. q.ret = "SUCCESS" /\ Base(q.ctx)
      BY <1>1 DEF Result
    <2> HIDE DEF q
    <2>3. QED
      BY <1>2, <2>1, <2>2, ClosedFacts
  <1>4. CASE ~config.isQuietShutdown /\ c.state \in {"HANDSHAKING", "RENEGOTIATION"}
    <2> DEFINE q == SendCloseNotify(c, io, "ALERTED")
    <2>1. r = Closed(q, {"RECEIVED"})
      BY <1>4 DEF CloseEvent
    <2>2. NotifyOK(q)
      BY <1>4, NotifyFacts DEF Live
    <2> HIDE DEF q
    <2>3. QED
      BY <1>2, <2>1, <2>2, ClosedFacts
  <1>5. CASE ~config.isQuietShutdown /\ c.state = "TRANSPORTING"
    <2> DEFINE q == SendCloseNotify(c, io, "ALERTING")
    <2>1. r = Closed(q, {})
      BY <1>5 DEF CloseEvent
    <2>2. NotifyOK(q)
      BY <1>5, NotifyFacts DEF Live
    <2> HIDE DEF q
    <2>3. QED
      BY <1>2, <2>1, <2>2, ClosedFacts
  <1>6. CASE ~config.isQuietShutdown /\ c.state = "ALERTING"
    <2> DEFINE a == ALERT_Send(c, "close")
    <2>1. r = CommonEventInAlertingState(a, io)
      BY <1>6 DEF CloseEvent
    <2>2. AlertingInv(c) /\ "close" \in AlertKinds
      BY <1>6 DEF CtxInv, StateInv, AlertKinds
    <2>3. /\ a \in Ctx /\ SameLayer(c, a) /\ a.state = c.state
          /\ IF AlertIsAbnormalInput(c.alert, "close") THEN a = c
             ELSE /\ a.alert.flag = "SEND" /\ a.alert.kind = "close" /\ ~a.alert.isFlush
                  /\ a.log.fatal = (c.log.fatal \/ "close" = "fatal")
      BY <1>1, <2>2, SendFacts
    <2> HIDE DEF a
    <2>4. CtxInv(a)
      <3>1. CASE AlertIsAbnormalInput(c.alert, "close")
        BY <2>3, <3>1
      <3>2. CASE ~AlertIsAbnormalInput(c.alert, "close")
        <4>1. c.alert.kind = "no_reneg"
          BY <1>1, <2>2, <3>2 DEF AlertIsAbnormalInput, AlertingInv, Base, AlertInv
        <4>2. Clean(c)
          BY <2>2, <4>1 DEF AlertingInv
        <4>3. Base(a)
          BY <1>1, <2>3, <3>2 DEF Base, RecordInv, AlertInv, SameLayer
        <4>4. AlertingInv(a)
          BY <2>3, <3>2, <4>2 DEF AlertingInv, Clean, SameLayer
        <4>5. QED
          BY <1>6, <2>3, <4>3, <4>4 DEF CtxInv, StateInv, Live
      <3>3. QED
        BY <3>1, <3>2
    <2>5. EventOK(a, r)
      BY <1>6, <2>1, <2>3, <2>4, CommonFacts
    <2>6. QED
      BY <2>5 DEF EventOK, CloseOK
  <1>7. CASE ~config.isQuietShutdown /\ c.state = "CLOSED"
    <2>1. r = CloseEventInClosedState(c, record, io)
      BY <1>7 DEF CloseEvent
    <2>2. QED
      BY <1>7, <2>1, CloseClosedFacts
  <1>8. QED
    BY <1>1, <1>3, <1>4, <1>5, <1>6, <1>7 DEF States

\* A step of HITLS_Close.
LEMMA CloseStepKeeps ==
  ASSUME IInv, config' = config, NEW record \in Records, NEW io \in IO, CloseStep(record, io)
  PROVE  IInv'
  <1> DEFINE r == CloseEvent(ctx, record, io)
  <1>1. /\ call.api = "Close" /\ call.at = "Dispatch" /\ ctx' = r.ctx
        /\ Return(r.ret) \/ UNCHANGED call
    BY DEF CloseStep
  <1>2. CloseOK(r)
    BY CloseEventFacts DEF IInv
  <1> HIDE DEF r
  <1>3. CASE Return(r.ret)
    BY <1>1, <1>2, <1>3, ReturnKeeps DEF CloseOK
  <1>4. CASE UNCHANGED call
    <2>1. CtxInv(ctx)'
      BY <1>1, <1>2, CtxPrime DEF CloseOK
    <2>2. CallInv'
      BY <1>1, <1>4 DEF IInv, CallInv
    <2>3. QED
      BY <2>1, <2>2 DEF IInv
  <1>5. QED
    BY <1>1, <1>3, <1>4

-------------------------------------------------------------------------------
(* The calls. *)

\* The user begins to write new data, or repeats a write.
LEMMA BeginFacts ==
  ASSUME NEW c, CtxInv(c), NEW d, d = BeginWrite(c)
  PROVE  CtxInv(d) /\ d.log.writing /\ d.state = c.state
  <1>1. c \in Ctx
    BY DEF CtxInv, Base
  <1>2. CASE c.log.writing
    BY <1>2 DEF BeginWrite
  <1>3. CASE ~c.log.writing
    <2> DEFINE l == [c.log EXCEPT !.writing = TRUE, !.copies = 0, !.disturbed = FALSE]
    <2>1. d = [c EXCEPT !.log.writing = TRUE, !.log.copies = 0, !.log.disturbed = FALSE]
      BY <1>3 DEF BeginWrite
    <2>2. d = [c EXCEPT !.log = l]
      BY <1>1, <2>1 DEF Ctx, Log
    <2>3. /\ l \in Log /\ l.encoded = c.log.encoded /\ l.wire = c.log.wire /\ l.fatal = c.log.fatal
          /\ l.afterClose = c.log.afterClose /\ l.afterFatal = c.log.afterFatal /\ l.copies = 0
          /\ l.writing = TRUE /\ l.disturbed = FALSE
      <3> DEFINE log == c.log
                 k == [log EXCEPT !.writing = TRUE]
                 m == [k EXCEPT !.copies = 0]
      <3>1. log \in Log
        BY <1>1 DEF Ctx
      <3> HIDE DEF log
      <3>2. /\ k \in Log /\ k.encoded = log.encoded /\ k.wire = log.wire /\ k.fatal = log.fatal
            /\ k.afterClose = log.afterClose /\ k.afterFatal = log.afterFatal /\ k.writing = TRUE
        BY <3>1 DEF Log
      <3> HIDE DEF k
      <3>3. /\ m \in Log /\ m.encoded = log.encoded /\ m.wire = log.wire /\ m.fatal = log.fatal
            /\ m.afterClose = log.afterClose /\ m.afterFatal = log.afterFatal /\ m.writing = TRUE /\ m.copies = 0
        BY <3>2 DEF Log
      <3> HIDE DEF m
      <3>4. l = [m EXCEPT !.disturbed = FALSE]
        BY Zenon DEF l, m, k, log
      <3> HIDE DEF l
      <3>5. /\ l \in Log /\ l.encoded = log.encoded /\ l.wire = log.wire /\ l.fatal = log.fatal
            /\ l.afterClose = log.afterClose /\ l.afterFatal = log.afterFatal /\ l.copies = 0
            /\ l.writing = TRUE /\ l.disturbed = FALSE
        BY <3>3, <3>4 DEF Log
      <3>6. QED
        BY <3>5 DEF log
    <2> HIDE DEF l
    <2>4. d \in Ctx /\ d.log = l /\ d.outBuf = c.outBuf /\ SameManage(c, d)
      BY <1>1, <2>2, <2>3 DEF Ctx, SameManage
    <2>5. RecordInv(d) /\ LayerStep(c, d)
      BY <1>3, <2>3, <2>4 DEF CtxInv, Base, RecordInv, LayerStep
    <2>6. CtxInv(d)
      BY <2>3, <2>4, <2>5, LayerInv
    <2>7. QED
      BY <2>3, <2>4, <2>6 DEF SameManage
  <1>4. QED
    BY <1>2, <1>3

\* A connection that transports is open.
LEMMA TransportQuiet ==
  ASSUME NEW c, CtxInv(c), c.state \in Live
  PROVE  Quiet(c)
  BY DEF CtxInv, StateInv, Quiet

\* An open connection begins an exchange of its own.
LEMMA ExchangeQuiet ==
  ASSUME NEW c, CtxInv(c), c.state = "TRANSPORTING", NEW h \in HsStates,
         NEW d, d = [ChangeConnState(c, "HANDSHAKING") EXCEPT !.hs = h]
  PROVE  CtxInv(d) /\ SameLayer(c, d) /\ d.state = "HANDSHAKING"
  <1> DEFINE b == ChangeConnState(c, "HANDSHAKING")
  <1>1. Quiet(c) /\ "HANDSHAKING" \in Live /\ c \in Ctx /\ "HANDSHAKING" \in States
    BY TransportQuiet DEF Live, CtxInv, Base, States
  <1>2. Quiet(b) /\ b.state = "HANDSHAKING"
    BY <1>1, ChangeQuiet
  <1>3. b \in Ctx /\ SameLayer(c, b)
    BY <1>1, ChangeFacts
  <1> HIDE DEF b
  <1>4. d = [b EXCEPT !.hs = h]
    BY DEF b
  <1>5. SameCtx(b, d)
    BY <1>3, <1>4, HsSet
  <1>6. Quiet(d)
    BY <1>2, <1>5, SameQuiet DEF SameCtx
  <1>7. QED
    BY <1>2, <1>3, <1>5, <1>6, QuietInv DEF SameCtx, SameLayer, SameManage

\* A pending post-handshake authentication is begun.
LEMMA PhaFacts ==
  ASSUME NEW c, CtxInv(c), c.state # "ALERTING", NEW d, d = CommonCheckPostHandshakeAuth(c)
  PROVE  CtxInv(d) /\ d.log.writing = c.log.writing /\ d.state # "ALERTING"
  <1>1. "sendCertRequest" \in HsStates
    BY DEF HsStates, SendStates
  <1>2. CASE c.state = "TRANSPORTING" /\ d = [ChangeConnState(c, "HANDSHAKING") EXCEPT !.hs = "sendCertRequest"]
    <2>1. CtxInv(d) /\ SameLayer(c, d) /\ d.state = "HANDSHAKING"
      BY <1>1, <1>2, ExchangeQuiet
    <2>2. QED
      BY <2>1 DEF SameLayer
  <1>3. CASE d = c
    BY <1>3
  <1>4. QED
    BY <1>2, <1>3 DEF CommonCheckPostHandshakeAuth

\* A call of the API.
LEMMA CallKeeps ==
  ASSUME IInv, config' = config, NEW api \in APIs, NEW io \in IO, Call(api, io)
  PROVE  IInv'
  <1> DEFINE p == CommonEventInAlertingState(ctx, io)
             q == IF api # "Close" /\ ctx.state = "ALERTING" THEN p ELSE Result(ctx, "SUCCESS")
             v == q.ctx
             u == [v EXCEPT !.userShutDown = TRUE]
             w == BeginWrite(v)
             c == CASE api = "Close" -> u
                    [] api = "Accept" -> CommonCheckPostHandshakeAuth(v)
                    [] api = "Write" -> CommonCheckPostHandshakeAuth(w)
                    [] OTHER -> v
  <1>1. /\ call.at = "user"
        /\ IF q.ret # "SUCCESS"
           THEN ctx' = v /\ call' = [api |-> api, at |-> "user", ret |-> q.ret]
           ELSE ctx' = c /\ call' = [call EXCEPT !.api = api, !.at = "Dispatch"]
    BY DEF Call
  <1>2. CtxInv(ctx) /\ call \in [api : APIs, at : Loops, ret : Rets]
    BY DEF IInv, CallInv
  <1>3. CtxInv(v) /\ q.ret \in Rets /\ (q.ret = "SUCCESS" => v.state # "ALERTING" \/ api = "Close")
    <2>1. CASE api # "Close" /\ ctx.state = "ALERTING"
      <3>1. EventOK(ctx, p) /\ q = p
        BY <1>2, <2>1, CommonFacts
      <3> HIDE DEF p, q
      <3>2. QED
        BY <3>1 DEF EventOK, Live
    <2>2. CASE ~(api # "Close" /\ ctx.state = "ALERTING")
      <3>1. q = Result(ctx, "SUCCESS")
        BY <2>2
      <3> HIDE DEF q
      <3>2. v = ctx /\ q.ret = "SUCCESS"
        BY <3>1 DEF Result
      <3>3. QED
        BY <1>2, <2>2, <3>2 DEF Rets
    <2>3. QED
      BY <2>1, <2>2
  <1> HIDE DEF q, v
  <1>4. CASE q.ret # "SUCCESS"
    <2>1. ctx' = v /\ call' = [api |-> api, at |-> "user", ret |-> q.ret]
      BY <1>1, <1>4
    <2>2. CtxInv(ctx)'
      BY <1>3, <2>1, CtxPrime
    <2>3. call' \in [api : APIs, at : Loops, ret : Rets] /\ call'.at = "user" /\ call'.ret # "SUCCESS"
      BY <1>3, <1>4, <2>1 DEF Loops
    <2>4. CallInv'
      BY <2>3 DEF CallInv
    <2>5. QED
      BY <2>2, <2>4 DEF IInv
  <1>5. CASE q.ret = "SUCCESS"
    <2>1. ctx' = c /\ call' = [call EXCEPT !.api = api, !.at = "Dispatch"]
      BY <1>1, <1>5
    <2>2. call' \in [api : APIs, at : Loops, ret : Rets] /\ call'.at = "Dispatch" /\ call'.api = api
      BY <1>2, <2>1 DEF Loops
    <2>3. CtxInv(c) /\ (c.state # "ALERTING" \/ api = "Close") /\ (api = "Write" => c.log.writing)
      <3>1. CASE api = "Close"
        <4>1. c = u
          BY <3>1
        <4>2. v \in Ctx
          BY <1>3 DEF CtxInv, Base
        <4>3. u \in Ctx /\ SameLayer(v, u) /\ SameManage(v, u)
          BY <4>2 DEF Ctx, SameLayer, SameManage
        <4> HIDE DEF c, u
        <4>4. QED
          BY <1>3, <3>1, <4>1, <4>2, <4>3, SameInv
      <3>2. CASE api = "Accept"
        <4>1. c = CommonCheckPostHandshakeAuth(v)
          BY <3>2
        <4> HIDE DEF c
        <4>2. QED
          BY <1>3, <1>5, <3>2, <4>1, PhaFacts
      <3>3. CASE api = "Write"
        <4>1. c = CommonCheckPostHandshakeAuth(w)
          BY <3>3
        <4>2. CtxInv(w) /\ w.log.writing /\ w.state = v.state
          BY <1>3, BeginFacts
        <4> HIDE DEF c, w
        <4>3. QED
          BY <1>3, <1>5, <3>3, <4>1, <4>2, PhaFacts
      <3>4. CASE api \notin {"Close", "Accept", "Write"}
        <4>1. c = v
          BY <3>4
        <4> HIDE DEF c
        <4>2. QED
          BY <1>3, <1>5, <3>4, <4>1
      <3>5. QED
        BY <3>1, <3>2, <3>3, <3>4
    <2> HIDE DEF c
    <2>4. CtxInv(ctx)'
      BY <2>1, <2>3, CtxPrime
    <2>5. CallInv'
      BY <2>1, <2>2, <2>3 DEF CallInv
    <2>6. QED
      BY <2>4, <2>5 DEF IInv
  <1>6. QED
    BY <1>4, <1>5

\* HITLS_Connect and HITLS_Accept in an idle connection.
LEMMA EstablishKeeps ==
  ASSUME IInv, config' = config, EstablishEventInIdle
  PROVE  IInv'
  <1> DEFINE b == ChangeConnState(ctx, "HANDSHAKING")
             d == HS_Init(b)
  <1>1. /\ ctx.state = "IDLE" /\ call.at = "Dispatch" /\ call.api \in {"Connect", "Accept"}
        /\ ctx' = d /\ Continue("Handshaking")
    BY DEF EstablishEventInIdle, Dispatched
  <1>2. CtxInv(ctx) /\ "HANDSHAKING" \in Live /\ "Handshaking" \in LoopNames
    BY DEF IInv, Live, LoopNames
  <1>3. Quiet(b) /\ b.log.writing = ctx.log.writing
    BY <1>1, <1>2, ChangeQuiet
  <1> HIDE DEF b
  <1>4. SameCtx(b, d)
    BY <1>3, HsInitFacts DEF Quiet, Base
  <1> HIDE DEF d
  <1>5. Quiet(d) /\ d.log.writing = ctx.log.writing
    BY <1>3, <1>4, SameQuiet DEF SameCtx
  <1>6. QED
    BY <1>1, <1>2, <1>5, ContinueKeeps

\* A call enters its loop.
LEMMA DispatchLoopKeeps ==
  ASSUME IInv, config' = config, DispatchLoop
  PROVE  IInv'
  <1>1. /\ ctx' = ctx /\ ctx.state \in Live /\ call.at = "Dispatch" /\ call.api # "Close"
        /\ \E loop \in LoopNames : /\ Continue(loop)
                                   /\ loop = "Reading" => call.api = "Read"
                                   /\ loop = "Writing" => call.api = "Write"
    <2>1. CASE \E s \in {"HANDSHAKING", "RENEGOTIATION"} :
                 /\ Dispatched({"Connect", "Accept", "Read", "Write"}, s)
                 /\ Continue(IF s = "RENEGOTIATION" /\ call.api = "Write" /\ ctx.pendingData
                             THEN "Writing" ELSE LoopFor(s))
      <3>1. PICK s \in {"HANDSHAKING", "RENEGOTIATION"} :
                 /\ Dispatched({"Connect", "Accept", "Read", "Write"}, s)
                 /\ Continue(IF s = "RENEGOTIATION" /\ call.api = "Write" /\ ctx.pendingData
                             THEN "Writing" ELSE LoopFor(s))
        BY <2>1
      <3> DEFINE loop == IF s = "RENEGOTIATION" /\ call.api = "Write" /\ ctx.pendingData THEN "Writing" ELSE LoopFor(s)
      <3>2. loop \in LoopNames /\ loop # "Reading" /\ (loop = "Writing" => call.api = "Write")
        BY DEF LoopFor, LoopNames
      <3>3. Continue(loop)
        BY <3>1
      <3> HIDE DEF loop
      <3>4. ctx' = ctx
        BY DEF DispatchLoop
      <3>5. QED
        BY <3>1, <3>2, <3>3, <3>4 DEF Dispatched, Live
    <2>2. CASE Dispatched({"Read"}, "TRANSPORTING") /\ Continue("Reading")
      BY <2>2 DEF DispatchLoop, Dispatched, Live, LoopNames
    <2>3. CASE Dispatched({"Write"}, "TRANSPORTING") /\ Continue("Writing")
      BY <2>3 DEF DispatchLoop, Dispatched, Live, LoopNames
    <2>4. QED
      BY <2>1, <2>2, <2>3 DEF DispatchLoop
  <1>2. Quiet(ctx) /\ call.at # "user"
    BY <1>1, TransportQuiet DEF IInv
  <1>3. QED
    BY <1>1, <1>2, ContinueKeeps

\* A call returns at once.
LEMMA DispatchReturnKeeps ==
  ASSUME IInv, config' = config, DispatchReturn
  PROVE  IInv'
  <1>1. /\ ctx' = ctx /\ \E r \in Rets : Return(r) /\ (call.api = "Write" => r # "SUCCESS")
    BY DEF DispatchReturn, Dispatched, Rets, APIs
  <1>2. CtxInv(ctx)
    BY DEF IInv
  <1>3. QED
    BY <1>1, <1>2, ReturnKeeps

\* The calls that only prepare an exchange.
LEMMA PrepareKeeps ==
  ASSUME IInv, config' = config,
         HITLS_KeyUpdate \/ HITLS_Renegotiate \/ HITLS_VerifyClientPostHandshake
  PROVE  IInv'
  <1>1. CtxInv(ctx) /\ ctx \in Ctx /\ CallInv
    BY DEF IInv, CtxInv, Base
  <1>2. PICK d : ctx' = d /\ CtxInv(d) /\ SameLayer(ctx, d) /\ call.at = "user" /\ UNCHANGED call
    <2>1. CASE HITLS_KeyUpdate
      <3> DEFINE d == [ChangeConnState(ctx, "HANDSHAKING") EXCEPT !.hs = "sendKeyUpdate"]
      <3>1. "sendKeyUpdate" \in HsStates /\ ctx.state = "TRANSPORTING" /\ ctx' = d
        BY <2>1 DEF HsStates, SendStates, HITLS_KeyUpdate
      <3>2. CtxInv(d) /\ SameLayer(ctx, d)
        BY <1>1, <3>1, ExchangeQuiet
      <3> HIDE DEF d
      <3>3. QED
        BY <2>1, <3>1, <3>2 DEF HITLS_KeyUpdate
    <2>2. CASE HITLS_Renegotiate
      <3> DEFINE a == [ctx EXCEPT !.isRenegotiation = TRUE, !.userRenego = TRUE]
                 b == HS_Init(a)
                 d == ChangeConnState(b, "RENEGOTIATION")
      <3>1. ctx.state \in Live /\ ctx' = d /\ "RENEGOTIATION" \in Live /\ "RENEGOTIATION" \in States
        BY <2>2 DEF HITLS_Renegotiate, Live, States
      <3>2. SameCtx(ctx, a)
        BY <1>1 DEF SameCtx, SameLayer, SameManage, Ctx
      <3> HIDE DEF a
      <3>3. SameCtx(a, b)
        BY <3>2, HsInitFacts DEF SameCtx
      <3> HIDE DEF b
      <3>4. SameCtx(ctx, b)
        BY <3>2, <3>3, SameTrans
      <3>5. Quiet(b)
        BY <1>1, <3>1, <3>4, TransportQuiet, SameQuiet DEF SameCtx
      <3>6. Quiet(d)
        BY <3>1, <3>5, ChangeQuiet
      <3>7. SameLayer(b, d)
        BY <3>1, <3>4, ChangeFacts DEF SameCtx
      <3> HIDE DEF d
      <3>8. CtxInv(d) /\ SameLayer(ctx, d)
        BY <3>4, <3>6, <3>7, QuietInv DEF SameCtx, SameLayer
      <3>9. QED
        BY <2>2, <3>1, <3>8 DEF HITLS_Renegotiate
    <2>3. CASE HITLS_VerifyClientPostHandshake
      <3> DEFINE d == [ctx EXCEPT !.phaState = "PHA_PENDING"]
      <3>1. ctx' = d
        BY <2>3 DEF HITLS_VerifyClientPostHandshake
      <3>2. SameCtx(ctx, d)
        BY <1>1 DEF SameCtx, SameLayer, SameManage, Ctx, PhaStates
      <3> HIDE DEF d
      <3>3. CtxInv(d) /\ SameLayer(ctx, d)
        BY <1>1, <3>2, SameInv DEF SameCtx
      <3>4. QED
        BY <2>3, <3>1, <3>3 DEF HITLS_VerifyClientPostHandshake
    <2>4. QED
      BY <2>1, <2>2, <2>3
  <1>3. CtxInv(ctx)'
    BY <1>2, CtxPrime
  <1>4. CallInv'
    <2>1. call.at \notin LoopNames
      BY <1>2 DEF LoopNames
    <2>2. QED
      BY <1>1, <1>2, <2>1, SameCallInv DEF SameLayer
  <1>5. QED
    BY <1>3, <1>4 DEF IInv

\* HITLS_Flush empties the buffer, and with it completes the write it held.
LEMMA FlushKeeps ==
  ASSUME IInv, config' = config, NEW io \in {"ok", "busy"}, HITLS_Flush(io)
  PROVE  IInv'
  <1> DEFINE f == REC_OutBufFlush(ctx, io)
             v == f.ctx
             l == [v.log EXCEPT !.writing = FALSE, !.disturbed = FALSE]
             d == [v EXCEPT !.log = l]
             e == [v EXCEPT !.log.writing = FALSE, !.log.disturbed = FALSE]
  <1>1. /\ call.at = "user" /\ UNCHANGED call
        /\ ctx' = IF f.ret = "SUCCESS" /\ ctx.outBuf = "app" THEN e ELSE v
    BY DEF HITLS_Flush
  <1>2. CtxInv(ctx) /\ ctx \in Ctx /\ RecordInv(ctx) /\ CallInv
    BY DEF IInv, CtxInv, Base
  <1>3. FlushOK(ctx, f)
    BY <1>2, FlushFacts
  <1> HIDE DEF f
  <1>4. /\ v \in Ctx /\ SameManage(ctx, v) /\ LayerStep(ctx, v) /\ RecordInv(v)
        /\ v.log.encoded = ctx.log.encoded /\ v.log.writing = ctx.log.writing
        /\ v.log.copies = ctx.log.copies /\ (ctx.log.disturbed => v.log.disturbed)
        /\ (f.ret = "SUCCESS" => v.outBuf = "none")
    BY <1>3 DEF FlushOK
  <1> HIDE DEF v
  <1>5. CtxInv(v)
    BY <1>2, <1>4, LayerInv
  <1>6. CASE f.ret = "SUCCESS" /\ ctx.outBuf = "app"
    <2>1. e = d
      BY <1>4 DEF Ctx, Log
    <2>2. /\ l \in Log /\ l.encoded = v.log.encoded /\ l.wire = v.log.wire /\ l.fatal = v.log.fatal
          /\ l.afterClose = v.log.afterClose /\ l.afterFatal = v.log.afterFatal /\ l.writing = FALSE
      BY <1>4 DEF Ctx, Log
    <2> HIDE DEF l
    <2>3. d \in Ctx /\ d.log = l /\ d.outBuf = v.outBuf /\ SameManage(v, d)
      BY <1>4, <2>2 DEF Ctx, SameManage
    <2> HIDE DEF d
    <2>4. RecordInv(d) /\ LayerStep(v, d)
      BY <1>4, <1>6, <2>2, <2>3 DEF RecordInv, LayerStep
    <2>5. CtxInv(d)
      BY <1>5, <2>2, <2>3, <2>4, LayerInv
    <2>6. ctx' = d
      BY <1>1, <1>6, <2>1
    <2>7. CtxInv(ctx)'
      BY <2>5, <2>6, CtxPrime
    <2>8. ~(call.api = "Write" /\ call.ret = "SUCCESS")
      BY <1>1, <1>2, <1>6 DEF RecordInv, CallInv
    <2>9. CallInv'
      BY <1>1, <1>2, <2>8 DEF CallInv
    <2>10. QED
      BY <2>7, <2>9 DEF IInv
  <1>7. CASE ~(f.ret = "SUCCESS" /\ ctx.outBuf = "app")
    <2>1. ctx' = v
      BY <1>1, <1>7
    <2>2. CtxInv(ctx)'
      BY <1>5, <2>1, CtxPrime
    <2>3. CallInv'
      BY <1>1, <1>2, <1>4, <2>1 DEF CallInv
    <2>4. QED
      BY <2>2, <2>3 DEF IInv
  <1>8. QED
    BY <1>6, <1>7

\* A new connection satisfies the invariant, whatever phaState it keeps.
LEMMA NewFacts ==
  ASSUME NEW p \in PhaStates, NEW d, d = [NewCtx EXCEPT !.phaState = p] \/ d = NewCtx
  PROVE  CtxInv(d) /\ d.state = "IDLE"
  <1>1. /\ NoLog \in Log /\ NoLog.encoded = {} /\ NoLog.afterClose = {} /\ NoLog.afterFatal = {}
        /\ NoLog.fatal = FALSE /\ NoLog.writing = FALSE
    BY DEF NoLog, Log, States
  <1>2. NoAlert \in AlertCtx /\ NoAlert.flag = "NO"
    BY DEF NoAlert, AlertCtx
  <1>3. 0 \in 0 .. MaxAlertCount /\ 0 < MaxAlertCount
    BY AlertCountAssumption
  <1>4. "PHA_NONE" \in PhaStates /\ "none" \in HsStates /\ "IDLE" \in States /\ {} \in SUBSET Shutdown
    BY DEF PhaStates, HsStates, States
  <1>5. /\ NewCtx \in Ctx /\ NewCtx.log = NoLog /\ NewCtx.alert = NoAlert /\ NewCtx.warnCount = 0
        /\ NewCtx.state = "IDLE" /\ NewCtx.outBuf = "none"
    BY <1>1, <1>2, <1>3, <1>4 DEF NewCtx, Ctx
  <1>6. /\ d \in Ctx /\ d.log = NoLog /\ d.alert = NoAlert /\ d.warnCount = 0
        /\ d.state = "IDLE" /\ d.outBuf = "none"
    BY <1>5 DEF Ctx
  <1>7. Base(d)
    BY <1>1, <1>2, <1>6 DEF Base, RecordInv, AlertInv
  <1>8. StateInv(d)
    BY <1>1, <1>2, <1>3, <1>6 DEF StateInv, Clean, Live
  <1>9. QED
    BY <1>6, <1>7, <1>8 DEF CtxInv

\* No call has been made.
LEMMA NoCallFacts ==
  ASSUME call = NoCall, ctx.state = "IDLE"
  PROVE  CallInv
  <1>1. NoCall \in [api : APIs, at : Loops, ret : Rets] /\ NoCall.at = "user" /\ NoCall.api = "Connect"
    BY DEF NoCall, APIs, Loops, Rets
  <1>2. QED
    BY <1>1 DEF CallInv

\* HITLS_Clear makes the connection a new one.
LEMMA ClearKeeps ==
  ASSUME IInv, config' = config, HITLS_Clear
  PROVE  IInv'
  <1> DEFINE p == ctx.phaState
             d == [NewCtx EXCEPT !.phaState = p]
  <1>1. p \in PhaStates
    BY DEF IInv, CtxInv, Base, Ctx
  <1>2. ctx' = d /\ call' = NoCall
    BY DEF HITLS_Clear
  <1> HIDE DEF p
  <1>3. CtxInv(d) /\ d.state = "IDLE"
    BY <1>1, NewFacts
  <1> HIDE DEF d
  <1>4. CtxInv(ctx)'
    BY <1>2, <1>3, CtxPrime
  <1>5. call' \in [api : APIs, at : Loops, ret : Rets] /\ call'.at = "user" /\ call'.api = "Connect"
    BY <1>2 DEF NoCall, APIs, Loops, Rets
  <1>6. CallInv'
    BY <1>5 DEF CallInv
  <1>7. QED
    BY <1>4, <1>6 DEF IInv

-------------------------------------------------------------------------------
(* The theorems. *)

\* HITLS_New establishes the invariant.
LEMMA InitInv == Init => IInv
  <1>1. SUFFICES ASSUME Init
                 PROVE  IInv
    OBVIOUS
  <1>2. config \in Config
    BY <1>1, ConfigsAssumption DEF Init
  <1>3. CtxInv(ctx) /\ ctx.state = "IDLE"
    BY <1>1, NewFacts DEF Init, PhaStates
  <1>4. CallInv
    BY <1>1, <1>3, NoCallFacts DEF Init
  <1>5. QED
    BY <1>2, <1>3, <1>4 DEF IInv

\* Every step of the connection keeps the invariant.
LEMMA NextInv == IInv /\ [Next]_vars => IInv'
  <1>1. SUFFICES ASSUME IInv, [Next]_vars
                 PROVE  IInv'
    OBVIOUS
  <1>2. CASE UNCHANGED vars
    BY <1>1, <1>2 DEF vars, IInv, CtxInv, Base, RecordInv, AlertInv, StateInv, Clean, AlertingInv, FatalGone,
                      ClosedInv, CallInv
  <1>3. ASSUME Step, config' = config
        PROVE  IInv'
    <2>1. CASE \E api \in APIs, io \in IO : Call(api, io)
      BY <1>1, <1>3, <2>1, CallKeeps
    <2>2. CASE \E record \in Records, io \in IO : CloseStep(record, io)
      BY <1>1, <1>3, <2>2, CloseStepKeeps
    <2>3. CASE Dispatch
      BY <1>1, <1>3, <2>3, EstablishKeeps, DispatchLoopKeeps, DispatchReturnKeeps DEF Dispatch
    <2>4. CASE Handshake
      <3>1. CASE \E next \in HsNexts, pha \in BOOLEAN : \E io \in BuildOutcomes : HsSend(next, pha, io)
        BY <1>1, <1>3, <3>1, HsSendKeeps
      <3>2. CASE \E next \in HsNexts, pha \in BOOLEAN : \E io \in IO : HsRecv(next, pha, io)
        BY <1>1, <1>3, <3>2, HsRecvKeeps
      <3>3. CASE HsWaits
        BY <1>1, <1>3, <3>3, HsWaitsKeeps
      <3>4. CASE HsDone
        BY <1>1, <1>3, <3>4, HsDoneKeeps
      <3>5. CASE \E io \in IO : HsRejects(io)
        BY <1>1, <1>3, <3>5, HsRejectsKeeps
      <3>6. CASE \E io \in IO : HsApp(io)
        BY <1>1, <1>3, <3>6, HsAppKeeps
      <3>7. CASE \E io \in IO : \E kind \in AlertKinds : HsAlert(kind, io)
        BY <1>1, <1>3, <3>7, HsAlertKeeps
      <3>8. QED
        BY <2>4, <3>1, <3>2, <3>3, <3>4, <3>5, <3>6, <3>7 DEF Handshake, HsNexts
    <2>5. CASE Transport
      <3>1. CASE ReadApp
        BY <1>1, <1>3, <3>1, ReadAppKeeps
      <3>2. CASE ReadNothing
        BY <1>1, <1>3, <3>2, ReadNothingKeeps
      <3>3. CASE \E io \in IO : ReadError(io)
        <4>1. "fatal" \in AlertKinds
          BY DEF AlertKinds
        <4>2. QED
          BY <1>1, <1>3, <3>3, <4>1, ReadAlertKeeps
      <3>4. CASE \E io \in IO : WriteBadRetry(io)
        BY <1>1, <1>3, <3>4, WriteBadRetryKeeps
      <3>5. CASE \E io \in IO : WriteBadRetryInClosedState(io)
        BY <1>1, <1>3, <3>5, WriteBadRetryClosedKeeps
      <3>6. CASE \E io \in IO : \E kind \in AlertKinds : ReadAlert(kind, io)
        BY <1>1, <1>3, <3>6, ReadAlertKeeps
      <3>7. CASE \E io \in IO : \E msg \in HsMsgs : ReadHsMsg(msg, io)
        BY <1>1, <1>3, <3>7, ReadHsMsgKeeps
      <3>8. CASE \E io \in IO : \E record \in Records : ReadEventInClosedState(record, io)
        BY <1>1, <1>3, <3>8, ReadClosedKeeps
      <3>9. CASE \E io \in BuildOutcomes : WriteApp(io)
        BY <1>1, <1>3, <3>9, WriteAppKeeps
      <3>10. CASE \E io \in BuildOutcomes : WriteEventInClosedState(io)
        BY <1>1, <1>3, <3>10, WriteClosedKeeps
      <3>11. QED
        BY <2>5, <3>1, <3>2, <3>3, <3>4, <3>5, <3>6, <3>7, <3>8, <3>9, <3>10 DEF Transport
    <2>6. CASE HITLS_KeyUpdate \/ HITLS_Renegotiate \/ HITLS_VerifyClientPostHandshake
      BY <1>1, <1>3, <2>6, PrepareKeeps
    <2>7. CASE HITLS_Clear
      BY <1>1, <1>3, <2>7, ClearKeeps
    <2>8. CASE \E io \in {"ok", "busy"} : HITLS_Flush(io)
      BY <1>1, <1>3, <2>8, FlushKeeps
    <2>9. QED
      BY <1>3, <2>1, <2>2, <2>3, <2>4, <2>5, <2>6, <2>7, <2>8 DEF Step
  <1>4. QED
    BY <1>1, <1>2, <1>3 DEF Next

\* The invariant implies the properties.
LEMMA InvImplies == IInv => TypeOK /\ CloseIsLast /\ FatalIsFinal /\ FatalIsSent /\ WriteOnce
  <1>1. SUFFICES ASSUME IInv
                 PROVE  TypeOK /\ CloseIsLast /\ FatalIsFinal /\ FatalIsSent /\ WriteOnce
    OBVIOUS
  <1>2. TypeOK
    BY <1>1 DEF IInv, CtxInv, Base, CallInv, TypeOK
  <1>3. CloseIsLast /\ FatalIsFinal
    BY <1>1 DEF IInv, CtxInv, Base, RecordInv, CloseIsLast, FatalIsFinal
  <1>4. FatalIsSent
    BY <1>1 DEF IInv, CtxInv, StateInv, FatalGone, FatalIsSent
  <1>5. WriteOnce
    BY <1>1 DEF IInv, CallInv, WriteOnce
  <1>6. QED
    BY <1>2, <1>3, <1>4, <1>5

\* The invariant holds in every state of every connection.
LEMMA InvAlways == Spec => []IInv
  BY InitInv, NextInv, PTL DEF Spec

\* The 8-bit count of warnings never passes MAX_ALERT_COUNT, whatever the peer
\* sends, and every field keeps its type.
THEOREM TypeTheorem == Spec => []TypeOK
  BY InvAlways, InvImplies, PTL

\* Once a close_notify was built no application data, no handshake message and no
\* second close_notify is, in whatever order calls, retries and records of the
\* peer come: ALERTING protects the gap until SENT is set.
THEOREM CloseIsLastTheorem == Spec => []CloseIsLast
  BY InvAlways, InvImplies, PTL

\* After a fatal alert was raised or received no data is sent or delivered.
THEOREM FatalIsFinalTheorem == Spec => []FatalIsFinal
  BY InvAlways, InvImplies, PTL

\* A fatal alert that ended the connection was given to the transport, however
\* often the transport refused it, if records can be built.
THEOREM FatalIsSentTheorem == Spec => []FatalIsSent
  BY InvAlways, InvImplies, PTL

\* Data that HITLS_Write reported as written was put in exactly one record, unless
\* another function emptied the buffer between the attempts.
THEOREM WriteOnceTheorem == Spec => []WriteOnce
  BY InvAlways, InvImplies, PTL

===============================================================================
