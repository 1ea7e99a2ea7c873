------------------------------- MODULE Tls13 -------------------------------
(***************************************************************************)
(* A TLS 1.3 connection between two endpoints of this library over a       *)
(* stream transport: the full, PSK and HelloRetryRequest handshakes with or*)
(* without client authentication and middlebox compatibility, suspended    *)
(* callbacks, a busy transport, and what follows on an established         *)
(* connection: tickets, KeyUpdate and post-handshake authentication.       *)
(* tls/handshake (send, recv, sm, common/src/tls13key.c), tls/ccs,         *)
(* tls/cm/src/conn_read.c and conn_establish.c.                            *)
(*                                                                         *)
(* A step is one handler: one message sent, or one record read and         *)
(* processed.  Secrets are names, transcripts sequences of message names.  *)
(***************************************************************************)
EXTENDS Naturals, Sequences, FiniteSets

CONSTANT
  Modes        \* configurations of the two ends and the bounds that go with them

KeModes == {"PSK_ONLY", "PSK_WITH_DHE"}

(* share: the first ClientHello has a key share of the server's group;     *)
(* psk: what the client offers; keModes: the configured keyExchMode;       *)
(* compat: isMiddleBoxCompat; verify and noClientCert: isSupportClientVerify*)
(* and isSupportNoClientCert; pha: isSupportPostHandshakeAuth; cert: the   *)
(* client has a certificate; ticketNums: tickets after a handshake.        *)
(* max bounds the environment: callbacks that ask to be called again,      *)
(* writes that the transport does not take at once, calls of               *)
(* HITLS_KeyUpdate and of HITLS_VerifyClientPostHandshake, records of      *)
(* application data.                                                       *)
Budget == {"suspend", "busy", "update", "pha", "app"}

Configurations ==
  [share : BOOLEAN, psk : {"none", "unknown", "external", "ticket"},
   keModes : [client : SUBSET KeModes, server : SUBSET KeModes],
   compat : [client : BOOLEAN, server : BOOLEAN], verify : BOOLEAN, noClientCert : BOOLEAN,
   pha : [client : BOOLEAN, server : BOOLEAN], cert : BOOLEAN, ticketNums : Nat,
   max : [Budget -> Nat]]

ASSUME Tls13Assumption == Modes \subseteq Configurations

VARIABLES
  mode,     \* the configuration
  ends,     \* state of the two ends
  chan,     \* records that an end has not read yet
  issued,   \* nonces of the tickets issued
  budget    \* suspensions, busy writes and calls of the applications so far

vars == <<mode, ends, chan, issued, budget>>
Ends == {"client", "server"}
Peer(p) == CHOOSE q \in Ends : q # p
None == [type |-> "NONE"]

-----------------------------------------------------------------------------
(* State of an end: hsCtx, made by HS_Init for every handshake and freed by*)
(* HS_DeInit, and the fields of the connection that outlive it.            *)

Plain == [secret |-> "none", gen |-> 0]
HsKey(p) == [secret |-> IF p = "client" THEN "clientHs" ELSE "serverHs", gen |-> 0]
AppKey(p, gen) == [secret |-> IF p = "client" THEN "clientApp" ELSE "serverApp", gen |-> gen]

\* msg: a message whose processing is suspended; packed: msgLen is not 0.
HS_Init(state) ==
  [state |-> state, readSubState |-> "A", msg |-> None, packed |-> FALSE, haveHrr |-> FALSE,
   isNeedClientCert |-> FALSE, ccsNextState |-> "TLS_IDLE", psk |-> FALSE, peerPubkey |-> FALSE,
   sentTickets |-> 0, nextTicketNonce |-> 0, hashCtx |-> <<>>, verifyData |-> [hash |-> <<>>, key |-> Plain]]

\* internalException and retryLost are history: UpdateServerBaseKeyExMode failed; isNeedSendHrr was set and lost.
NewEnd(p) ==
  [isClient |-> p = "client", conn |-> "handshaking",
   hs |-> HS_Init(IF p = "client" THEN "TRY_SEND_CLIENT_HELLO" ELSE "TRY_RECV_CLIENT_HELLO"),
   write |-> Plain, read |-> Plain, installed |-> [write |-> <<>>, read |-> <<>>], gen |-> [client |-> 0, server |-> 0],
   isReady |-> FALSE, phaState |-> "PHA_NONE", phaHash |-> <<>>, phaCurHash |-> <<>>,
   certificateReqCtx |-> 0, keyUpdateType |-> "REQ_END", keyExMode |-> {}, isResume |-> FALSE,
   peerCert |-> FALSE, internalException |-> FALSE, retryLost |-> FALSE]

Me(h) == IF h.isClient THEN "client" ELSE "server"
You(h) == IF h.isClient THEN "server" ELSE "client"

\* A handler works on e = [h, out]: the end and the records it has written.
On(h) == [h |-> h, out |-> <<>>]
Then(e, h) == [e EXCEPT !.h = h]
Write(e, type, data) == [e EXCEPT !.out = Append(@, [type |-> type, data |-> data, key |-> e.h.write])]

ChangeState(h, state) == [h EXCEPT !.hs.state = state]

\* The alert is sent with the keys of the moment and the connection is over.
Fatal(e) == Then(Write(e, "ALERT", 0), [e.h EXCEPT !.conn = "alerted"])

\* The handshake is over: HS_DeInit.
Connected(h) == [h EXCEPT !.conn = "transporting", !.hs = HS_Init("TLS_CONNECTED")]

\* HS_SwitchTrafficKey; installed records the keys of each direction, whose sequence numbers start at 0.
SwitchWrite(h, key) == [h EXCEPT !.write = key, !.installed.write = Append(@, key)]
SwitchRead(h, key) == [h EXCEPT !.read = key, !.installed.read = Append(@, key)]

\* HS_TLS13UpdateTrafficSecret: the next secret of the end's own or the peer's direction.
UpdateTrafficSecret(h, isOut) ==
  LET p == IF isOut THEN Me(h) ELSE You(h)
      key == AppKey(p, h.gen[p] + 1)
      g == [h EXCEPT !.gen[p] = @ + 1] IN
  IF isOut THEN SwitchWrite(g, key) ELSE SwitchRead(g, key)

\* VERIFY_Append: every message sent, and those received that are part of the transcript.
VERIFY_Append(h, type) == [h EXCEPT !.hs.hashCtx = Append(@, type)]
Hashed(type) == type \notin {"KEY_UPDATE", "NEW_SESSION_TICKET"}

\* HS_SendMsg when the transport takes the message.
Send(e, type, data) ==
  LET w == Write(e, type, data) IN
  Then(w, [VERIFY_Append(w.h, type) EXCEPT !.hs.packed = FALSE])

\* VERIFY_HelloRetryRequestVerifyProcess.
HrrTranscript(h) == [h EXCEPT !.hs.hashCtx = <<"message_hash", "HELLO_RETRY_REQUEST">>]

\* VERIFY_Tls13CalcVerifyData: the Finished of end p covers the transcript under its base key.
GetBaseKey(h, p) == IF h.phaState = "PHA_REQUESTED" THEN AppKey(p, h.gen[p]) ELSE HsKey(p)
VerifyData(h, p) == [hash |-> h.hs.hashCtx, key |-> GetBaseKey(h, p)]
CalcVerifyData(h) == [h EXCEPT !.hs.verifyData = VerifyData(h, You(h))]

-----------------------------------------------------------------------------
(* Sending.  Prepare is what a handler does once, while no message is      *)
(* packed; Complete is the rest, after the transport has taken the message.*)

\* CCS_Send.
SendCcs(e) == Write(e, "CCS", 0)
CcsIf(e, cond) == IF cond THEN SendCcs(e) ELSE e

\* VERIFY_CalcPskBinder: the binder of a resumption or of an external PSK covers what precedes the ClientHello.
CalcPskBinder(hash) == [external |-> mode.psk # "ticket", hash |-> hash]

\* Tls13ClientHelloPrepare and the extensions of Tls13ClientSendClientHelloProcess.
PrepareClientHello(e) ==
  LET h == [e.h EXCEPT
             !.keyExMode = {"CERT_AUTH_WITH_DHE"} \cup (IF mode.psk = "none" THEN {} ELSE mode.keModes.client),
             !.phaState = IF mode.pha.client /\ @ = "PHA_NONE" THEN "PHA_EXTENSION" ELSE @] IN
  Then(CcsIf(e, e.h.hs.haveHrr /\ mode.compat.client), h)

ClientSendClientHello(e) ==
  LET hello == [share |-> mode.share \/ e.h.hs.haveHrr, binder |-> CalcPskBinder(e.h.hs.hashCtx)]
      sent == Send(Then(e, [e.h EXCEPT !.isReady = TRUE]), "CLIENT_HELLO", hello) IN
  Then(sent, ChangeState(sent.h, "TRY_RECV_SERVER_HELLO"))

\* Mutant: the state after the ChangeCipherSpec is that of a ServerHello.
ServerSendHelloRetryRequestNext(e) ==
  LET sent == Send(e, "HELLO_RETRY_REQUEST", 0) IN
  Then(sent, [ChangeState(HrrTranscript(sent.h), "TRY_SEND_CHANGE_CIPHER_SPEC") EXCEPT
                !.isReady = TRUE, !.hs.ccsNextState = "TRY_SEND_ENCRYPTED_EXTENSIONS"])

\* Tls13ServerSendHelloRetryRequestProcess.
PrepareHrr(e) == Then(e, [e.h EXCEPT !.hs.haveHrr = TRUE])

ServerSendHelloRetryRequest(e) ==
  LET sent == Send(e, "HELLO_RETRY_REQUEST", 0)
      h == HrrTranscript(sent.h) IN
  Then(sent, IF mode.compat.server
             THEN [ChangeState(h, "TRY_SEND_CHANGE_CIPHER_SPEC") EXCEPT
                     !.isReady = TRUE, !.hs.ccsNextState = "TRY_RECV_CLIENT_HELLO"]
             ELSE ChangeState(h, "TRY_RECV_CLIENT_HELLO"))

\* Tls13ServerSendServerHelloProcess.
ServerSendServerHello(e) ==
  LET sent == Send(e, "SERVER_HELLO", [psk |-> e.h.hs.psk, share |-> e.h.hs.peerPubkey]) IN
  Then(sent, IF mode.compat.server /\ ~e.h.hs.haveHrr
             THEN [ChangeState(sent.h, "TRY_SEND_CHANGE_CIPHER_SPEC") EXCEPT
                     !.hs.ccsNextState = "TRY_SEND_ENCRYPTED_EXTENSIONS"]
             ELSE ChangeState(sent.h, "TRY_SEND_ENCRYPTED_EXTENSIONS"))

\* Tls13SendChangeCipherSpecProcess.
SendChangeCipherSpec(e) == Then(SendCcs(e), ChangeState(e.h, e.h.hs.ccsNextState))

\* Tls13ServerSendEncryptedExtensionsProcess.
PrepareEncryptedExtensions(e) == Then(e, SwitchWrite(e.h, HsKey("server")))

ServerSendEncryptedExtensions(e) ==
  LET sent == Send(e, "ENCRYPTED_EXTENSIONS", 0)
      inHandshake == mode.verify /\ (e.h.phaState # "PHA_EXTENSION" \/ ~mode.pha.server) IN
  Then(sent, ChangeState(sent.h, IF e.h.hs.psk THEN "TRY_SEND_FINISH"
                                 ELSE IF inHandshake THEN "TRY_SEND_CERTIFICATE_REQUEST" ELSE "TRY_SEND_CERTIFICATE"))

\* Tls13ServerSendCertRequestProcess: a fresh context for an authentication after the handshake.
PrepareCertRequest(e) ==
  Then(e, IF e.h.phaState = "PHA_PENDING" THEN [e.h EXCEPT !.certificateReqCtx = @ + 1] ELSE e.h)

ServerSendCertRequest(e) ==
  LET pending == e.h.phaState = "PHA_PENDING"
      sent == Send(e, "CERTIFICATE_REQUEST", e.h.certificateReqCtx)
      h == [sent.h EXCEPT !.hs.isNeedClientCert = TRUE] IN
  Then(sent, IF pending THEN Connected([h EXCEPT !.phaState = "PHA_REQUESTED", !.phaCurHash = h.hs.hashCtx])
             ELSE ChangeState(h, "TRY_SEND_CERTIFICATE"))

\* Tls13ClientSendCertificateProcess.
PrepareClientCertificate(e) ==
  LET first == e.h.phaState # "PHA_REQUESTED"
      c == CcsIf(e, mode.compat.client /\ ~e.h.hs.haveHrr /\ first) IN
  IF first THEN Then(c, SwitchWrite(c.h, HsKey("client"))) ELSE c

ClientSendCertificate(e) ==
  LET sent == Send(e, "CERTIFICATE", [certs |-> mode.cert, ctx |-> e.h.certificateReqCtx]) IN
  Then(sent, ChangeState(sent.h, IF mode.cert THEN "TRY_SEND_CERTIFICATE_VERIFY" ELSE "TRY_SEND_FINISH"))

\* Tls13ServerSendCertificateProcess: the server has a certificate.
ServerSendCertificate(e) ==
  LET sent == Send(e, "CERTIFICATE", [certs |-> TRUE, ctx |-> e.h.certificateReqCtx]) IN
  Then(sent, ChangeState(sent.h, "TRY_SEND_CERTIFICATE_VERIFY"))

\* Tls13SendCertVerifyProcess: the signature covers the transcript.
SendCertVerify(e) ==
  LET sent == Send(e, "CERTIFICATE_VERIFY", e.h.hs.hashCtx) IN
  Then(sent, ChangeState(sent.h, "TRY_SEND_FINISH"))

\* Tls13ClientSendFinishedProcess and Tls13ClientSendFinishPostProcess.
PrepareClientFinished(e) ==
  LET c == CcsIf(e, mode.compat.client /\ ~e.h.hs.haveHrr /\ ~e.h.hs.isNeedClientCert) IN
  IF ~e.h.hs.isNeedClientCert /\ e.h.phaState # "PHA_REQUESTED"
  THEN Then(c, SwitchWrite(c.h, HsKey("client"))) ELSE c

ClientSendFinished(e) ==
  LET sent == Send(e, "FINISHED", VerifyData(e.h, Me(e.h)))
      h == sent.h IN
  Then(sent, Connected(
    IF h.phaState = "PHA_REQUESTED" THEN [h EXCEPT !.phaState = "PHA_EXTENSION"]
    ELSE [SwitchWrite(h, AppKey("client", h.gen.client)) EXCEPT
            !.phaHash = IF h.phaState = "PHA_EXTENSION" /\ mode.pha.client THEN h.hs.hashCtx ELSE @]))

\* Tls13ServerSendFinishedProcess.
ServerSendFinished(e) ==
  LET sent == Send(e, "FINISHED", VerifyData(e.h, Me(e.h)))
      h == SwitchWrite(SwitchRead(sent.h, HsKey("client")), AppKey("server", e.h.gen.server)) IN
  Then(sent, IF h.hs.isNeedClientCert THEN ChangeState(h, "TRY_RECV_CERTIFICATE")
             ELSE ChangeState(CalcVerifyData(h), "TRY_RECV_FINISH"))

\* Tls13SendNewSessionTicketProcess.
SendNewSessionTicket(e) ==
  LET sent == Send(e, "NEW_SESSION_TICKET", e.h.hs.nextTicketNonce)
      h == [sent.h EXCEPT !.hs.sentTickets = @ + 1, !.hs.nextTicketNonce = @ + 1] IN
  Then(sent, IF h.hs.sentTickets >= mode.ticketNums \/ h.isResume THEN Connected(h)
             ELSE ChangeState(h, "TRY_SEND_NEW_SESSION_TICKET"))

\* Tls13SendKeyUpdateProcess.
SendKeyUpdate(e) ==
  LET sent == Send(e, "KEY_UPDATE", e.h.keyUpdateType) IN
  Then(sent, Connected([UpdateTrafficSecret(sent.h, TRUE) EXCEPT !.keyUpdateType = "REQ_END"]))

\* Tls13ProcessSendHandshakeMsg, before and after the message is packed.
Prepare(e) ==
  LET s == e.h.hs.state IN
  CASE s = "TRY_SEND_CLIENT_HELLO" -> PrepareClientHello(e)
    [] s = "TRY_SEND_HELLO_RETRY_REQUEST" -> PrepareHrr(e)
    [] s = "TRY_SEND_ENCRYPTED_EXTENSIONS" -> PrepareEncryptedExtensions(e)
    [] s = "TRY_SEND_CERTIFICATE_REQUEST" -> PrepareCertRequest(e)
    [] s = "TRY_SEND_CERTIFICATE" /\ e.h.isClient -> PrepareClientCertificate(e)
    [] s = "TRY_SEND_FINISH" /\ e.h.isClient -> PrepareClientFinished(e)
    [] OTHER -> e

\* Mutant: what precedes the message is done again when the handler is called again.
PackedAgain(e) == LET r == Prepare(e) IN Then(r, [r.h EXCEPT !.hs.packed = TRUE])

Packed(e) == LET r == Prepare(e) IN IF e.h.hs.packed THEN e ELSE Then(r, [r.h EXCEPT !.hs.packed = TRUE])

Complete(e) ==
  LET s == e.h.hs.state IN
  CASE s = "TRY_SEND_CLIENT_HELLO" -> ClientSendClientHello(e)
    [] s = "TRY_SEND_HELLO_RETRY_REQUEST" -> ServerSendHelloRetryRequest(e)
    [] s = "TRY_SEND_SERVER_HELLO" -> ServerSendServerHello(e)
    [] s = "TRY_SEND_ENCRYPTED_EXTENSIONS" -> ServerSendEncryptedExtensions(e)
    [] s = "TRY_SEND_CERTIFICATE_REQUEST" -> ServerSendCertRequest(e)
    [] s = "TRY_SEND_CERTIFICATE" -> IF e.h.isClient THEN ClientSendCertificate(e) ELSE ServerSendCertificate(e)
    [] s = "TRY_SEND_CERTIFICATE_VERIFY" -> SendCertVerify(e)
    [] s = "TRY_SEND_FINISH" -> IF e.h.isClient THEN ClientSendFinished(e) ELSE ServerSendFinished(e)
    [] s = "TRY_SEND_NEW_SESSION_TICKET" -> SendNewSessionTicket(e)
    [] s = "TRY_SEND_KEY_UPDATE" -> SendKeyUpdate(e)

-----------------------------------------------------------------------------
(* Receiving.  A handler returns with the message kept in hs.msg when the  *)
(* application's callback asks to be called again: retry names it.         *)

Suspend(e, m) == Then(e, [e.h EXCEPT !.hs.msg = m])

\* Mutant: with a PSK the key share is not used.
UseShareUnlessPsk(psk) == ~psk

\* Tls13ServerCheckClientHello: the PSK and its binder, the key share, and whether a retry is needed.
SelectPsk == mode.psk \in {"external", "ticket"} /\ mode.keModes.client \cap mode.keModes.server # {}
UseShare(psk) == ~psk \/ "PSK_WITH_DHE" \in mode.keModes.client \cap mode.keModes.server

\* CompareBinder; the ClientHello is the last message of the transcript already.
BinderWrong(h, m) == SelectPsk /\ m.data.binder # CalcPskBinder(SubSeq(h.hs.hashCtx, 1, Len(h.hs.hashCtx) - 1))

CheckClientHello(h, m) ==
  [h EXCEPT !.hs.readSubState = "B", !.hs.psk = SelectPsk,
            !.isResume = SelectPsk /\ mode.psk = "ticket",
            !.hs.peerPubkey = UseShare(SelectPsk) /\ m.data.share]

NeedsHrr(m) == UseShare(SelectPsk) /\ ~m.data.share

\* UpdateServerBaseKeyExMode.
BaseKeyExMode(h) ==
  IF h.hs.psk THEN IF h.hs.peerPubkey THEN {"PSK_WITH_DHE"} ELSE {"PSK_ONLY"}
  ELSE IF h.hs.peerPubkey THEN {"CERT_AUTH_WITH_DHE"} ELSE {}

\* Tls13ServerProcessClientHello.  isNeedSendHrr is a local variable that only sub-state A sets.
ServerPostClientHello(e, m, isNeedSendHrr) ==
  LET h == e.h
      pha == IF h.phaState = "PHA_NONE" /\ mode.verify /\ mode.pha.client THEN "PHA_EXTENSION" ELSE h.phaState IN
  IF isNeedSendHrr THEN Then(e, ChangeState(h, "TRY_SEND_HELLO_RETRY_REQUEST"))
  ELSE IF BaseKeyExMode(h) = {} THEN Suspend(Then(e, [h EXCEPT !.internalException = TRUE]), m)
  ELSE Then(e, [ChangeState(h, "TRY_SEND_SERVER_HELLO") EXCEPT !.keyExMode = BaseKeyExMode(h), !.phaState = pha])

\* Tls13ServerRecvClientHelloProcess.
ServerRecvClientHello(e, m, retry) ==
  LET first == e.h.hs.readSubState = "A"
      h == [e.h EXCEPT !.isReady = TRUE]
      checked == IF first THEN CheckClientHello(h, m) ELSE h
      isNeedSendHrr == first /\ NeedsHrr(m) IN
  IF first /\ retry = "hello" THEN Suspend(e, m)
  ELSE IF first /\ BinderWrong(h, m) THEN Fatal(Then(e, h))
  ELSE IF retry = "cert" THEN Suspend(Then(e, [checked EXCEPT !.retryLost = @ \/ isNeedSendHrr]), m)
  ELSE ServerPostClientHello(Then(e, checked), m, isNeedSendHrr)

\* Tls13ClientRecvHelloRetryRequestProcess.
ClientRecvHelloRetryRequest(e) ==
  IF e.h.hs.haveHrr THEN Fatal(e)
  ELSE Then(e, ChangeState(HrrTranscript([e.h EXCEPT !.hs.haveHrr = TRUE]), "TRY_SEND_CLIENT_HELLO"))

\* Tls13ProcessServerHello: GetServertls13AuthType must be one of the modes offered.
ClientRecvServerHello(e, m) ==
  LET auth == IF m.data.psk THEN IF m.data.share THEN {"PSK_WITH_DHE"} ELSE {"PSK_ONLY"}
              ELSE IF m.data.share THEN {"CERT_AUTH_WITH_DHE"} ELSE {}
      h == [e.h EXCEPT !.keyExMode = @ \cap auth, !.hs.psk = m.data.psk, !.hs.peerPubkey = m.data.share,
                       !.isResume = m.data.psk /\ mode.psk = "ticket"] IN
  IF h.keyExMode = {} THEN Fatal(e)
  ELSE Then(e, ChangeState(SwitchRead(h, HsKey("server")), "TRY_RECV_ENCRYPTED_EXTENSIONS"))

\* Tls13ClientRecvEncryptedExtensionsProcess.
ClientRecvEncryptedExtensions(e) ==
  Then(e, IF e.h.hs.psk THEN ChangeState(CalcVerifyData(e.h), "TRY_RECV_FINISH")
          ELSE ChangeState(e.h, "TRY_RECV_CERTIFICATE_REQUEST"))

\* Tls13ClientRecvCertRequestProcess.
ClientRecvCertRequest(e, m, retry) ==
  LET first == e.h.hs.readSubState = "A"
      pha == e.h.phaState = "PHA_REQUESTED"
      h == IF first
           THEN [e.h EXCEPT !.hs.readSubState = "B", !.hs.isNeedClientCert = TRUE,
                            !.certificateReqCtx = IF m.data # 0 THEN m.data ELSE @]
           ELSE e.h IN
  IF first /\ (pha # (m.data # 0)) THEN Fatal(e)
  ELSE IF pha /\ retry = "cert" THEN Suspend(Then(e, h), m)
  ELSE Then(e, ChangeState(h, IF pha THEN "TRY_SEND_CERTIFICATE" ELSE "TRY_RECV_CERTIFICATE"))

\* Mutant: isSupportNoClientCert is not consulted.
RecvCertificateEmpty(e, m) ==
  LET h == e.h IN
  Then(e, IF m.data.certs THEN [ChangeState(h, "TRY_RECV_CERTIFICATE_VERIFY") EXCEPT !.peerCert = TRUE]
          ELSE ChangeState(CalcVerifyData(h), "TRY_RECV_FINISH"))

\* Tls13RecvCertificateProcess, CertificateReqCtxCheck and ProcessEmptyCert.
RecvCertificate(e, m) ==
  LET h == e.h
      badCtx == \/ h.phaState # "PHA_REQUESTED" /\ m.data.ctx # 0
                \/ h.certificateReqCtx # 0 /\ h.certificateReqCtx # m.data.ctx IN
  IF badCtx THEN Fatal(e)
  ELSE IF m.data.certs THEN Then(e, [ChangeState(h, "TRY_RECV_CERTIFICATE_VERIFY") EXCEPT !.peerCert = TRUE])
  ELSE IF ~h.isClient /\ mode.verify /\ mode.noClientCert
       THEN Then(e, ChangeState(CalcVerifyData(h), "TRY_RECV_FINISH"))
  ELSE Fatal(e)

\* Mutant: the verify data is computed after the callback, in the first sub-state only.
RecvCertVerifyLate(e, m, retry) ==
  LET first == e.h.hs.readSubState = "A"
      h == [e.h EXCEPT !.hs.readSubState = "B"] IN
  IF h.isClient /\ h.hs.isNeedClientCert /\ retry = "cert" THEN Suspend(Then(e, h), m)
  ELSE Then(e, ChangeState(IF first THEN CalcVerifyData(h) ELSE h, "TRY_RECV_FINISH"))

\* Tls13RecvCertVerifyProcess; the parser has checked the signature over the transcript before it.
RecvCertVerify(e, m, retry) ==
  LET first == e.h.hs.readSubState = "A"
      h == IF first THEN [CalcVerifyData(e.h) EXCEPT !.hs.readSubState = "B"] ELSE e.h IN
  IF h.isClient /\ h.hs.isNeedClientCert /\ retry = "cert" THEN Suspend(Then(e, h), m)
  ELSE Then(e, ChangeState(h, "TRY_RECV_FINISH"))

\* Tls13ClientRecvFinishedProcess.
ClientRecvFinished(e, m) ==
  LET h == SwitchRead(e.h, AppKey("server", e.h.gen.server)) IN
  IF m.data # e.h.hs.verifyData THEN Fatal(e)
  ELSE Then(e, ChangeState(h, IF h.hs.isNeedClientCert THEN "TRY_SEND_CERTIFICATE" ELSE "TRY_SEND_FINISH"))

\* Mutant: phaState stays PHA_REQUESTED.
ServerRecvFinishedPha(e, m) ==
  LET q == [e.h EXCEPT !.isReady = FALSE]
      h == IF q.phaState = "PHA_REQUESTED" THEN q
           ELSE [SwitchRead(q, AppKey("client", q.gen.client)) EXCEPT
                   !.phaHash = IF q.phaState = "PHA_EXTENSION" /\ mode.verify THEN q.hs.hashCtx ELSE @] IN
  IF m.data # e.h.hs.verifyData THEN Fatal(Then(e, q))
  ELSE Then(e, IF h.hs.sentTickets < mode.ticketNums THEN ChangeState(h, "TRY_SEND_NEW_SESSION_TICKET")
               ELSE Connected(h))

\* Tls13ServerRecvFinishedProcess.
ServerRecvFinished(e, m) ==
  LET q == [e.h EXCEPT !.isReady = FALSE]
      h == IF q.phaState = "PHA_REQUESTED" THEN [q EXCEPT !.phaState = "PHA_EXTENSION"]
           ELSE [SwitchRead(q, AppKey("client", q.gen.client)) EXCEPT
                   !.phaHash = IF q.phaState = "PHA_EXTENSION" /\ mode.verify THEN q.hs.hashCtx ELSE @] IN
  IF m.data # e.h.hs.verifyData THEN Fatal(Then(e, q))
  ELSE Then(e, IF h.hs.sentTickets < mode.ticketNums THEN ChangeState(h, "TRY_SEND_NEW_SESSION_TICKET")
               ELSE Connected(h))

\* Tls13RecvKeyUpdateProcess.
RecvKeyUpdate(e, m) ==
  LET h == UpdateTrafficSecret(e.h, FALSE) IN
  Then(e, IF m.data = "REQUESTED" THEN ChangeState([h EXCEPT !.keyUpdateType = "NOT_REQUESTED"], "TRY_SEND_KEY_UPDATE")
          ELSE Connected(h))

\* g_checkHsMsgTypeList: the message each state waits for.
Expected ==
  [TRY_RECV_CLIENT_HELLO |-> {"CLIENT_HELLO"}, TRY_RECV_SERVER_HELLO |-> {"SERVER_HELLO", "HELLO_RETRY_REQUEST"},
   TRY_RECV_ENCRYPTED_EXTENSIONS |-> {"ENCRYPTED_EXTENSIONS"},
   TRY_RECV_CERTIFICATE_REQUEST |-> {"CERTIFICATE_REQUEST", "CERTIFICATE"}, TRY_RECV_CERTIFICATE |-> {"CERTIFICATE"},
   TRY_RECV_CERTIFICATE_VERIFY |-> {"CERTIFICATE_VERIFY"}, TRY_RECV_FINISH |-> {"FINISHED"},
   TRY_RECV_KEY_UPDATE |-> {"KEY_UPDATE"}, TRY_RECV_NEW_SESSION_TICKET |-> {"NEW_SESSION_TICKET"}]
RecvStates == DOMAIN Expected

\* CheckHsMsgType and the check of the signature, then VERIFY_Append: ReadThenParseTlsHsMsg.
Unexpected(h, m) ==
  \/ m.type \notin Expected[h.hs.state]
  \/ m.type = "CERTIFICATE_VERIFY" /\ m.data # h.hs.hashCtx

ParseHsMsg(h, m) ==
  LET skipped == IF h.hs.state = "TRY_RECV_CERTIFICATE_REQUEST" /\ m.type = "CERTIFICATE"
                 THEN ChangeState(h, "TRY_RECV_CERTIFICATE") ELSE h IN
  [(IF Hashed(m.type) THEN VERIFY_Append(skipped, m.type) ELSE skipped) EXCEPT !.hs.readSubState = "A"]

\* Tls13ProcessReceivedHandshakeMsg and CheckHsMsg: the message is kept only if its handler did not succeed.
ProcessHsMsg(h0, m, retry) ==
  LET e == On([h0 EXCEPT !.hs.msg = None])
      s == h0.hs.state IN
  CASE s = "TRY_RECV_CLIENT_HELLO" -> ServerRecvClientHello(e, m, retry)
    [] s = "TRY_RECV_SERVER_HELLO" ->
         IF m.type = "HELLO_RETRY_REQUEST" THEN ClientRecvHelloRetryRequest(e) ELSE ClientRecvServerHello(e, m)
    [] s = "TRY_RECV_ENCRYPTED_EXTENSIONS" -> ClientRecvEncryptedExtensions(e)
    [] s = "TRY_RECV_CERTIFICATE_REQUEST" -> ClientRecvCertRequest(e, m, retry)
    [] s = "TRY_RECV_CERTIFICATE" -> RecvCertificate(e, m)
    [] s = "TRY_RECV_CERTIFICATE_VERIFY" -> RecvCertVerify(e, m, retry)
    [] s = "TRY_RECV_FINISH" -> IF e.h.isClient THEN ClientRecvFinished(e, m) ELSE ServerRecvFinished(e, m)
    [] s = "TRY_RECV_KEY_UPDATE" -> RecvKeyUpdate(e, m)
    [] s = "TRY_RECV_NEW_SESSION_TICKET" -> Then(e, Connected(e.h))   \* Tls13ClientRecvNewSessionTicketProcess

\* PreprocessUnexpectHsMsg: a handshake message on an established connection starts a new hsCtx.
Reopen(h, state, hash) ==
  [h EXCEPT !.conn = "handshaking", !.hs = [HS_Init(state) EXCEPT !.hashCtx = hash]]

Acceptable(h, m) ==
  \/ m.type = "KEY_UPDATE"
  \/ m.type = "CERTIFICATE_REQUEST" /\ h.isClient /\ h.phaState = "PHA_EXTENSION"
  \/ m.type = "CERTIFICATE" /\ ~h.isClient /\ h.phaState = "PHA_REQUESTED"
  \/ m.type = "NEW_SESSION_TICKET" /\ h.isClient

PreprocessHsMsg(h, m) ==
  CASE m.type = "KEY_UPDATE" -> Reopen(h, "TRY_RECV_KEY_UPDATE", <<>>)
    [] m.type = "CERTIFICATE_REQUEST" ->
         Reopen([h EXCEPT !.phaState = "PHA_REQUESTED"], "TRY_RECV_CERTIFICATE_REQUEST", h.phaHash)
    [] m.type = "CERTIFICATE" -> Reopen([h EXCEPT !.phaCurHash = <<>>], "TRY_RECV_CERTIFICATE", h.phaCurHash)
    [] m.type = "NEW_SESSION_TICKET" -> Reopen(h, "TRY_RECV_NEW_SESSION_TICKET", <<>>)

RecvHsMsg(h, m, retry) ==
  LET opened == IF h.conn = "transporting" THEN PreprocessHsMsg(h, m) ELSE h IN
  IF h.conn = "transporting" /\ ~Acceptable(h, m) THEN Fatal(On(h))
  ELSE IF Unexpected(opened, m) THEN Fatal(On(opened))
  ELSE ProcessHsMsg(ParseHsMsg(opened, m), m, retry)

\* ProcessPlainCCS and ProcessDecryptedCCS.
RecvCcs(h, r) == IF h.isReady /\ r.key = Plain THEN On(h) ELSE Fatal(On(h))

\* The record layer opens the record with the current read key, then the record goes to its module.
RecvRecord(h, r, retry) ==
  CASE r.type = "CCS" -> RecvCcs(h, r)
    [] r.type # "CCS" /\ r.key # h.read -> Fatal(On(h))
    [] r.key = h.read /\ r.type = "ALERT" -> On([h EXCEPT !.conn = "alerted"])
    [] r.key = h.read /\ r.type = "APP" -> IF h.conn = "transporting" THEN On(h) ELSE Fatal(On(h))
    [] r.type \notin {"CCS", "ALERT", "APP"} /\ r.key = h.read -> RecvHsMsg(h, r, retry)

-----------------------------------------------------------------------------
(* Steps.                                                                  *)

Sending(h) == h.conn = "handshaking" /\ h.hs.state \notin RecvStates
Reading(h) == h.conn = "transporting" \/ (h.conn = "handshaking" /\ h.hs.state \in RecvStates /\ h.hs.msg = None)

Spend(what) == budget' = [budget EXCEPT ![what] = @ + 1]

Nonces(out) ==
  LET tickets == SelectSeq(out, LAMBDA r : r.type = "NEW_SESSION_TICKET") IN [i \in DOMAIN tickets |-> tickets[i].data]

\* The records that end p has written reach its peer in order.
Result(p, e) ==
  /\ ends' = [ends EXCEPT ![p] = e.h]
  /\ issued' = issued \o Nonces(e.out)
  /\ UNCHANGED mode

\* HS_SendMsgProcess when the transport takes the message.
SendMsg(p) ==
  LET h == ends[p]
      e == IF h.hs.state = "TRY_SEND_CHANGE_CIPHER_SPEC" THEN SendChangeCipherSpec(On(h)) ELSE Complete(Packed(On(h))) IN
  /\ Sending(h)
  /\ Result(p, e)
  /\ chan' = [chan EXCEPT ![Peer(p)] = @ \o e.out]
  /\ UNCHANGED budget

\* HS_SendMsg returns HITLS_REC_NORMAL_IO_BUSY: the message stays packed.
SendBusy(p) ==
  LET h == ends[p]
      e == Packed(On(h)) IN
  /\ Sending(h) /\ h.hs.state # "TRY_SEND_CHANGE_CIPHER_SPEC" /\ ~h.hs.packed
  /\ budget.busy < mode.max.busy /\ Spend("busy")
  /\ Result(p, e)
  /\ chan' = [chan EXCEPT ![Peer(p)] = @ \o e.out]

Retries == {"none", "hello", "cert"}
Callback(retry, e) ==
  IF retry = "none" THEN UNCHANGED budget
  ELSE budget.suspend < mode.max.suspend /\ e.h.hs.msg # None /\ Spend("suspend")

\* HITLS_Connect, HITLS_Accept or HITLS_Read reads a record.
Recv(p) ==
  \E retry \in Retries :
    LET e == RecvRecord(ends[p], Head(chan[p]), retry) IN
    /\ Reading(ends[p]) /\ chan[p] # <<>>
    /\ Callback(retry, e)
    /\ Result(p, e)
    /\ chan' = [chan EXCEPT ![p] = Tail(@), ![Peer(p)] = @ \o e.out]

\* The next call after a callback asked to be called again: Tls13TryRecvHandShakeMsg takes the kept message.
Resume(p) ==
  \E retry \in Retries :
    LET h == ends[p]
        e == ProcessHsMsg(h, h.hs.msg, retry) IN
    /\ h.conn = "handshaking" /\ h.hs.msg # None
    /\ Callback(retry, e)
    /\ Result(p, e)
    /\ chan' = [chan EXCEPT ![Peer(p)] = @ \o e.out]

\* HITLS_KeyUpdate.
KeyUpdate(p) ==
  /\ ends[p].conn = "transporting" /\ budget.update < mode.max.update
  /\ \E type \in {"REQUESTED", "NOT_REQUESTED"} :
       ends' = [ends EXCEPT ![p] = Reopen([@ EXCEPT !.keyUpdateType = type], "TRY_SEND_KEY_UPDATE", <<>>)]
  /\ Spend("update")
  /\ UNCHANGED <<mode, chan, issued>>

\* HITLS_VerifyClientPostHandshake.
VerifyClientPostHandshake ==
  /\ ends.server.conn = "transporting" /\ ends.server.phaState = "PHA_EXTENSION" /\ budget.pha < mode.max.pha
  /\ ends' = [ends EXCEPT !.server.phaState = "PHA_PENDING"]
  /\ Spend("pha")
  /\ UNCHANGED <<mode, chan, issued>>

\* CommonCheckPostHandshakeAuth, the first thing the server's next HITLS_Write does.
CheckPostHandshakeAuth ==
  /\ ends.server.conn = "transporting" /\ ends.server.phaState = "PHA_PENDING"
  /\ ends' = [ends EXCEPT !.server = Reopen(@, "TRY_SEND_CERTIFICATE_REQUEST", @.phaHash)]
  /\ UNCHANGED <<mode, chan, issued, budget>>

\* HITLS_Write on an established connection.
WriteApp(p) ==
  LET h == ends[p] IN
  /\ h.conn = "transporting" /\ budget.app < mode.max.app /\ (p = "server" => h.phaState # "PHA_PENDING")
  /\ chan' = [chan EXCEPT ![Peer(p)] = @ \o Write(On(h), "APP", 0).out]
  /\ Spend("app")
  /\ UNCHANGED <<mode, ends, issued>>

Init ==
  /\ mode \in Modes
  /\ ends = [p \in Ends |-> NewEnd(p)]
  /\ chan = [p \in Ends |-> <<>>]
  /\ issued = <<>>
  /\ budget = [b \in Budget |-> 0]

Next ==
  \/ \E p \in Ends : SendMsg(p) \/ SendBusy(p) \/ Recv(p) \/ Resume(p) \/ KeyUpdate(p) \/ WriteApp(p)
  \/ VerifyClientPostHandshake
  \/ CheckPostHandshakeAuth

Spec == Init /\ [][Next]_vars

-----------------------------------------------------------------------------
(* Properties.                                                             *)

Established == \A p \in Ends : ends[p].conn = "transporting"
Quiet == Established /\ \A p \in Ends : chan[p] = <<>>
CommonKeModes == mode.keModes.client \cap mode.keModes.server

States == RecvStates \cup
  {"TRY_SEND_CLIENT_HELLO", "TRY_SEND_HELLO_RETRY_REQUEST", "TRY_SEND_SERVER_HELLO", "TRY_SEND_CHANGE_CIPHER_SPEC",
   "TRY_SEND_ENCRYPTED_EXTENSIONS", "TRY_SEND_CERTIFICATE_REQUEST", "TRY_SEND_CERTIFICATE",
   "TRY_SEND_CERTIFICATE_VERIFY", "TRY_SEND_FINISH", "TRY_SEND_NEW_SESSION_TICKET", "TRY_SEND_KEY_UPDATE",
   "TLS_CONNECTED"}

\* Types of the connections' fields; an hsCtx of an established connection is free.
TypeOK ==
  /\ mode \in Modes
  /\ \A p \in Ends :
       /\ ends[p].conn \in {"handshaking", "transporting", "alerted"}
       /\ ends[p].hs.state \in States
       /\ ends[p].phaState \in {"PHA_NONE", "PHA_EXTENSION", "PHA_PENDING", "PHA_REQUESTED"}
       /\ ends[p].keyUpdateType \in {"REQ_END", "REQUESTED", "NOT_REQUESTED"}
       /\ ends[p].conn = "transporting" => ends[p].hs = HS_Init("TLS_CONNECTED")
  /\ \A q \in Ends : \A i \in DOMAIN chan[q] : chan[q][i].key.gen \in Nat

\* The certificate callback suspended Tls13ServerProcessClientHello when a HelloRetryRequest was due:
\* isNeedSendHrr (recv_client_hello.c:2398) is gone when the handler goes on.
RetryLost == ends.server.retryLost

\* The two alerts of an end: the server insists on a certificate that the client does not have, and the
\* client has not offered the PSK_ONLY that a server without its HelloRetryRequest chooses.
CertificateMissing == mode.verify /\ ~mode.noClientCert /\ ~mode.cert
PskOnlyRefused == RetryLost /\ SelectPsk /\ "PSK_ONLY" \notin mode.keModes.client

\* Two ends of this library never fail each other with a fatal alert or an internal exception: every
\* record is opened with the key it was sealed with, CCS records are plain and awaited, messages arrive
\* in the state that expects them, binders, Finished and CertificateVerify cover equal transcripts, also
\* when KeyUpdates, tickets, application data and an authentication after the handshake cross.  Excepted
\* are a missing certificate and the server that lost its HelloRetryRequest to a suspended callback:
\* it fails without a PSK, and with one the client may refuse its choice.
NeverFails ==
  \A p \in Ends :
    /\ ends[p].conn = "alerted" => CertificateMissing \/ PskOnlyRefused
    /\ ends[p].internalException => RetryLost /\ ~SelectPsk

\* When nothing is in flight, each end reads with the key the other writes with, and they agree on the
\* key exchange, on resumption, on the transcript kept for authentication after the handshake, and on
\* whether such an authentication is under way.
EndsAgree ==
  Quiet =>
    LET c == ends.client
        s == ends.server IN
    /\ c.write = s.read /\ s.write = c.read /\ c.gen = s.gen
    /\ c.keyExMode = s.keyExMode /\ c.isResume = s.isResume
    /\ s.phaState = "PHA_EXTENSION" /\ mode.pha.client => c.phaHash = s.phaHash
    /\ s.phaState # "PHA_REQUESTED" /\ c.phaState # "PHA_REQUESTED"
    /\ c.certificateReqCtx = s.certificateReqCtx \/ s.phaState = "PHA_PENDING"

\* UpdateServerBaseKeyExMode: a PSK without an ephemeral key is used only if both ends allow it and
\* not both allow the ephemeral key; a server that lost its HelloRetryRequest uses it all the same.
NoDowngrade ==
  \A p \in Ends :
    ends[p].conn = "transporting" /\ ends[p].keyExMode = {"PSK_ONLY"} =>
      \/ "PSK_ONLY" \in CommonKeModes /\ "PSK_WITH_DHE" \notin CommonKeModes
      \/ RetryLost

\* A server that requires a client certificate is established without one only on a PSK or if the
\* authentication is left for later; once it has asked and is answered, the client is authenticated.
ClientAuthenticated ==
  LET s == ends.server
      deferred == mode.pha.client /\ mode.pha.server IN
  s.conn = "transporting" /\ mode.verify /\ ~mode.noClientCert =>
    \/ s.peerCert
    \/ s.keyExMode # {"CERT_AUTH_WITH_DHE"} /\ (budget.pha = 0 \/ s.phaState \in {"PHA_PENDING", "PHA_REQUESTED"})
    \/ deferred /\ (budget.pha = 0 \/ s.phaState \in {"PHA_PENDING", "PHA_REQUESTED"})

\* HS_SwitchTrafficKey installs the keys of a direction in the order handshake, application 0, 1, ...
\* and none of them twice, which would start its sequence numbers again under the same key: also when
\* a handler is called again after the transport was busy or a callback was suspended.
Rank(key) == IF key \in {HsKey("client"), HsKey("server")} THEN 0 ELSE 1 + key.gen

KeysAdvance ==
  \A p \in Ends : \A d \in {"write", "read"} :
    LET keys == ends[p].installed[d] IN \A i \in DOMAIN keys : Rank(keys[i]) = i - 1

\* End p has nothing to do: no message to send, none to read and none to take up again.
Idle(p) ==
  LET h == ends[p] IN ~Sending(h) /\ h.hs.msg = None /\ ~(Reading(h) /\ chan[p] # <<>>)

\* Everyone never waits on everyone: when both ends have nothing to do, the handshake, the
\* authentication after it and the answer to every KeyUpdate are complete (HS_HandleSendHandshake,
\* HS_HandleRecvHandshake).  The budgets are finite, so this state is always reached.
NotStuck ==
  (\A p \in Ends : Idle(p)) =>
    \/ CertificateMissing \/ PskOnlyRefused
    \/ Quiet /\ \A p \in Ends : ends[p].keyUpdateType = "REQ_END" /\ ends[p].phaState # "PHA_REQUESTED"

\* "ticketNonce: Unique ID of the ticket issued on the connection" (hs_msg.h).
TicketNonceUnique == \A i, j \in DOMAIN issued : i # j => issued[i] # issued[j]

\* UpdateServerBaseKeyExMode says that without a PSK and a key share it is not reached.
NoInternalException == ~ends.server.internalException
=============================================================================
