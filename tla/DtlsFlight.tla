----------------------------- MODULE DtlsFlight -----------------------------
(***************************************************************************)
(* A DTLS 1.2 handshake over UDP: flights, retransmission lists, timers and*)
(* the change of epochs, between a client and a server joined by a network *)
(* that loses, delays and reorders records.  tls/handshake (send, recv,    *)
(* common), tls/record/src/rec_retransmit.c, tls/ccs and the read path of  *)
(* an established connection in tls/cm/src/conn_read.c.                    *)
(*                                                                         *)
(* A step is one record read and everything the state machine then does    *)
(* until it reads again.  ServerHello stands for all messages up to        *)
(* ServerHelloDone, ClientKeyExchange for the client's certificate too.    *)
(***************************************************************************)
EXTENDS Naturals, Sequences, SequencesExt, FiniteSets

CONSTANTS
  Modes,          \* the kinds of handshake
  Fragments,      \* number of records a client hello is sent in
  MaxTimeoutNum,  \* DTLS_HS_MAX_TIMEOUT_NUM
  MaxLoss,        \* records the network loses
  MaxSpurious,    \* timeouts while an answer is on its way
  MaxCopies,      \* copies of a record that the network holds
  Expires         \* TRUE if the 2MSL timer may expire at any time

ASSUME FlightAssumption ==
  /\ Modes \subseteq [resume : BOOLEAN, session : BOOLEAN, ticket : BOOLEAN, cookie : BOOLEAN]
  /\ {MaxTimeoutNum, MaxLoss, MaxSpurious} \subseteq Nat
  /\ {Fragments, MaxCopies} \subseteq Nat \ {0} /\ Expires \in BOOLEAN

VARIABLES
  mode,      \* session: the client offers one; resume: the server takes it
  hs,        \* state of the two ends
  net,       \* records on their way
  lost,      \* number of records lost
  spurious   \* number of timeouts that were not needed

vars == <<mode, hs, net, lost, spurious>>
Ends == {"client", "server"}
Peer(p) == CHOOSE q \in Ends : q # p
None == [name |-> "none"]

-----------------------------------------------------------------------------
(* An end: state of its handshake, sequence numbers, retransmission list,  *)
(* epochs of the write states, read epoch, CCS flags, record of the next   *)
(* epoch kept by the record layer, reassembly queue, transcript, transcript*)
(* that the peer's Finished must carry, timer.                             *)

CcsIdle == [isReady |-> FALSE, ccsRecvflag |-> FALSE, isAllowActiveCipher |-> FALSE, activeCipherFlag |-> FALSE]

NewEnd(state) ==
  [state |-> state, expectRecvSeq |-> 0, nextSendSeq |-> 0, list |-> <<>>,
   write |-> [current |-> 0, outdated |-> {}, pending |-> {}], readEpoch |-> 0,
   ccs |-> CcsIdle, early |-> None, reass |-> {}, log |-> <<>>, verifyData |-> <<>>,
   timer |-> "off", timeoutNum |-> 0, fatal |-> FALSE]

\* A handler works on e = [h, out]: the end and the records it has written.
On(h) == [h |-> h, out |-> <<>>]

Write(e, m) == [e EXCEPT !.out = Append(@, [msg |-> m, epoch |-> e.h.write.current])]

\* What a transcript tells apart of a message.
Name(m) == <<m.name, m.seq>>

\* DtlsSendHandShakeMsg.
SendMsg(e, name, data) ==
  LET m == [name |-> name, seq |-> e.h.nextSendSeq, data |-> data]
      w == Write(e, m) IN
  [w EXCEPT !.h = [@ EXCEPT !.list = Append(@, m), !.log = Append(@, Name(m)), !.nextSendSeq = @ + 1]]

\* SendChangeCipherSpecProcess: CCS_Send and REC_ActivePendingState.
SendCcs(e) ==
  LET m == [name |-> "CCS", seq |-> 0, data |-> <<>>]
      w == Write(e, m) IN
  [w EXCEPT !.h = [@ EXCEPT !.list = Append(@, m),
                            !.write = [current |-> @.current + 1, outdated |-> {@.current}, pending |-> {}]]]

\* VERIFY_CalcVerifyData for the local Finished, which is then sent.
SendFinished(e) == SendMsg(e, "FIN", e.h.log)

Then(e, h) == [e EXCEPT !.h = h]
Calc(h) == [h EXCEPT !.verifyData = h.log]

\* REC_RetransmitListClean.
Clean(h) == [h EXCEPT !.list = <<>>]
StartTimer(h, t) == [h EXCEPT !.timer = t, !.timeoutNum = 0]
Fatal(h) == [h EXCEPT !.fatal = TRUE]

\* The commands of CCS_Ctrl.
Ready(h) == [h EXCEPT !.ccs.isReady = TRUE]
ExitReady(h) == [h EXCEPT !.ccs = CcsIdle]
AllowActive(h) ==
  LET go == h.ccs.ccsRecvflag /\ ~h.ccs.activeCipherFlag IN
  [h EXCEPT !.ccs.isAllowActiveCipher = TRUE,
            !.ccs.activeCipherFlag = @ \/ go, !.readEpoch = IF go THEN @ + 1 ELSE @]

-----------------------------------------------------------------------------
(* Handlers of the client.                                                 *)

SendClientHello(h, name) ==
  LET e == SendMsg(On([h EXCEPT !.log = <<>>]), name, <<>>)
      t == StartTimer(e.h, "flight") IN
  Then(e, [IF mode.session THEN Ready(t) ELSE t EXCEPT !.state = "recv_server_hello"])

RecvHelloVerifyRequest(h) == SendClientHello(Clean(h), "CHC")

RecvServerHello(h) ==
  On(IF mode.resume
     THEN IF mode.ticket THEN [h EXCEPT !.state = "recv_ticket"]
          ELSE [AllowActive(Ready(Calc(h))) EXCEPT !.state = "recv_finish"]
     ELSE [ExitReady(h) EXCEPT !.state = "recv_server_hello_done"])

\* Mutant: the client does not wait for the server's Finished.
DoneConnects(h) ==
  LET e == SendFinished(SendCcs(SendMsg(On(Clean(h)), "CKE", <<>>))) IN
  Then(e, [StartTimer(Calc(e.h), "flight") EXCEPT !.state = "connected"])

RecvServerHelloDone(h) ==
  LET e == SendFinished(SendCcs(SendMsg(On(Clean(h)), "CKE", <<>>)))
      t == StartTimer(Calc(e.h), "flight") IN
  Then(e, IF mode.ticket THEN [t EXCEPT !.state = "recv_ticket"]
          ELSE [AllowActive(Ready(t)) EXCEPT !.state = "recv_finish"])

RecvNewSessionTicket(h) ==
  On([AllowActive(Ready(Calc(h))) EXCEPT !.state = "recv_finish"])

ClientRecvFinished(h) ==
  LET c == Clean(ExitReady(h))
      e == SendFinished(SendCcs(On(c))) IN
  IF mode.resume THEN Then(e, [StartTimer(e.h, "2msl") EXCEPT !.state = "connected"])
  ELSE On([c EXCEPT !.state = "connected"])

-----------------------------------------------------------------------------
(* Handlers of the server.                                                 *)

SendTicket(e) == IF mode.ticket THEN SendMsg(e, "NST", <<>>) ELSE e

\* Mutant: the transcript is not begun anew.
HelloVerifyKeepsLog(h) ==
  LET e == SendMsg(On(h), "HVR", <<>>) IN
  Then(e, [e.h EXCEPT !.list = <<>>])

\* DtlsServerSendHelloVerifyRequestProcess: neither the hello nor the request
\* belongs to the transcript, and the request is not repeated.
SendHelloVerifyRequest(h) ==
  LET e == SendMsg(On(h), "HVR", <<>>) IN
  Then(e, [e.h EXCEPT !.log = <<>>, !.list = <<>>])

RecvClientHello(h, m) ==
  IF mode.cookie /\ m.name = "CH" THEN SendHelloVerifyRequest(h)
  ELSE LET sh == SendMsg(On(h), "SH", <<>>) IN
       IF mode.resume
       THEN LET e == SendFinished(SendCcs(SendTicket(sh))) IN
            Then(e, [StartTimer(AllowActive(Ready(Calc(e.h))), "flight") EXCEPT !.state = "recv_finish"])
       ELSE LET e == SendMsg(sh, "SHD", <<>>) IN
            Then(e, [StartTimer(e.h, "flight") EXCEPT !.state = "recv_client_key_exchange"])

RecvClientKeyExchange(h) == On([AllowActive(Ready(Calc(h))) EXCEPT !.state = "recv_finish"])

ServerRecvFinished(h) ==
  IF mode.resume THEN On([ExitReady(Clean(h)) EXCEPT !.state = "connected"])
  ELSE LET e == SendFinished(SendCcs(SendTicket(On(Clean(h))))) IN
       Then(e, [StartTimer(ExitReady(e.h), "2msl") EXCEPT !.state = "connected"])

-----------------------------------------------------------------------------
(* Receiving.                                                              *)

\* Records a message is sent in.
Parts(m) == 1 .. (IF m.name \in {"CH", "CHC"} THEN Fragments ELSE 1)

\* RecvFinishedProcess: the Finished must carry the transcript computed.
RecvFinished(p, h, m) ==
  IF m.data # h.verifyData THEN On(Fatal(h))
  ELSE IF p = "client" THEN ClientRecvFinished(h) ELSE ServerRecvFinished(h)

\* DtlsCheckAndParseMsg, VERIFY_Append and the handler of the state.
Process(p, h, m) ==
  LET n == [h EXCEPT !.expectRecvSeq = @ + 1, !.log = Append(@, Name(m))]
      at(state, name) == h.state = state /\ m.name = name IN
  CASE at("recv_server_hello", "HVR") -> RecvHelloVerifyRequest(n)
    [] at("recv_server_hello", "SH") -> RecvServerHello(n)
    [] at("recv_server_hello_done", "SHD") -> RecvServerHelloDone(n)
    [] at("recv_ticket", "NST") -> RecvNewSessionTicket(n)
    [] h.state = "recv_client_hello" /\ m.name \in {"CH", "CHC"} -> RecvClientHello(n, m)
    [] at("recv_client_key_exchange", "CKE") -> RecvClientKeyExchange(n)
    [] at("recv_finish", "FIN") -> RecvFinished(p, n, m)
    [] OTHER -> On(Fatal(h))

\* The first hello comes again while the server waits for the second one.
HelloAgain(h, m) == m.name = "CH" /\ m.seq = 0 /\ h.expectRecvSeq = 1 /\ h.state = "recv_client_hello"

\* DtlsReadAndParseHandshakeMsg on a record: a message out of order or in
\* parts goes to the reassembly queue, an old one is dropped.
ReadHandshakeMsg(p, h, m, part) ==
  LET g == IF HelloAgain(h, m) THEN [h EXCEPT !.expectRecvSeq = 0, !.nextSendSeq = 0] ELSE h
      append == On([g EXCEPT !.reass = @ \cup {[msg |-> m, part |-> part]}]) IN
  IF m.seq = g.expectRecvSeq THEN (IF Parts(m) = {1} THEN Process(p, g, m) ELSE append)
  ELSE IF m.seq < g.expectRecvSeq \/ (g.expectRecvSeq = 0 /\ m.name = "FIN") THEN On(g)
  ELSE append

\* ProcessPlainCCS.
ProcessPlainCCS(h) ==
  LET go == h.ccs.isAllowActiveCipher /\ ~h.ccs.activeCipherFlag IN
  IF ~h.ccs.isReady THEN h
  ELSE [h EXCEPT !.ccs.ccsRecvflag = TRUE, !.ccs.activeCipherFlag = @ \/ go,
                 !.readEpoch = IF go THEN @ + 1 ELSE @]

-----------------------------------------------------------------------------
(* Retransmission.                                                         *)

HasCcs(list) == \E i \in DOMAIN list : list[i].name = "CCS"

ActiveOutdated(h) ==
  [h EXCEPT !.write = [pending |-> {@.current}, current |-> CHOOSE s \in @.outdated : TRUE, outdated |-> {}]]

DeActiveOutdated(h) ==
  [h EXCEPT !.write = [outdated |-> {@.current}, current |-> CHOOSE s \in @.pending : TRUE, pending |-> {}]]

\* Mutant: a write that fails leaves the outdated state in place.
FlushLeavesOutdated(h, n) ==
  LET Node(e, m) == LET w == Write(e, m) IN
                    IF m.name = "CCS" THEN Then(w, DeActiveOutdated(w.h)) ELSE w IN
  FoldLeft(Node, On(IF HasCcs(h.list) THEN ActiveOutdated(h) ELSE h), SubSeq(h.list, 1, n))

\* REC_RetransmitListFlush when the write of record n + 1 fails.
RetransmitListFlush(h, n) ==
  LET Node(e, m) == LET w == Write(e, m) IN
                    IF m.name = "CCS" THEN Then(w, DeActiveOutdated(w.h)) ELSE w
      sent == SubSeq(h.list, 1, n)
      e == FoldLeft(Node, On(IF HasCcs(h.list) THEN ActiveOutdated(h) ELSE h), sent) IN
  IF n < Len(h.list) /\ HasCcs(h.list) /\ ~HasCcs(sent) THEN Then(e, DeActiveOutdated(e.h)) ELSE e

\* PreprocessUnexpectHsMsg: a Finished on an established connection starts a
\* handshake context anew; the end that sent the last flight repeats it while
\* the 2MSL timer runs.
Fresh(h) == [h EXCEPT !.expectRecvSeq = 0, !.nextSendSeq = 0, !.reass = {}, !.log = <<>>,
                      !.verifyData = <<>>, !.timeoutNum = 0]

\* Mutant: a Finished on an established connection is ignored.
PostFinishIgnored(p, h) == On(Fresh(h))

RecvPostFinish(p, h) ==
  IF h.timer = "2msl" /\ (p = "client" <=> mode.resume)
  THEN RetransmitListFlush(Fresh(h), Len(h.list))
  ELSE On(Fresh(h))

-----------------------------------------------------------------------------
(* The network and the steps of an end.                                    *)

\* The records of e go on their way; the network holds MaxCopies of each.
Put(n, p, e) ==
  LET new == {[to |-> Peer(p), msg |-> e.out[i].msg, epoch |-> e.out[i].epoch, part |-> k] :
                <<i, k>> \in {<<j, l>> \in (1..Len(e.out)) \X (1..Fragments) : l \in Parts(e.out[j].msg)}}
      Free(r) == {c \in 1..MaxCopies : [rec |-> r, copy |-> c] \notin n} IN
  n \cup {[rec |-> r, copy |-> CHOOSE c \in Free(r) : \A d \in Free(r) : c <= d] : r \in {r \in new : Free(r) # {}}}

Did(p, e, n) == hs' = [hs EXCEPT ![p] = e.h] /\ net' = Put(n, p, e)

Init ==
  /\ mode \in Modes
  /\ hs = [client |-> NewEnd("start"), server |-> NewEnd("recv_client_hello")]
  /\ net = {} /\ lost = 0 /\ spurious = 0

\* HITLS_Connect sends the client hello.
Connect ==
  /\ hs["client"].state = "start"
  /\ Did("client", SendClientHello(hs["client"], "CH"), net)
  /\ UNCHANGED <<mode, lost, spurious>>

\* HS_GetReassMsg has the next message, or the record layer has kept a record
\* of the epoch that is now current.
Reassembled(h) == {m \in {x.msg : x \in h.reass} :
                     m.seq = h.expectRecvSeq /\ \A k \in Parts(m) : [msg |-> m, part |-> k] \in h.reass}
Early(h) == h.early # None /\ h.readEpoch = 1

Running(p) == ~hs[p].fatal /\ hs[p].state # "start"
Handshaking(p) == Running(p) /\ hs[p].state # "connected"

TakeReassembled(p) ==
  LET h == hs[p] IN
  /\ Handshaking(p)
  /\ \E m \in Reassembled(h) :
       Did(p, Process(p, [h EXCEPT !.reass = {x \in @ : x.msg.seq # m.seq}], m), net)
  /\ UNCHANGED <<mode, lost, spurious>>

TakeEarly(p) ==
  LET h == hs[p] IN
  /\ Handshaking(p) /\ Reassembled(h) = {} /\ Early(h)
  /\ Did(p, ReadHandshakeMsg(p, [h EXCEPT !.early = None], h.early, 1), net)
  /\ UNCHANGED <<mode, lost, spurious>>

\* A record is read: DtlsRecordHeaderProcess drops old epochs and keeps one
\* handshake record of the next, RecordUnexpectedMsg takes a CCS.
Read(p, n) ==
  LET h == hs[p]
      r == n.rec IN
  /\ n \in net /\ r.to = p /\ Running(p)
  /\ Handshaking(p) => Reassembled(h) = {} /\ ~Early(h)
  /\ Did(p, CASE r.epoch < h.readEpoch -> On(h)
              [] r.epoch > h.readEpoch -> On([h EXCEPT !.early = IF @ = None THEN r.msg ELSE @])
              [] r.msg.name = "CCS" -> On(ProcessPlainCCS(h))
              [] r.msg.name # "CCS" /\ h.state = "connected" -> RecvPostFinish(p, h)
              [] OTHER -> ReadHandshakeMsg(p, h, r.msg, r.part),
         net \ {n})
  /\ UNCHANGED <<mode, lost, spurious>>

\* HITLS_DtlsProcessTimeout: the timer has run out while nothing was read.
\* After MaxTimeoutNum the caller gets an error; otherwise the list is sent
\* again, of which a failing write may leave out the end.
Timeout(p, n) ==
  LET h == [hs[p] EXCEPT !.timeoutNum = @ + 1] IN
  /\ Handshaking(p) /\ h.timer = "flight" /\ h.timeoutNum <= MaxTimeoutNum + 1
  /\ Reassembled(h) = {} /\ ~Early(h)
  /\ n \in 0..Len(h.list)
  /\ net # {} => spurious < MaxSpurious
  /\ n < Len(h.list) => lost < MaxLoss
  /\ spurious' = IF net # {} THEN spurious + 1 ELSE spurious
  /\ lost' = IF n < Len(h.list) THEN lost + 1 ELSE lost
  /\ Did(p, IF h.timeoutNum > MaxTimeoutNum THEN On(h) ELSE RetransmitListFlush(h, n), net)
  /\ UNCHANGED mode

\* HS_CheckAndProcess2MslTimeout.
Expire(p) ==
  /\ Expires /\ Running(p) /\ hs[p].state = "connected" /\ hs[p].timer = "2msl"
  /\ hs' = [hs EXCEPT ![p].list = <<>>, ![p].timer = "off"]
  /\ UNCHANGED <<mode, net, lost, spurious>>

Lose(n) ==
  /\ n \in net /\ lost < MaxLoss
  /\ net' = net \ {n} /\ lost' = lost + 1
  /\ UNCHANGED <<mode, hs, spurious>>

Progress ==
  \/ Connect
  \/ \E p \in Ends : TakeReassembled(p) \/ TakeEarly(p)
  \/ \E p \in Ends, n \in net : Read(p, n)
  \/ \E p \in Ends : Timeout(p, Len(hs[p].list))

Next ==
  \/ Progress
  \/ \E p \in Ends : Expire(p) \/ \E n \in 0..Len(hs[p].list) : Timeout(p, n)
  \/ \E n \in net : Lose(n)

Spec == Init /\ [][Next]_vars

\* A record that is not lost arrives, and both applications go on calling
\* HITLS_Connect, HITLS_Accept or HITLS_Read, which read and look at the timer.
FairSpec == Spec /\ WF_vars(Progress)

-----------------------------------------------------------------------------
(* Properties.                                                             *)

Records == {"CH", "CHC", "HVR", "SH", "SHD", "CKE", "NST", "CCS", "FIN"}
States == {"start", "recv_server_hello", "recv_server_hello_done", "recv_ticket", "recv_finish",
           "recv_client_hello", "recv_client_key_exchange", "connected"}

TypeOK ==
  /\ mode \in Modes /\ lost \in 0..MaxLoss /\ spurious \in 0..MaxSpurious
  /\ \A n \in net : /\ n.copy \in 1..MaxCopies /\ n.rec.to \in Ends
                    /\ n.rec.msg.name \in Records /\ n.rec.part \in Parts(n.rec.msg)
  /\ \A p \in Ends : /\ hs[p].state \in States
                     /\ hs[p].timer \in {"off", "flight", "2msl"}
                     /\ hs[p].timeoutNum \in 0..(MaxTimeoutNum + 1)
                     /\ hs[p].readEpoch \in 0..1 /\ hs[p].fatal \in BOOLEAN
                     /\ Len(hs[p].list) <= 4

\* Whatever is lost, delayed, repeated and reordered between two honest ends,
\* neither finds a message unexpected or a Finished wrong: the transcripts
\* that VERIFY_Init, VERIFY_Append and VERIFY_CalcVerifyData build agree.
NoFatal == \A p \in Ends : ~hs[p].fatal

\* Every Finished leaves in epoch 1 and everything before it in epoch 0, in a
\* retransmission as well (REC_ActiveOutdatedWriteState).
EpochsRight == \A n \in net : n.rec.epoch = IF n.rec.msg.name = "FIN" THEN 1 ELSE 0

\* A retransmission borrows the outdated write state (RetransmitListFlush): its
\* messages leave in the epoch of the first transmission, and between two
\* calls the write state is the current one, with the outdated one at hand
\* for the next retransmission, also after a write that failed.
WriteStateRestored ==
  /\ EpochsRight
  /\ \A p \in Ends : LET w == hs[p].write IN
       w.pending = {} /\ w.outdated = (IF w.current = 0 THEN {} ELSE {w.current - 1})

\* The end that sends the last flight connects first: the other one has seen
\* its Finished.
LastFlightFirst ==
  LET last == IF mode.resume THEN "client" ELSE "server" IN
  hs[Peer(last)].state = "connected" => hs[last].state = "connected"

\* With fewer losses than retransmissions the handshake is completed, although
\* timers race answers ("DTLS_HS_MAX_TIMEOUT_NUM", HITLS_DtlsProcessTimeout).
Connects == <>(\A p \in Ends : hs[p].state = "connected")
=============================================================================
