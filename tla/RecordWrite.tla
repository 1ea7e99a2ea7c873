---------------------------- MODULE RecordWrite ----------------------------
(***************************************************************************)
(* Writing records through the buffer of flight mode: TlsRecordWrite,      *)
(* DtlsRecordWrite and REC_FlightTransmit of tls/record/src/rec_write.c,   *)
(* APP_Write of tls/app/src/app.c, and the buffer UIO of                   *)
(* bsl/uio/src/uio_buffer.c that HS_Init puts before the transport and     *)
(* HS_DeInit takes away.                                                   *)
(*                                                                         *)
(* A step is one write to the transport, which may take less than it is    *)
(* given.  A byte is <<n, i>>: the i-th byte of the n-th record built.     *)
(***************************************************************************)
EXTENDS Integers, Sequences, FiniteSets, SequencesExt

CONSTANTS
  OutSize,      \* size of the buffer UIO, 4096 in the code
  Sizes,        \* lengths of records
  Data,         \* pieces of application data, written in this order
  Links         \* connections, of which one is used; a record of
                \*   datagram: DTLS over UDP, else a stream; flight: isFlightTransmitEnable
                \*   maxSeq: REC_TLS_SN_MAX_VALUE and REC_DTLS_SN_MAX_VALUE
                \* and of the bounds records, setups (handshakes and changes of the MTU), busy

ASSUME RecordWriteAssumption ==
  /\ OutSize \in Nat \ {0} /\ Sizes \subseteq Nat \ {0} /\ Data \in Nat
  /\ Links \subseteq [datagram : BOOLEAN, flight : BOOLEAN, maxSeq : Nat, records : Nat, setups : Nat, busy : Nat]

VARIABLES
  link,     \* the connection, an element of Links
  rec,      \* write state and outBuf of the record layer: [seq, isWrapped, num, start]; num = 0: outBuf is empty
  built,    \* every record built: [type, data, len, seq]
  bUio,     \* the buffer UIO: [on, off, bytes]
  wire,     \* what the transport took: pieces, each a sequence of bytes
  app,      \* [next, pending]: the piece to write next, and pendingData
  call,     \* the call under way
  last,     \* [op, ret] of the last call
  setups,   \* handshakes begun
  busy,     \* times the transport took nothing
  disturbed \* history: the pieces of data whose record another call than their write took over, or ChangeBufferSize dropped

vars == <<link, rec, built, bUio, wire, app, call, last, setups, busy, disturbed>>

Datagram == link.datagram
Flight == link.flight
MaxSeq == link.maxSeq

Bytes(n) == [i \in 1..built[n].len |-> <<n, i>>]
OutBuf == IF rec.num = 0 THEN <<>> ELSE SubSeq(Bytes(rec.num), rec.start + 1, built[rec.num].len)
EmptyOut == [rec EXCEPT !.num = 0, !.start = 0]
NoBuffer == [on |-> FALSE, off |-> 0, bytes |-> <<>>]
Idle == [op |-> "none", pc |-> "idle", done |-> 0]

Init ==
  /\ link \in Links
  /\ rec = [seq |-> 0, isWrapped |-> FALSE, num |-> 0, start |-> 0]
  /\ built = <<>> /\ bUio = NoBuffer /\ wire = <<>>
  /\ app = [next |-> 1, pending |-> 0]
  /\ call = Idle /\ last = [op |-> "none", ret |-> "SUCCESS"]
  /\ setups = 0 /\ busy = 0 /\ disturbed = {}

\* The transport takes some of the bytes; a datagram goes whole or not at all.
Taken(bytes) == IF Datagram THEN {0, Len(bytes)} ELSE 0..Len(bytes)
Transport(bytes, k) ==
  /\ k \in Taken(bytes)
  /\ wire' = IF k = 0 THEN wire ELSE Append(wire, SubSeq(bytes, 1, k))
  /\ k = 0 => busy < link.busy
  /\ busy' = IF k = 0 THEN busy + 1 ELSE busy

\* What is in outBuf is of this type; a call of the kind op sends it, though it may not be its own.
InOut(type) == rec.num # 0 /\ built[rec.num].type = type
Disturbed(op) == IF (InOut("app") /\ op # "app") \/ (InOut("hs") /\ op = "app") THEN disturbed \cup {app.next} ELSE disturbed

Return(ret) == call' = Idle /\ last' = [op |-> call.op, ret |-> ret]

-----------------------------------------------------------------------------
(* Calls.                                                                  *)

\* A handshake begins: HS_Init and UIO_Init.
HsInit ==
  /\ call.pc = "idle" /\ setups < link.setups /\ ~bUio.on
  /\ setups' = setups + 1
  /\ bUio' = [bUio EXCEPT !.on = Flight]
  /\ UNCHANGED <<rec, built, wire, app, call, last, busy, disturbed>>

Begin(op, pc) ==
  /\ call.pc = "idle"
  /\ call' = [op |-> op, pc |-> pc, done |-> 0]
  /\ UNCHANGED <<rec, built, bUio, wire, last, setups, busy>>

\* HITLS_Write and CheckDataLen.  During a handshake over a stream the handshake goes first, unless a
\* write is pending; over datagrams the handshake context, and with it the buffer, stays after the handshake.
AppWrite ==
  /\ app.next <= Data
  /\ ~Datagram /\ (bUio.on \/ InOut("hs")) => app.pending # 0
  /\ Begin("app", "record")
  /\ app' = IF Datagram THEN app ELSE [app EXCEPT !.pending = app.next]
  /\ UNCHANGED disturbed

\* HS_SendMsg: a message of a handshake, a KeyUpdate or a request for authentication.
HsSend ==
  /\ bUio.on \/ ~Flight
  /\ Begin("hs", "record")
  /\ UNCHANGED <<app, disturbed>>

\* HandshakeDone: the flush at the end of the handshake.
HsDone ==
  /\ bUio.on
  /\ Begin("done", "flush")
  /\ UNCHANGED <<app, disturbed>>

\* REC_OutBufFlush, for HITLS_Flush and before an alert; with nothing in outBuf it does nothing.
OutBufFlush ==
  /\ ~Datagram /\ OutBuf # <<>>
  /\ Begin("out", "write")
  /\ disturbed' = Disturbed("out")
  /\ UNCHANGED app

\* The handshake context of DTLS is freed by an application record read or by the 2MSL timer.
DtlsDeInit ==
  /\ Datagram /\ call.pc = "idle" /\ bUio.on
  /\ bUio' = NoBuffer
  /\ UNCHANGED <<rec, built, wire, app, call, last, setups, busy, disturbed>>

-----------------------------------------------------------------------------
(* The record layer.                                                       *)

Build(type) ==
  \E len \in Sizes :
    /\ built' = Append(built, [type |-> type, data |-> IF type = "app" THEN app.next ELSE 0, len |-> len, seq |-> rec.seq])
    /\ rec' = [rec EXCEPT !.num = Len(built) + 1, !.start = 0, !.isWrapped = ~Datagram /\ rec.seq = MaxSeq]

\* TlsRecordWrite, SequenceCompare: a record that is in outBuf is sent in place of what was to be written.
TlsRecordWrite ==
  /\ ~Datagram /\ call.pc = "record"
  /\ IF rec.isWrapped THEN Return("ERR_SN_WRAPPING") /\ UNCHANGED <<rec, built, disturbed>>
     ELSE /\ call' = [call EXCEPT !.pc = "write"]
          /\ IF OutBuf # <<>> THEN rec' = [rec EXCEPT !.isWrapped = rec.seq = MaxSeq] /\ UNCHANGED built
             ELSE Len(built) < link.records /\ Build(call.op)
          /\ disturbed' = Disturbed(call.op)
          /\ UNCHANGED last
  /\ UNCHANGED <<bUio, wire, app, setups, busy>>

DtlsRecordWrite ==
  /\ Datagram /\ call.pc = "record"
  /\ IF rec.seq > MaxSeq THEN Return("ERR_SN_WRAPPING") /\ UNCHANGED <<rec, built>>
     ELSE Len(built) < link.records /\ Build(call.op) /\ call' = [call EXCEPT !.pc = "write"] /\ UNCHANGED last
  /\ UNCHANGED <<bUio, wire, app, setups, busy, disturbed>>

\* The end of APP_Write, and that of REC_OutBufFlush.
AppWritten ==
  [next |-> IF call.op = "app" THEN app.next + 1 ELSE app.next, pending |-> IF call.op \in {"app", "out"} THEN 0 ELSE app.pending]

\* Mutant: outBuf is cleared when a stream is busy too.
BusyOutCleared == EmptyOut

\* outBuf after a write that was busy: DatagramWrite drops the record, StreamWrite keeps it.
BusyOut == IF Datagram THEN EmptyOut ELSE rec

\* Mutant: the sequence number is not advanced after an application record.
SentOutSameSeq == IF call.op = "app" THEN EmptyOut ELSE [EmptyOut EXCEPT !.seq = @ + 1]

\* outBuf and the write state after a write of the whole record.
SentOut == [EmptyOut EXCEPT !.seq = @ + 1]

\* The rest of StreamWrite or DatagramWrite after BSL_UIO_Write has taken k bytes of outBuf, then SendRecord.
Wrote(k) ==
  IF k = 0 THEN Return("IO_BUSY") /\ rec' = BusyOut /\ UNCHANGED app
  ELSE IF k < Len(OutBuf)
       THEN rec' = [rec EXCEPT !.start = @ + k] /\ call' = [call EXCEPT !.pc = "write", !.done = 0] /\ UNCHANGED <<app, last>>
  ELSE /\ rec' = SentOut
       /\ IF call.op = "app" /\ Flight THEN call' = [call EXCEPT !.pc = "flush", !.done = 0] /\ UNCHANGED <<app, last>>
          ELSE Return("SUCCESS") /\ app' = AppWritten

\* BSL_UIO_Write without the buffer.
TransportWrite ==
  /\ call.pc = "write" /\ ~bUio.on
  /\ \E k \in Taken(OutBuf) : Transport(OutBuf, k) /\ Wrote(k)
  /\ UNCHANGED <<built, bUio, setups, disturbed>>

-----------------------------------------------------------------------------
(* The buffer UIO.                                                         *)

\* What BufferWrite has still to place; call.done is *writeLen.
In == SubSeq(OutBuf, call.done + 1, Len(OutBuf))
FreeSpace == OutSize - (bUio.off + Len(bUio.bytes))

\* Mutant: the free space is filled before the rest is looked at.
BufferCachePart ==
  /\ call.pc = "write" /\ bUio.on
  /\ LET real == IF FreeSpace < Len(In) THEN FreeSpace ELSE Len(In)
     IN  /\ real > 0
         /\ bUio' = [bUio EXCEPT !.bytes = @ \o SubSeq(In, 1, real)]
         /\ IF real = Len(In) THEN Wrote(Len(OutBuf))
            ELSE call' = [call EXCEPT !.done = @ + real] /\ UNCHANGED <<rec, app, last>>
  /\ UNCHANGED <<built, wire, setups, busy, disturbed>>

\* BufferWrite: there is room, and TryCompleteBuffer copies it.
BufferCache ==
  /\ call.pc = "write" /\ bUio.on /\ FreeSpace >= Len(In)
  /\ bUio' = [bUio EXCEPT !.bytes = @ \o In]
  /\ Wrote(Len(OutBuf))
  /\ UNCHANGED <<built, wire, setups, busy, disturbed>>

\* One round of BufferFlushInternal, after which outOff starts again at 0.
Flushed(k) ==
  IF k = Len(bUio.bytes) THEN [bUio EXCEPT !.off = 0, !.bytes = <<>>]
  ELSE [bUio EXCEPT !.off = @ + k, !.bytes = SubSeq(@, k + 1, Len(@))]

\* BufferWrite: no room; what is in the buffer goes first.
BufferMakeRoom ==
  /\ call.pc = "write" /\ bUio.on /\ FreeSpace < Len(In) /\ bUio.bytes # <<>>
  /\ \E k \in Taken(bUio.bytes) :
       /\ Transport(bUio.bytes, k)
       /\ bUio' = Flushed(k)
       /\ IF k = 0 THEN Wrote(call.done) ELSE UNCHANGED <<rec, app, call, last>>
  /\ UNCHANGED <<built, setups, disturbed>>

\* BufferWrite: the buffer is empty.  What fills it goes to the transport, and the rest is looked at again.
BufferDirect ==
  /\ call.pc = "write" /\ bUio.on /\ FreeSpace < Len(In) /\ bUio.bytes = <<>>
  /\ bUio' = [bUio EXCEPT !.off = 0]
  /\ IF Len(In) < OutSize THEN UNCHANGED <<rec, wire, app, call, last, busy>>
     ELSE \E k \in Taken(In) :
            /\ Transport(In, k)
            /\ IF k = 0 \/ k = Len(In) THEN Wrote(call.done + k)
               ELSE call' = [call EXCEPT !.done = @ + k] /\ UNCHANGED <<rec, app, last>>
  /\ UNCHANGED <<built, setups, disturbed>>

\* REC_FlightTransmit and BufferFlush; the next UIO's flush does nothing.  At the end of a handshake HS_DeInit frees the buffer.
FlightDone ==
  /\ call.pc = "flush" /\ (bUio.on => bUio.bytes = <<>>)
  /\ Return("SUCCESS") /\ app' = AppWritten
  /\ bUio' = IF call.op = "done" /\ ~Datagram THEN NoBuffer ELSE bUio
  /\ UNCHANGED <<rec, built, wire, setups, busy, disturbed>>

\* Mutant: a busy flush is not reported.
BufferFlushIgnored ==
  /\ call.pc = "flush" /\ bUio.on /\ bUio.bytes # <<>>
  /\ \E k \in Taken(bUio.bytes) :
       /\ Transport(bUio.bytes, k)
       /\ bUio' = Flushed(k)
       /\ IF k = 0 THEN Return("SUCCESS") /\ app' = AppWritten ELSE UNCHANGED <<call, last, app>>
  /\ UNCHANGED <<rec, built, setups, disturbed>>

BufferFlush ==
  /\ call.pc = "flush" /\ bUio.on /\ bUio.bytes # <<>>
  /\ \E k \in Taken(bUio.bytes) :
       /\ Transport(bUio.bytes, k)
       /\ bUio' = Flushed(k)
       /\ IF k = 0 THEN Return("IO_BUSY") ELSE UNCHANGED <<call, last>>
  /\ UNCHANGED <<rec, built, app, setups, disturbed>>

\* ChangeBufferSize, called by REC_QueryMtu when the path MTU changed: BufferSetBufferSize empties the buffer.
ChangeBufferSize ==
  /\ Datagram /\ bUio.on /\ bUio.bytes # <<>> /\ setups < link.setups
  /\ call.pc = "flush" \/ (call.pc = "record" /\ call.op = "app")
  /\ setups' = setups + 1
  /\ bUio' = [bUio EXCEPT !.off = 0, !.bytes = <<>>]
  /\ disturbed' = IF call.pc = "flush" /\ call.op = "app" THEN disturbed \cup {app.next} ELSE disturbed
  /\ UNCHANGED <<rec, built, wire, app, call, last, busy>>

Write == TlsRecordWrite \/ DtlsRecordWrite \/ TransportWrite \/ BufferCache \/ BufferMakeRoom \/ BufferDirect \/ FlightDone \/ BufferFlush
Next == (HsInit \/ AppWrite \/ HsSend \/ HsDone \/ OutBufFlush \/ DtlsDeInit \/ ChangeBufferSize \/ Write) /\ UNCHANGED link

Spec == Init /\ [][Next]_vars

-----------------------------------------------------------------------------
(* Properties.                                                             *)

\* The record in outBuf is the last one built, and the buffer holds no more than its size.
TypeOK ==
  /\ rec.seq \in 0..(MaxSeq + 1) /\ rec.isWrapped \in BOOLEAN
  /\ rec.num \in {0, Len(built)} /\ rec.num # 0 => rec.start \in 0..(built[rec.num].len - 1)
  /\ bUio.off + Len(bUio.bytes) <= OutSize
  /\ ~bUio.on => bUio = NoBuffer
  /\ call.done \in 0..Len(OutBuf)

AllBytes == FlattenSeq([n \in 1..Len(built) |-> Bytes(n)])

\* All bytes of the n-th record are on the wire, in whatever pieces.
OnWire(n) == \A i \in 1..built[n].len : \E d \in DOMAIN wire : \E j \in DOMAIN wire[d] : wire[d][j] = <<n, i>>

\* A write of application data that reports success has left nothing behind in outBuf or in the buffer, and
\* a record with that data is on the wire as a whole, unless the write was disturbed (rec_write.c:412, and
\* ChangeBufferSize).  Over a stream so is every record written before it, and at the end of a handshake that
\* reports success the whole flight (only the record of a pending write may be in outBuf).
SuccessMeansSent ==
  last.ret = "SUCCESS" /\ call.pc = "idle" /\ last.op \in {"app", "done"} =>
    /\ bUio.bytes = <<>>
    /\ ~Datagram => \A n \in 1..Len(built) : n # rec.num => OnWire(n)
    /\ last.op = "app" =>
         /\ OutBuf = <<>>
         /\ \/ app.next - 1 \in disturbed
            \/ \E n \in 1..Len(built) : built[n].type = "app" /\ built[n].data = app.next - 1 /\ OnWire(n)

\* Whole records in the order they were built: a byte stands between the other bytes of its record, and
\* the first byte of a record after bytes of earlier records only.
Whole(b) ==
  \A i \in 1..Len(b) :
    LET n == b[i][1]
        k == b[i][2]
    IN  /\ n \in 1..Len(built) /\ k \in 1..built[n].len
        /\ k > 1 => i > 1 /\ b[i - 1] = <<n, k - 1>>
        /\ k < built[n].len => i < Len(b) /\ b[i + 1] = <<n, k + 1>>
        /\ k = 1 /\ i > 1 => b[i - 1][1] < n

\* Whatever the transport takes at a time: over a stream no byte of a record is lost, repeated or
\* overtaken (the wire, the buffer and the rest of outBuf are the records one after the other); over
\* datagrams, each one holds whole records.
WireIntact ==
  IF Datagram THEN \A d \in 1..Len(wire) : Whole(wire[d])
  ELSE FlattenSeq(wire) \o bUio.bytes \o In = AllBytes

Sent == {n \in 1..Len(built) : \E d \in DOMAIN wire : \E i \in DOMAIN wire[d] : wire[d][i][1] = n}

\* No two records go out under one sequence number, though a datagram that fails is built again under the same.
SeqOnce == \A m, n \in Sent : built[m].seq = built[n].seq => m = n

\* A piece of application data goes out in one record only ("into a single record", hitls.h).
DataInOneRecord ==
  \A m, n \in Sent : built[m].type = "app" /\ built[n].type = "app" /\ built[m].data = built[n].data => m = n

\* However often the write of a piece of data is repeated (APP_Write, pendingData), and whatever handshake
\* messages go out in between, it goes out in one record only, on a connection without flight mode and
\* unless another call sent its record in place of its own (rec_write.c:412, HITLS_Flush).
DataOnce ==
  ~Flight =>
    \A m, n \in Sent :
      /\ built[m].type = "app" /\ built[n].type = "app" /\ built[m].data = built[n].data
      /\ built[m].data \notin disturbed
      => m = n

\* A write that was busy may be continued: when the numbers have run out, no record is left half sent.
NoHalfRecord == last.ret = "ERR_SN_WRAPPING" => OutBuf = <<>>
=============================================================================
