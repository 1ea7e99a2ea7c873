------------------------------ MODULE HsReass ------------------------------
(***************************************************************************)
(* The reassembly queue of DTLS handshake messages (tls/handshake/reass)   *)
(* and the code that fills and empties it (hs_state_recv.c).  Fragments of *)
(* messages arrive in any order, overlap, repeat and contradict each other.*)
(*                                                                         *)
(* A connection outlives its handshake: another one may follow, and a      *)
(* message that nobody expects is read with a handshake context of its own.*)
(* A bitmap is a function from byte numbers to the set of bits that are    *)
(* set.  A header is what the fragments of one message have in common.     *)
(***************************************************************************)
EXTENDS Integers, Sequences

CONSTANTS
  Headers,   \* headers of the messages whose fragments arrive
  Cuts,      \* offsets at which messages are cut
  Cookie,    \* TRUE for a server that asks for a cookie
  MaxExceed, \* MAX_NUM_EXCEED_EXPECT
  MaxDelivered \* bound: messages handed over

ASSUME HsReassAssumption ==
  /\ Headers \subseteq [sequence : Nat, type : STRING, length : Nat]
  /\ Cuts \subseteq Nat /\ MaxExceed \in Nat /\ MaxDelivered \in Nat
  /\ Cookie \in BOOLEAN

VARIABLES
  mode,           \* the handshake, a renegotiation, or a message unexpected on an established connection
  over,           \* TRUE when the connection is established (CM_STATE_TRANSPORTING)
  expectRecvSeq,  \* number of the next message
  queue,          \* nodes of the queue, by sequence number
  delivered,      \* messages handed to the parser since HS_Init: header and bytes present
  failed          \* TRUE after a fatal alert

vars == <<mode, over, expectRecvSeq, queue, delivered, failed>>

-----------------------------------------------------------------------------
(* Bitmaps.                                                                *)

Bits == 0..7

\* g_startMaskMap and g_endMaskMap.
StartMask(i) == i..7
EndMask(i) == 0..i

\* Mutant: the middle is filled from the first byte that is set.
SetBitMapTooFar(map, offset, length) ==
  LET start == offset
      end == offset + length - 1 IN
  [b \in DOMAIN map |->
     map[b] \cup
       (IF end - start < 8 THEN {i \in Bits : 8 * b + i \in start..end}
        ELSE IF b >= start \div 8 /\ b < end \div 8 THEN Bits
        ELSE IF b = end \div 8 THEN EndMask(end % 8)
        ELSE {})]

\* SetReassBitMap: bit by bit for up to eight bytes; otherwise a first byte, a
\* run of whole bytes and a last byte.
SetReassBitMap(map, offset, length) ==
  LET start == offset
      end == offset + length - 1 IN
  [b \in DOMAIN map |->
     map[b] \cup
       (IF end - start < 8 THEN {i \in Bits : 8 * b + i \in start..end}
        ELSE IF b = start \div 8 THEN StartMask(start % 8)
        ELSE IF b > start \div 8 /\ b < end \div 8 THEN Bits
        ELSE IF b = end \div 8 THEN EndMask(end % 8)
        ELSE {})]

\* IsReassComplete.
IsReassComplete(map, msgLen) ==
  LET last == msgLen - 1 IN
  /\ map[last \div 8] = EndMask(last % 8)
  /\ \A b \in 0..((last \div 8) - 1) : map[b] = Bits

-----------------------------------------------------------------------------
(* The queue.                                                              *)

Seqs == {h.sequence : h \in Headers}

\* ReassNodeNew: a bitmap of (length + 7) / 8 bytes, nothing set.  got is the
\* set of bytes copied into the node's message.
ReassNodeNew(hdr) ==
  [present |-> TRUE, type |-> hdr.type, length |-> hdr.length,
   reassBitMap |-> [b \in 0..(((hdr.length + 7) \div 8) - 1) |-> {}],
   got |-> {}, isReassComplete |-> FALSE]

NoNode ==
  [present |-> FALSE, type |-> "none", length |-> 0, reassBitMap |-> [b \in {} |-> {}],
   got |-> {}, isReassComplete |-> FALSE]

\* ReassembleMsg on a node whose type and length are the fragment's.
ReassembleMsg(node, offset, length) ==
  IF node.length = 0 THEN [node EXCEPT !.isReassComplete = TRUE]
  ELSE LET map == SetReassBitMap(node.reassBitMap, offset, length) IN
       [node EXCEPT !.reassBitMap = map,
                    !.got = @ \cup (offset..(offset + length - 1)),
                    !.isReassComplete = @ \/ IsReassComplete(map, node.length)]

\* HS_ReassNew, of a new handshake context.
EmptyQueue == [s \in Seqs |-> NoNode]

Init ==
  /\ mode = "handshake" /\ over = FALSE
  /\ expectRecvSeq = 0
  /\ queue = EmptyQueue
  /\ delivered = <<>>
  /\ failed = FALSE

\* DtlsParseHsMsgHeader.
ValidFragment(hdr, offset, length) ==
  offset + length <= hdr.length /\ (hdr.length # 0 => length # 0)

\* A first client hello that comes again while the server waits for the one
\* with the cookie.
HelloAgain(hdr) ==
  Cookie /\ mode = "handshake" /\ hdr.sequence = 0 /\ hdr.type = "client_hello" /\ expectRecvSeq = 1

\* Mutant: the queue takes messages of any number.
AppendAnyNumber(expect, q, hdr, offset, length) ==
  LET old == q[hdr.sequence]
      node == IF old.present THEN old ELSE ReassNodeNew(hdr) IN
  IF node.type # hdr.type \/ node.length # hdr.length
  THEN failed' = TRUE /\ queue' = q
  ELSE /\ queue' = [q EXCEPT ![hdr.sequence] = ReassembleMsg(node, offset, length)]
       /\ UNCHANGED failed

\* HS_ReassAppend to queue q.
HS_ReassAppend(expect, q, hdr, offset, length) ==
  LET old == q[hdr.sequence]
      node == IF old.present THEN old ELSE ReassNodeNew(hdr) IN
  IF hdr.sequence > expect + MaxExceed THEN queue' = q /\ UNCHANGED failed
  ELSE IF node.type # hdr.type \/ node.length # hdr.length
       THEN failed' = TRUE /\ queue' = q
       ELSE /\ queue' = [q EXCEPT ![hdr.sequence] = ReassembleMsg(node, offset, length)]
            /\ UNCHANGED failed

\* The message after which the connection is established: the Finished, or the
\* one nobody expected, which is refused or answered.
LastMessage(m, type) == type = "finished" \/ (m = "unexpected" /\ type # "hello_request")

\* DtlsCheckAndParseMsg: the message is taken after those of d, or the parser
\* refuses it.
Parse(m, expect, d, msg) ==
  \/ /\ delivered' = Append(d, msg) /\ expectRecvSeq' = expect + 1
     /\ over' = LastMessage(m, msg.type)
     /\ UNCHANGED failed
  \/ /\ failed' = TRUE /\ expectRecvSeq' = expect
     /\ delivered' = d /\ over' = FALSE

\* HS_GetReassMsg finds the next message complete.
GetReassMsg ==
  /\ ~failed /\ ~over /\ Len(delivered) < MaxDelivered
  /\ expectRecvSeq \in Seqs /\ queue[expectRecvSeq].isReassComplete
  /\ LET node == queue[expectRecvSeq] IN
     Parse(mode, expectRecvSeq, delivered,
           [sequence |-> expectRecvSeq, type |-> node.type, length |-> node.length, got |-> node.got])
  /\ queue' = [queue EXCEPT ![expectRecvSeq] = NoNode]
  /\ UNCHANGED mode

\* Mutant: a message that comes too late is not recognised as such.
TakeOld(m, expect, q, d, hdr, offset, length) ==
  IF (m # "unexpected" /\ hdr.sequence > expect) \/ length # hdr.length
  THEN /\ HS_ReassAppend(expect, q, hdr, offset, length)
       /\ expectRecvSeq' = expect /\ delivered' = d /\ over' = FALSE
  ELSE /\ Parse(m, expect, d, [sequence |-> hdr.sequence, type |-> hdr.type,
                               length |-> hdr.length, got |-> 0..(length - 1)])
       /\ queue' = q

\* What DtlsReadAndParseHandshakeMsg does with a fragment.  The number of a
\* message that is unexpected on an established connection is not compared
\* with the expected one (IsUnexpectedHandshaking).
TakeFragment(m, expect, q, d, hdr, offset, length) ==
  IF /\ m # "unexpected"
     /\ hdr.sequence < expect \/ (expect = 0 /\ hdr.sequence # 0 /\ hdr.type = "finished")
  THEN expectRecvSeq' = expect /\ queue' = q /\ delivered' = d /\ over' = FALSE /\ UNCHANGED failed
  ELSE IF (m # "unexpected" /\ hdr.sequence > expect) \/ length # hdr.length
  THEN /\ HS_ReassAppend(expect, q, hdr, offset, length)
       /\ expectRecvSeq' = expect /\ delivered' = d /\ over' = FALSE
  ELSE /\ Parse(m, expect, d, [sequence |-> hdr.sequence, type |-> hdr.type,
                               length |-> hdr.length, got |-> 0..(length - 1)])
       /\ queue' = q

\* A fragment is read while a handshake goes on.
ReadFragment(hdr, offset, length) ==
  /\ ~failed /\ ~over /\ Len(delivered) < MaxDelivered
  /\ ~(expectRecvSeq \in Seqs /\ queue[expectRecvSeq].isReassComplete)
  /\ IF ValidFragment(hdr, offset, length)
     THEN TakeFragment(mode, IF HelloAgain(hdr) THEN 0 ELSE expectRecvSeq, queue, delivered, hdr, offset, length)
     ELSE failed' = TRUE /\ UNCHANGED <<over, expectRecvSeq, queue, delivered>>
  /\ UNCHANGED mode

\* What a message starts on an established connection: a renegotiation, or a
\* handshake that ends with this message, namely the refusal of a renegotiation
\* or the retransmission that answers a Finished which comes again.
Starts(type) ==
  CASE type = "client_hello"  -> {"renegotiation", "unexpected"}
    [] type = "hello_request" -> {"renegotiation"}
    [] type = "finished"      -> {"unexpected"}
    [] OTHER                  -> {}

\* PreprocessUnexpectHsMsg: the first fragment that is read on an established
\* connection replaces the handshake context and is then taken, if its type
\* starts something.
UnexpectedFragment(hdr, offset, length) ==
  /\ ~failed /\ over
  /\ \E m \in Starts(hdr.type) :
       /\ mode' = m
       /\ IF ValidFragment(hdr, offset, length)
          THEN TakeFragment(m, 0, EmptyQueue, <<>>, hdr, offset, length)
          ELSE /\ failed' = TRUE /\ over' = FALSE
               /\ expectRecvSeq' = 0 /\ queue' = EmptyQueue /\ delivered' = <<>>

\* PreprocessUnexpectHsMsg refuses a fragment: the fatal alert for a type that
\* starts nothing at this end, or ConsumeHandshakeMessage for a hello request
\* that is answered by a warning and a Finished that needs no answer.
UnexpectedRefused(hdr) ==
  /\ ~failed /\ over
  /\ \/ hdr.type # "finished" /\ failed' = TRUE
     \/ hdr.type \in {"hello_request", "finished"} /\ UNCHANGED failed
  /\ expectRecvSeq' = 0 /\ queue' = EmptyQueue /\ delivered' = <<>>
  /\ UNCHANGED <<mode, over>>

\* HITLS_Renegotiate.  A client goes on to read the answer to its hello; a
\* server sends a hello request and is established again.
HITLS_Renegotiate ==
  /\ ~failed /\ over
  /\ mode' = "renegotiation" /\ over' \in BOOLEAN
  /\ expectRecvSeq' = 0 /\ queue' = EmptyQueue /\ delivered' = <<>>
  /\ UNCHANGED failed

Next ==
  \/ GetReassMsg
  \/ \E hdr \in Headers, offset \in Cuts, end \in Cuts :
       /\ offset <= end
       /\ ReadFragment(hdr, offset, end - offset) \/ UnexpectedFragment(hdr, offset, end - offset)
  \/ \E hdr \in Headers : UnexpectedRefused(hdr)
  \/ HITLS_Renegotiate

Spec == Init /\ [][Next]_vars

-----------------------------------------------------------------------------
(* Properties.                                                             *)

Types == {h.type : h \in Headers} \cup {"none"}
Delivered == [sequence : Nat, type : Types, length : Nat, got : SUBSET Nat]

\* A node of the queue for a message of the given length.
NodeOf(length) ==
  [present : BOOLEAN, type : Types, length : Nat,
   reassBitMap : [0..(((length + 7) \div 8) - 1) -> SUBSET Bits],
   got : SUBSET Nat, isReassComplete : BOOLEAN]

TypeOK ==
  /\ mode \in {"handshake", "renegotiation", "unexpected"} /\ over \in BOOLEAN
  /\ expectRecvSeq \in Nat /\ failed \in BOOLEAN
  /\ delivered \in Seq(Delivered)
  /\ DOMAIN queue = Seqs
  /\ \A s \in Seqs : queue[s] \in NodeOf(queue[s].length)

\* A message is handed to the parser only when every one of its bytes has been
\* copied, whatever fragments came, in whatever order (IsReassComplete).
WholeMessages == \A i \in DOMAIN delivered : delivered[i].got = 0..(delivered[i].length - 1)

\* The messages of a handshake or a renegotiation are handed over in the order
\* of their numbers from 0 on, each once, whatever was in the queue when it
\* began; only a first client hello is taken again while the cookie is awaited.
\* The one message that is read unexpectedly on an established connection may
\* have any number (IsUnexpectedHandshaking).
InOrder ==
  mode # "unexpected" =>
    /\ Len(delivered) > 0 => delivered[1].sequence = 0
    /\ \A i \in 1..(Len(delivered) - 1) :
         \/ delivered[i + 1].sequence = delivered[i].sequence + 1
         \/ Cookie /\ mode = "handshake" /\ delivered[i].sequence = 0 /\ delivered[i + 1].sequence = 0

\* The bitmap of a node has the bits of the bytes that were copied, and a node
\* is complete exactly when all its bytes were.
BitMapExact ==
  \A s \in Seqs : LET n == queue[s] IN n.present =>
    /\ n.got \subseteq 0..(n.length - 1)
    /\ \A b \in DOMAIN n.reassBitMap : n.reassBitMap[b] = {i \in Bits : 8 * b + i \in n.got}
    /\ n.length # 0 => (n.isReassComplete <=> n.got = 0..(n.length - 1))

\* "discard the message to prevent unlimited memory application"
\* (HS_ReassAppend): no node is more than MAX_NUM_EXCEED_EXPECT ahead, one
\* more after the server has gone back to the first hello.
QueueBounded ==
  \A s \in Seqs : queue[s].present => s <= expectRecvSeq + MaxExceed + (IF Cookie /\ expectRecvSeq = 0 THEN 1 ELSE 0)
=============================================================================
