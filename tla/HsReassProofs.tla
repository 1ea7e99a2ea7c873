--------------------------- MODULE HsReassProofs ---------------------------
(***************************************************************************)
(* Proofs about HsReass for every set of messages, every way to cut them   *)
(* and every bound of the queue.  The lemmas on bitmaps say what the code's*)
(* masks compute; with them the fields of a node determine each other      *)
(* (NodeInv), and IInv ties the messages handed over to the number         *)
(* expected.                                                               *)
(***************************************************************************)
EXTENDS HsReass, TLAPS

\* Division by eight with remainder, the code's >> 3 and & 7.
LEMMA DivMod ==
  ASSUME NEW n \in Nat
  PROVE  /\ n \div 8 \in Nat /\ n % 8 \in Bits
         /\ n = 8 * (n \div 8) + (n % 8)
  BY SMT DEF Bits

\* The bits of byte b of the bitmap that stand for bytes of a fragment.
Marks(b, offset, length) == {i \in Bits : 8 * b + i \in offset..(offset + length - 1)}

\* SetReassBitMap adds to each byte of the bitmap the bits of the fragment and
\* no others, whether it sets them one by one or with masks.
LEMMA SetBits ==
  ASSUME NEW D \in SUBSET Nat, NEW map \in [D -> SUBSET Bits],
         NEW off \in Nat, NEW n \in Nat, n # 0
  PROVE  \A b \in D : SetReassBitMap(map, off, n)[b]
                        = map[b] \cup Marks(b, off, n)
<1> TAKE b \in D
<1> DEFINE end == off + n - 1
           q == off \div 8
           r == off % 8
           p == end \div 8
           t == end % 8
           new == Marks(b, off, n)
<1>0. end \in Nat /\ b \in Nat /\ DOMAIN map = D
  OBVIOUS
<1>1. q \in Nat /\ r \in Bits /\ off = 8 * q + r
  BY DivMod
<1>2. p \in Nat /\ t \in Bits /\ end = 8 * p + t
  BY <1>0, DivMod
<1>3. CASE end - off < 8
  BY <1>0, <1>3 DEF SetReassBitMap, Marks
<1>4. CASE ~(end - off < 8)
  <2>0. new = {i \in Bits : 8 * b + i \in off..end}
    BY DEF Marks
  <2> HIDE DEF q, r, p, t, end, new
  <2>1. q < p
    BY <1>0, <1>1, <1>2, <1>4 DEF Bits
  <2>2. b = q => new = StartMask(r)
    BY <1>0, <1>1, <1>2, <2>0, <2>1 DEF Bits, StartMask
  <2>3. b = p => new = EndMask(t)
    BY <1>0, <1>1, <1>2, <2>0, <2>1 DEF Bits, EndMask
  <2>4. b > q /\ b < p => new = Bits
    BY <1>0, <1>1, <1>2, <2>0, <2>1 DEF Bits
  <2>5. b < q \/ b > p => new = {}
    BY <1>0, <1>1, <1>2, <2>0, <2>1 DEF Bits
  <2>6. SetReassBitMap(map, off, n)[b] =
          map[b] \cup (IF b = q THEN StartMask(r)
                       ELSE IF b > q /\ b < p THEN Bits
                       ELSE IF b = p THEN EndMask(t) ELSE {})
    BY <1>0, <1>4 DEF SetReassBitMap, q, r, p, t, end
  <2>7. b = q \/ (b > q /\ b < p) \/ b = p \/ b < q \/ b > p
    BY <1>0, <1>1, <1>2
  <2>8. SetReassBitMap(map, off, n)[b] = map[b] \cup new
    BY <1>0, <1>1, <1>2, <2>1, <2>2, <2>3, <2>4, <2>5, <2>6, <2>7
  <2> QED BY <2>8 DEF new
<1> QED BY <1>3, <1>4

\* SetReassBitMap writes only bytes that the bitmap has.
LEMMA SetBitsType ==
  ASSUME NEW D \in SUBSET Nat, NEW map \in [D -> SUBSET Bits],
         NEW off \in Nat, NEW n \in Nat, n # 0
  PROVE  SetReassBitMap(map, off, n) \in [D -> SUBSET Bits]
<1>1. DOMAIN SetReassBitMap(map, off, n) = D
  BY DEF SetReassBitMap
<1>2. \A b \in D : SetReassBitMap(map, off, n)[b] \in SUBSET Bits
  <2>1. \A b \in D : SetReassBitMap(map, off, n)[b] = map[b] \cup Marks(b, off, n)
    BY SetBits
  <2> QED BY <2>1 DEF Marks
<1>3. SetReassBitMap(map, off, n) = [b \in D |-> SetReassBitMap(map, off, n)[b]]
  BY <1>1 DEF SetReassBitMap
<1> QED BY <1>2, <1>3

\* IsReassComplete of an exact bitmap says that every byte has been copied.
LEMMA Complete ==
  ASSUME NEW len \in Nat \ {0}, NEW got \in SUBSET (0..(len - 1)),
         NEW map, \A b \in 0..(((len + 7) \div 8) - 1) : map[b] = {i \in Bits : 8 * b + i \in got}
  PROVE  IsReassComplete(map, len) <=> got = 0..(len - 1)
<1> DEFINE last == len - 1
           p == last \div 8
           t == last % 8
<1>0. last \in Nat
  OBVIOUS
<1>1. p \in Nat /\ t \in Bits /\ last = 8 * p + t
  BY <1>0, DivMod
<1>2. ((len + 7) \div 8) - 1 = p
  BY <1>0
<1> HIDE DEF p, t
<1>3. map[p] = {i \in Bits : 8 * p + i \in got}
  BY <1>1, <1>2
<1>4. \A b \in 0..(p - 1) : map[b] = {i \in Bits : 8 * b + i \in got}
  BY <1>1, <1>2
<1>5. IsReassComplete(map, len) <=>
        map[p] = EndMask(t) /\ \A b \in 0..(p - 1) : map[b] = Bits
  BY DEF IsReassComplete, p, t
<1>6. ASSUME got = 0..last PROVE IsReassComplete(map, len)
  <2>1. map[p] = EndMask(t)
    BY <1>0, <1>1, <1>3, <1>6 DEF EndMask, Bits
  <2>2. ASSUME NEW b \in 0..(p - 1) PROVE map[b] = Bits
    BY <1>0, <1>1, <1>4, <1>6, SMTT(30) DEF Bits
  <2> QED BY <1>5, <2>1, <2>2
<1>7. ASSUME IsReassComplete(map, len) PROVE got = 0..last
  <2>1. SUFFICES ASSUME NEW k \in 0..last PROVE k \in got
    OBVIOUS
  <2> DEFINE b == k \div 8
             i == k % 8
  <2>2. b \in Nat /\ i \in Bits /\ k = 8 * b + i
    BY <1>0, DivMod
  <2> HIDE DEF b, i
  <2>3. b \in 0..p
    BY <1>0, <1>1, <2>2 DEF Bits
  <2>4. CASE b = p
    <3>1. i \in EndMask(t)
      BY <1>0, <1>1, <2>2, <2>4 DEF EndMask, Bits
    <3> QED BY <1>3, <1>5, <1>7, <2>2, <2>4, <3>1
  <2>5. CASE b # p
    <3>1. b \in 0..(p - 1)
      BY <1>1, <2>3, <2>5
    <3> QED BY <1>4, <1>5, <1>7, <2>2, <3>1
  <2> QED BY <2>4, <2>5
<1> QED BY <1>6, <1>7

-----------------------------------------------------------------------------
(* Nodes.                                                                  *)

\* What holds of a node: its bitmap tells the bytes copied, and it is complete
\* when they are all there.
NodeInv(n) ==
  /\ n \in NodeOf(n.length)
  /\ ~n.present => ~n.isReassComplete
  /\ n.present =>
       /\ n.got \subseteq 0..(n.length - 1)
       /\ \A b \in DOMAIN n.reassBitMap : n.reassBitMap[b] = {i \in Bits : 8 * b + i \in n.got}
       /\ n.length # 0 => (n.isReassComplete <=> n.got = 0..(n.length - 1))

\* A new node (ReassNodeNew) is consistent.
LEMMA NewNode ==
  ASSUME NEW hdr \in Headers
  PROVE  NodeInv(ReassNodeNew(hdr)) /\ ReassNodeNew(hdr).present
         /\ ReassNodeNew(hdr).length = hdr.length
<1> DEFINE n == ReassNodeNew(hdr)
<1>0. hdr.type \in Types /\ hdr.length \in Nat
  BY HsReassAssumption DEF Types
<1>1. n \in NodeOf(n.length) /\ n.present /\ n.length = hdr.length
      /\ n.got = {} /\ ~n.isReassComplete
  BY <1>0 DEF ReassNodeNew, NodeOf
<1>2. \A b \in DOMAIN n.reassBitMap : n.reassBitMap[b] = {i \in Bits : 8 * b + i \in n.got}
  BY <1>1 DEF ReassNodeNew
<1>3. n.length # 0 => n.got # 0..(n.length - 1)
  <2> HAVE n.length # 0
  <2>1. 0 \in 0..(n.length - 1)
    BY <1>0, <1>1
  <2> QED BY <1>1, <2>1
<1> HIDE DEF n
<1>4. NodeInv(n)
  BY <1>1, <1>2, <1>3 DEF NodeInv
<1> QED BY <1>1, <1>4 DEF n

\* So is the absence of a node.
LEMMA EmptyNode == NodeInv(NoNode) /\ ~NoNode.present
<1>1. [b \in {} |-> {}] \in [0..(((0 + 7) \div 8) - 1) -> SUBSET Bits]
  <2>1. ((0 + 7) \div 8) - 1 = -1
    OBVIOUS
  <2>2. 0..(-1) = {}
    OBVIOUS
  <2> QED BY <2>1, <2>2
<1>2. /\ NoNode.present = FALSE /\ NoNode.length = 0 /\ NoNode.isReassComplete = FALSE
  BY DEF NoNode
<1>3. NoNode \in NodeOf(0)
  <2>1. "none" \in Types
    BY DEF Types
  <2> QED BY <1>1, <2>1, Zenon DEF NoNode, NodeOf
<1> QED BY <1>2, <1>3 DEF NodeInv

\* ReassembleMsg keeps a node consistent on a fragment inside its message.
LEMMA Reassembled ==
  ASSUME NEW node, NodeInv(node), node.present,
         NEW off \in Nat, NEW n \in Nat,
         off + n <= node.length, node.length # 0 => n # 0
  PROVE  NodeInv(ReassembleMsg(node, off, n)) /\ ReassembleMsg(node, off, n).present
<1> DEFINE new == ReassembleMsg(node, off, n)
           map == node.reassBitMap
           D == 0..(((node.length + 7) \div 8) - 1)
<1>0. node \in NodeOf(node.length) /\ node.length \in Nat /\ map \in [D -> SUBSET Bits]
      /\ node.got \in SUBSET Nat
  BY DEF NodeInv, NodeOf
<1>a. D \in SUBSET Nat
  BY <1>0
<1>b. ASSUME node.length # 0, NEW b \in D
      PROVE  map[b] = {i \in Bits : 8 * b + i \in node.got}
  BY <1>0 DEF NodeInv
<1> HIDE DEF map
<1>1. CASE node.length = 0
  <2>1. new = [node EXCEPT !.isReassComplete = TRUE]
    BY <1>1 DEF ReassembleMsg
  <2>2. new \in NodeOf(node.length) /\ new.length = node.length /\ new.present
        /\ new.got = node.got /\ new.reassBitMap = map
    BY <1>0, <2>1 DEF NodeOf, map
  <2> HIDE DEF new
  <2>3. NodeInv(new)
    BY <1>1, <2>2 DEF NodeInv, map
  <2> QED BY <2>2, <2>3 DEF new
<1>2. CASE node.length # 0
  <2> DEFINE m == SetReassBitMap(map, off, n)
             g == node.got \cup (off..(off + n - 1))
             c == node.isReassComplete \/ IsReassComplete(m, node.length)
  <2>1. new = [node EXCEPT !.reassBitMap = m, !.got = g, !.isReassComplete = c]
    BY <1>2 DEF ReassembleMsg, map
  <2>2. n # 0
    BY <1>2
  <2>3. m \in [D -> SUBSET Bits]
    BY <1>0, <1>a, <2>2, SetBitsType
  <2>4. g \in SUBSET (0..(node.length - 1))
    BY <1>0, <1>2, <2>2 DEF NodeInv
  <2>5. ASSUME NEW b \in D PROVE m[b] = {i \in Bits : 8 * b + i \in g}
    <3>1. m[b] = map[b] \cup Marks(b, off, n)
      <4> HIDE DEF D
      <4>1. D \in SUBSET Nat /\ map \in [D -> SUBSET Bits] /\ off \in Nat /\ n \in Nat /\ n # 0 /\ b \in D
        BY <1>0, <1>a, <2>2
      <4>2. SetReassBitMap(map, off, n)[b] = map[b] \cup Marks(b, off, n)
        BY ONLY <4>1, SetBits
      <4> QED BY <4>2
    <3>2. map[b] = {i \in Bits : 8 * b + i \in node.got}
      BY <1>2, <1>b
    <3> QED BY <3>1, <3>2 DEF Marks
  <2> HIDE DEF m
  <2>6. IsReassComplete(m, node.length) <=> g = 0..(node.length - 1)
    BY <1>0, <1>2, <2>4, <2>5, Complete
  <2>7. c <=> g = 0..(node.length - 1)
    <3>1. node.isReassComplete => node.got = 0..(node.length - 1)
      BY <1>2 DEF NodeInv
    <3> QED BY <2>4, <2>6, <3>1
  <2> HIDE DEF c, g
  <2>8. c \in BOOLEAN
    BY DEF c
  <2>9. g \in SUBSET Nat
    BY <1>0, <2>4
  <2>10. new \in NodeOf(node.length) /\ new.length = node.length /\ new.present
         /\ new.got = g /\ new.reassBitMap = m /\ new.isReassComplete = c
    BY <1>0, <2>1, <2>3, <2>8, <2>9 DEF NodeOf
  <2>11. DOMAIN m = D
    BY <2>3
  <2> HIDE DEF new
  <2>12. NodeInv(new)
    BY <2>4, <2>5, <2>7, <2>10, <2>11 DEF NodeInv
  <2> QED BY <2>10, <2>12 DEF new
<1> QED BY <1>1, <1>2

-----------------------------------------------------------------------------
(* The inductive invariant.                                                *)

\* The state of a handshake context, before a step or in the middle of one: the
\* number e expected, the messages d handed over, the queue q.  The number of
\* the last message handed over goes with the number expected, which goes back
\* to the first hello only on a server that awaits a cookie.
LastOf(m, e, d) ==
  IF e = 0
  THEN Len(d) > 0 => Cookie /\ m = "handshake" /\ d[Len(d)].sequence = 0
  ELSE Len(d) > 0 /\ d[Len(d)].sequence = e - 1

OrderOf(m, d) ==
  /\ Len(d) > 0 => d[1].sequence = 0
  /\ \A i \in 1..(Len(d) - 1) :
       \/ d[i + 1].sequence = d[i].sequence + 1
       \/ Cookie /\ m = "handshake" /\ d[i].sequence = 0 /\ d[i + 1].sequence = 0

DeliveryOf(m, e, d) ==
  /\ e \in Nat /\ d \in Seq(Delivered)
  /\ \A i \in DOMAIN d : d[i].got = 0..(d[i].length - 1)
  /\ m # "unexpected" => OrderOf(m, d) /\ LastOf(m, e, d)

QueueOf(e, q) ==
  /\ DOMAIN q = Seqs
  /\ \A s \in Seqs : NodeInv(q[s])
  /\ \A s \in Seqs : q[s].present => s <= e + MaxExceed + (IF Cookie /\ e = 0 THEN 1 ELSE 0)

StatusInv == mode \in {"handshake", "renegotiation", "unexpected"} /\ over \in BOOLEAN /\ failed \in BOOLEAN

IInv == StatusInv /\ DeliveryOf(mode, expectRecvSeq, delivered) /\ QueueOf(expectRecvSeq, queue)

\* What the assumption on Headers says of one header.
LEMMA HeaderFields ==
  ASSUME NEW hdr \in Headers
  PROVE  /\ hdr.sequence \in Nat /\ hdr.length \in Nat /\ hdr.type \in Types
         /\ hdr.sequence \in Seqs
  BY HsReassAssumption DEF Types, Seqs

\* Message numbers are natural numbers.
LEMMA SeqsNat == Seqs \subseteq Nat
  BY HsReassAssumption DEF Seqs

\* The invariant holds of the context that HS_Init makes.
LEMMA NewContext ==
  ASSUME NEW m
  PROVE  DeliveryOf(m, 0, <<>>) /\ QueueOf(0, EmptyQueue)
<1>1. <<>> \in Seq(Delivered) /\ Len(<<>>) = 0 /\ DOMAIN <<>> = {}
  OBVIOUS
<1>2. DeliveryOf(m, 0, <<>>)
  BY <1>1 DEF DeliveryOf, OrderOf, LastOf
<1>3. DOMAIN EmptyQueue = Seqs /\ \A s \in Seqs : EmptyQueue[s] = NoNode
  BY DEF EmptyQueue
<1>4. QueueOf(0, EmptyQueue)
  BY <1>3, EmptyNode DEF QueueOf
<1> QED BY <1>2, <1>4

\* So it does in the first state of a connection.
LEMMA InitInv == Init => IInv
  BY NewContext DEF Init, IInv, StatusInv

\* Handing over a whole message keeps the order of messages, if it has the
\* expected number or is unexpected.
LEMMA OneDelivered ==
  ASSUME NEW m, NEW e, NEW d, DeliveryOf(m, e, d), failed \in BOOLEAN,
         NEW msg \in Delivered, m # "unexpected" => msg.sequence = e, msg.got = 0..(msg.length - 1),
         Parse(m, e, d, msg)
  PROVE  /\ DeliveryOf(m, expectRecvSeq', delivered')
         /\ expectRecvSeq' = e \/ expectRecvSeq' = e + 1
         /\ over' \in BOOLEAN /\ failed' \in BOOLEAN
<1>0. e \in Nat
  BY DEF DeliveryOf
<1>1. CASE failed' = TRUE /\ expectRecvSeq' = e /\ delivered' = d /\ over' = FALSE
  BY <1>1
<1>2. CASE /\ delivered' = Append(d, msg) /\ expectRecvSeq' = e + 1
           /\ over' = LastMessage(m, msg.type)
           /\ failed' = failed
  <2> DEFINE n == Len(d)
             f == Append(d, msg)
  <2>1. /\ d \in Seq(Delivered) /\ n \in Nat /\ Len(f) = n + 1
        /\ f \in Seq(Delivered) /\ f[n + 1] = msg
        /\ \A i \in 1..n : f[i] = d[i]
    BY DEF DeliveryOf
  <2>2. DOMAIN f = 1..(n + 1) /\ DOMAIN d = 1..n
    BY <2>1
  <2> HIDE DEF n, f
  <2>3. ASSUME NEW i \in DOMAIN f
        PROVE  f[i].got = 0..(f[i].length - 1)
    <3>1. CASE i = n + 1
      BY <2>1, <3>1
    <3>2. CASE i \in 1..n
      BY <2>1, <2>2, <3>2 DEF DeliveryOf
    <3> QED BY <2>1, <2>2, <3>1, <3>2
  <2>4. ASSUME m # "unexpected"
        PROVE  OrderOf(m, f) /\ LastOf(m, e + 1, f)
    <3>1. OrderOf(m, d) /\ LastOf(m, e, d) /\ msg.sequence = e
      BY <2>4 DEF DeliveryOf
    <3>2. n = 0 => e = 0
      BY <3>1, <1>0, <2>1 DEF LastOf, n
    <3>3. n > 0 => e = d[n].sequence + 1 \/ (Cookie /\ m = "handshake" /\ d[n].sequence = 0 /\ e = 0)
      <4> HAVE n > 0
      <4>1. d[n] \in Delivered
        BY <2>1
      <4>2. d[n].sequence \in Nat
        BY <4>1 DEF Delivered
      <4> QED BY <1>0, <2>1, <3>1, <4>2 DEF LastOf, n
    <3>4. f[1].sequence = 0
      <4>1. CASE n = 0
        BY <2>1, <3>1, <3>2, <4>1
      <4>2. CASE n > 0
        BY <2>1, <3>1, <4>2 DEF OrderOf, n
      <4> QED BY <2>1, <4>1, <4>2
    <3>5. ASSUME NEW i \in 1..n
          PROVE  \/ f[i + 1].sequence = f[i].sequence + 1
                 \/ Cookie /\ m = "handshake" /\ f[i].sequence = 0 /\ f[i + 1].sequence = 0
      <4>1. CASE i = n
        BY <2>1, <3>1, <3>3, <4>1
      <4>2. CASE i # n
        <5>1. i \in 1..(n - 1) /\ i + 1 \in 1..n
          BY <2>1, <4>2
        <5> QED BY <2>1, <3>1, <5>1 DEF OrderOf, n
      <4> QED BY <4>1, <4>2
    <3>6. OrderOf(m, f)
      BY <2>1, <3>4, <3>5 DEF OrderOf
    <3>7. LastOf(m, e + 1, f)
      BY <1>0, <2>1, <3>1 DEF LastOf
    <3> QED BY <3>6, <3>7
  <2>5. DeliveryOf(m, e + 1, f)
    BY <1>0, <2>1, <2>3, <2>4 DEF DeliveryOf
  <2> QED BY <1>2, <2>5 DEF f, LastMessage
<1> QED BY <1>1, <1>2 DEF Parse

\* HS_ReassAppend keeps every node consistent and the queue bounded.
LEMMA AppendedInv ==
  ASSUME NEW e \in Nat, NEW q, QueueOf(e, q), failed \in BOOLEAN,
         NEW hdr \in Headers, NEW off \in Nat, NEW len \in Nat,
         ValidFragment(hdr, off, len), HS_ReassAppend(e, q, hdr, off, len)
  PROVE  QueueOf(e, queue') /\ failed' \in BOOLEAN
<1> DEFINE h == hdr.sequence
           old == q[h]
           node == IF old.present THEN old ELSE ReassNodeNew(hdr)
           new == ReassembleMsg(node, off, len)
<1>0. h \in Seqs /\ h \in Nat /\ hdr.length \in Nat /\ MaxExceed \in Nat /\ Seqs \subseteq Nat
  BY HeaderFields, SeqsNat, HsReassAssumption
<1>1. CASE queue' = q /\ failed' \in BOOLEAN
  BY <1>1
<1>2. CASE /\ h <= e + MaxExceed /\ node.type = hdr.type /\ node.length = hdr.length
           /\ queue' = [q EXCEPT ![h] = new] /\ failed' = failed
  <2>1. NodeInv(node) /\ node.present
    BY <1>0, NewNode DEF QueueOf
  <2>2. off + len <= node.length /\ (node.length # 0 => len # 0)
    BY <1>2 DEF ValidFragment
  <2> HIDE DEF node
  <2>3. NodeInv(new)
    BY <2>1, <2>2, Reassembled
  <2> HIDE DEF new
  <2>4. DOMAIN queue' = Seqs /\ \A s \in Seqs : queue'[s] = IF s = h THEN new ELSE q[s]
    BY <1>0, <1>2 DEF QueueOf
  <2>5. ASSUME NEW s \in Seqs
        PROVE  /\ NodeInv(queue'[s])
               /\ queue'[s].present => s <= e + MaxExceed + (IF Cookie /\ e = 0 THEN 1 ELSE 0)
    <3>1. CASE s = h
      BY <1>0, <1>2, <2>3, <2>4, <3>1
    <3>2. CASE s # h
      BY <1>0, <2>4, <3>2 DEF QueueOf
    <3> QED BY <3>1, <3>2
  <2> QED BY <1>2, <2>4, <2>5 DEF QueueOf
<1>3. \/ queue' = q /\ failed' = failed
      \/ failed' = TRUE /\ queue' = q
      \/ /\ ~(h > e + MaxExceed) /\ ~(node.type # hdr.type \/ node.length # hdr.length)
         /\ queue' = [q EXCEPT ![h] = new]
         /\ failed' = failed
  BY DEF HS_ReassAppend
<1> HIDE DEF node, h, new
<1>4. ~(h > e + MaxExceed) => h <= e + MaxExceed
  BY <1>0
<1> QED BY <1>1, <1>2, <1>3, <1>4

\* The queue stays bounded when the expected number is that of the next message.
LEMMA QueueMoves ==
  ASSUME NEW e \in Nat, NEW q, QueueOf(e, q), NEW f, f = e \/ f = e + 1
  PROVE  QueueOf(f, q)
<1>1. Seqs \subseteq Nat /\ MaxExceed \in Nat
  BY SeqsNat, HsReassAssumption
<1>2. ASSUME NEW s \in Seqs, q[s].present
      PROVE  s <= f + MaxExceed + (IF Cookie /\ f = 0 THEN 1 ELSE 0)
  <2>1. s \in Nat /\ s <= e + MaxExceed + (IF Cookie /\ e = 0 THEN 1 ELSE 0)
    BY <1>1, <1>2 DEF QueueOf
  <2> QED BY <1>1, <2>1
<1> QED BY <1>2 DEF QueueOf

\* Taking a fragment keeps a context as it should be.
LEMMA TakeInv ==
  ASSUME NEW m, NEW e, NEW q, NEW d, DeliveryOf(m, e, d), QueueOf(e, q), failed \in BOOLEAN,
         NEW hdr \in Headers, NEW off \in Nat, NEW len \in Nat, ValidFragment(hdr, off, len),
         TakeFragment(m, e, q, d, hdr, off, len)
  PROVE  /\ DeliveryOf(m, expectRecvSeq', delivered') /\ QueueOf(expectRecvSeq', queue')
         /\ over' \in BOOLEAN /\ failed' \in BOOLEAN
<1> DEFINE msg == [sequence |-> hdr.sequence, type |-> hdr.type,
                   length |-> hdr.length, got |-> 0..(len - 1)]
<1>0. e \in Nat /\ hdr.sequence \in Nat /\ hdr.length \in Nat /\ hdr.type \in Types
  BY HeaderFields DEF DeliveryOf
<1>1. \/ expectRecvSeq' = e /\ queue' = q /\ delivered' = d /\ over' = FALSE /\ failed' = failed
      \/ /\ HS_ReassAppend(e, q, hdr, off, len)
         /\ expectRecvSeq' = e /\ delivered' = d /\ over' = FALSE
      \/ /\ m # "unexpected" => ~(hdr.sequence < e) /\ ~(hdr.sequence > e)
         /\ len = hdr.length
         /\ Parse(m, e, d, msg) /\ queue' = q
  BY DEF TakeFragment
<1>2. CASE expectRecvSeq' = e /\ queue' = q /\ delivered' = d /\ over' = FALSE /\ failed' = failed
  BY <1>2
<1>3. CASE /\ HS_ReassAppend(e, q, hdr, off, len)
           /\ expectRecvSeq' = e /\ delivered' = d /\ over' = FALSE
  <2>1. QueueOf(e, queue') /\ failed' \in BOOLEAN
    BY <1>0, <1>3, AppendedInv
  <2> QED BY <1>3, <2>1
<1>4. CASE /\ m # "unexpected" => ~(hdr.sequence < e) /\ ~(hdr.sequence > e)
           /\ len = hdr.length
           /\ Parse(m, e, d, msg) /\ queue' = q
  <2>1. /\ msg \in Delivered /\ msg.got = 0..(msg.length - 1)
        /\ m # "unexpected" => msg.sequence = e
    BY <1>0, <1>4 DEF Delivered
  <2> HIDE DEF msg
  <2>2. /\ DeliveryOf(m, expectRecvSeq', delivered')
        /\ expectRecvSeq' = e \/ expectRecvSeq' = e + 1
        /\ over' \in BOOLEAN /\ failed' \in BOOLEAN
    BY <1>4, <2>1, OneDelivered
  <2>3. QueueOf(expectRecvSeq', queue')
    BY <1>0, <1>4, <2>2, QueueMoves
  <2> QED BY <2>2, <2>3
<1> QED BY <1>1, <1>2, <1>3, <1>4

\* HS_GetReassMsg preserves the invariant.
LEMMA GetInv == IInv /\ GetReassMsg => IInv'
<1> SUFFICES ASSUME IInv, GetReassMsg PROVE IInv'
  OBVIOUS
<1> DEFINE e == expectRecvSeq
           node == queue[e]
           msg == [sequence |-> e, type |-> node.type, length |-> node.length, got |-> node.got]
<1>0. /\ DeliveryOf(mode, e, delivered) /\ QueueOf(e, queue) /\ StatusInv /\ e \in Nat /\ e \in Seqs
      /\ node.isReassComplete /\ Parse(mode, e, delivered, msg)
      /\ queue' = [queue EXCEPT ![e] = NoNode] /\ mode' = mode
  BY DEF IInv, DeliveryOf, GetReassMsg
<1>1. NodeInv(node)
  BY <1>0 DEF QueueOf
<1> HIDE DEF e
<1>2. node.got = 0..(node.length - 1) /\ node.length \in Nat /\ node.type \in Types
      /\ node.got \in SUBSET Nat
  <2>1. node \in NodeOf(node.length) /\ node.present
    BY <1>0, <1>1 DEF NodeInv
  <2>2. node.length \in Nat /\ node.type \in Types /\ node.got \in SUBSET Nat
    BY <2>1 DEF NodeOf
  <2>3. /\ node.got \subseteq 0..(node.length - 1)
        /\ node.length # 0 => node.got = 0..(node.length - 1)
    BY <1>0, <1>1, <2>1 DEF NodeInv
  <2> HIDE DEF node
  <2>4. node.length = 0 => node.got = 0..(node.length - 1)
    BY <2>3
  <2> QED BY <2>2, <2>3, <2>4
<1> HIDE DEF node
<1>3. msg \in Delivered /\ msg.sequence = e /\ msg.got = 0..(msg.length - 1)
  BY <1>0, <1>2 DEF Delivered
<1> HIDE DEF msg
<1>4. /\ DeliveryOf(mode, expectRecvSeq', delivered')
      /\ expectRecvSeq' = e \/ expectRecvSeq' = e + 1
      /\ over' \in BOOLEAN /\ failed' \in BOOLEAN
  BY <1>0, <1>3, OneDelivered DEF StatusInv
<1>5. DOMAIN queue' = Seqs /\ \A s \in Seqs : queue'[s] = IF s = e THEN NoNode ELSE queue[s]
  BY <1>0 DEF QueueOf
<1>6. QueueOf(e, queue')
  BY <1>0, <1>5, EmptyNode DEF QueueOf
<1>7. QueueOf(expectRecvSeq', queue')
  BY <1>0, <1>4, <1>6, QueueMoves
<1> QED BY <1>0, <1>4, <1>7 DEF IInv, StatusInv

\* Reading a fragment preserves the invariant.
LEMMA ReadInv ==
  ASSUME IInv, NEW hdr \in Headers, NEW off \in Nat, NEW len \in Nat, ReadFragment(hdr, off, len)
  PROVE  IInv'
<1> DEFINE e == IF HelloAgain(hdr) THEN 0 ELSE expectRecvSeq
<1>0. /\ DeliveryOf(mode, expectRecvSeq, delivered) /\ QueueOf(expectRecvSeq, queue) /\ StatusInv
      /\ mode' = mode
  BY DEF IInv, ReadFragment
<1>1. DeliveryOf(mode, e, delivered) /\ QueueOf(e, queue)
  <2>1. CASE HelloAgain(hdr)
    <3>1. Cookie /\ mode = "handshake" /\ expectRecvSeq = 1 /\ e = 0
      BY <2>1 DEF HelloAgain
    <3>2. LastOf(mode, 0, delivered)
      BY <1>0, <3>1 DEF DeliveryOf, LastOf
    <3>3. DeliveryOf(mode, 0, delivered)
      BY <1>0, <3>1, <3>2 DEF DeliveryOf
    <3>4. Seqs \subseteq Nat /\ MaxExceed \in Nat
      BY SeqsNat, HsReassAssumption
    <3>5. \A s \in Seqs : queue[s].present => s <= 0 + MaxExceed + 1
      BY <1>0, <3>1, <3>4 DEF QueueOf
    <3>6. QueueOf(0, queue)
      BY <1>0, <3>1, <3>5 DEF QueueOf
    <3> QED BY <3>1, <3>3, <3>6
  <2>2. CASE ~HelloAgain(hdr)
    BY <1>0, <2>2
  <2> QED BY <2>1, <2>2
<1>2. \/ ValidFragment(hdr, off, len) /\ TakeFragment(mode, e, queue, delivered, hdr, off, len)
      \/ failed' = TRUE /\ UNCHANGED <<over, expectRecvSeq, queue, delivered>>
  BY DEF ReadFragment
<1> HIDE DEF e
<1>3. CASE ValidFragment(hdr, off, len) /\ TakeFragment(mode, e, queue, delivered, hdr, off, len)
  <2>1. /\ DeliveryOf(mode, expectRecvSeq', delivered') /\ QueueOf(expectRecvSeq', queue')
        /\ over' \in BOOLEAN /\ failed' \in BOOLEAN
    BY <1>0, <1>1, <1>3, TakeInv DEF StatusInv
  <2> QED BY <1>0, <2>1 DEF IInv, StatusInv
<1>4. CASE failed' = TRUE /\ UNCHANGED <<over, expectRecvSeq, queue, delivered>>
  BY <1>0, <1>4 DEF IInv, StatusInv
<1> QED BY <1>2, <1>3, <1>4

\* The first fragment on an established connection finds a new context.
LEMMA UnexpectedInv ==
  ASSUME IInv, NEW hdr \in Headers, NEW off \in Nat, NEW len \in Nat, UnexpectedFragment(hdr, off, len)
  PROVE  IInv'
<1>1. PICK m \in Starts(hdr.type) :
        /\ mode' = m
        /\ \/ ValidFragment(hdr, off, len) /\ TakeFragment(m, 0, EmptyQueue, <<>>, hdr, off, len)
           \/ /\ failed' = TRUE /\ over' = FALSE
              /\ expectRecvSeq' = 0 /\ queue' = EmptyQueue /\ delivered' = <<>>
  BY DEF UnexpectedFragment
<1>2. m \in {"handshake", "renegotiation", "unexpected"} /\ failed \in BOOLEAN
  BY DEF Starts, IInv, StatusInv
<1>3. DeliveryOf(m, 0, <<>>) /\ QueueOf(0, EmptyQueue)
  BY NewContext
<1>4. CASE ValidFragment(hdr, off, len) /\ TakeFragment(m, 0, EmptyQueue, <<>>, hdr, off, len)
  <2>1. /\ DeliveryOf(m, expectRecvSeq', delivered') /\ QueueOf(expectRecvSeq', queue')
        /\ over' \in BOOLEAN /\ failed' \in BOOLEAN
    BY <1>2, <1>3, <1>4, TakeInv
  <2> QED BY <1>1, <1>2, <2>1 DEF IInv, StatusInv
<1>5. CASE /\ failed' = TRUE /\ over' = FALSE
           /\ expectRecvSeq' = 0 /\ queue' = EmptyQueue /\ delivered' = <<>>
  BY <1>1, <1>2, <1>3, <1>5 DEF IInv, StatusInv
<1> QED BY <1>1, <1>4, <1>5

\* Every step preserves the invariant.
LEMMA NextInv == IInv /\ [Next]_vars => IInv'
<1> SUFFICES ASSUME IInv, [Next]_vars PROVE IInv'
  OBVIOUS
<1>1. CASE GetReassMsg
  BY <1>1, GetInv
<1>2. CASE \E hdr \in Headers, offset \in Cuts, end \in Cuts :
             /\ offset <= end
             /\ ReadFragment(hdr, offset, end - offset) \/ UnexpectedFragment(hdr, offset, end - offset)
  <2>1. PICK hdr \in Headers, offset \in Cuts, end \in Cuts :
          /\ offset <= end
          /\ ReadFragment(hdr, offset, end - offset) \/ UnexpectedFragment(hdr, offset, end - offset)
    BY <1>2
  <2>2. offset \in Nat /\ end - offset \in Nat
    BY <2>1, HsReassAssumption
  <2> QED BY <2>1, <2>2, ReadInv, UnexpectedInv
<1>3. CASE (\E hdr \in Headers : UnexpectedRefused(hdr)) \/ HITLS_Renegotiate
  <2>1. /\ StatusInv' /\ expectRecvSeq' = 0 /\ queue' = EmptyQueue /\ delivered' = <<>>
    BY <1>3 DEF UnexpectedRefused, HITLS_Renegotiate, IInv, StatusInv
  <2>2. DeliveryOf(mode', 0, <<>>) /\ QueueOf(0, EmptyQueue)
    BY NewContext
  <2> QED BY <2>1, <2>2 DEF IInv
<1>4. CASE UNCHANGED vars
  BY <1>4 DEF vars, IInv, StatusInv
<1> QED BY <1>1, <1>2, <1>3, <1>4 DEF Next

-----------------------------------------------------------------------------
(* The theorems.                                                           *)

\* The invariant holds in every reachable state.
LEMMA Invariance == Spec => []IInv
  BY InitInv, NextInv, PTL DEF Spec

\* The types of the state hold in every reachable state (TypeOK): each bitmap
\* has the bytes its message's length asks for.
THEOREM TypeCorrect == Spec => []TypeOK
<1>1. IInv => TypeOK
  BY DEF IInv, StatusInv, DeliveryOf, QueueOf, NodeInv, TypeOK
<1> QED BY <1>1, Invariance, PTL

\* Only whole messages are handed to the parser, for messages of any length
\* cut at any offsets (ReassembleMsg, IsReassComplete).
THEOREM OnlyWholeMessages == Spec => []WholeMessages
<1>1. IInv => WholeMessages
  BY DEF IInv, DeliveryOf, WholeMessages
<1> QED BY <1>1, Invariance, PTL

\* The bitmap of every node tells exactly the bytes copied, across the byte
\* boundaries of SetReassBitMap.
THEOREM BitMapsExact == Spec => []BitMapExact
<1>1. IInv => BitMapExact
  BY DEF IInv, QueueOf, NodeInv, BitMapExact
<1> QED BY <1>1, Invariance, PTL

\* The messages of a handshake and of every renegotiation are handed over in
\* order and once, but for the first client hello while a cookie is awaited
\* (DtlsReadAndParseHandshakeMsg); the number of a message that comes
\* unexpectedly on an established connection is not compared.
THEOREM MessagesInOrder == Spec => []InOrder
<1>1. IInv => InOrder
  BY DEF IInv, DeliveryOf, OrderOf, InOrder
<1> QED BY <1>1, Invariance, PTL

\* The queue holds no message more than MAX_NUM_EXCEED_EXPECT numbers ahead
\* (HS_ReassAppend), also when a handshake context has replaced another.
THEOREM QueueIsBounded == Spec => []QueueBounded
<1>1. IInv => QueueBounded
  BY DEF IInv, QueueOf, QueueBounded
<1> QED BY <1>1, Invariance, PTL
=============================================================================
