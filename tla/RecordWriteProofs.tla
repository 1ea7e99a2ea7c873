------------------------- MODULE RecordWriteProofs -------------------------
(***************************************************************************)
(* Proofs about the writing of records: for every buffer size, record      *)
(* length and sequence of partial writes no two records go out under one   *)
(* sequence number (SeqOnce), without flight mode a piece of application   *)
(* data goes out in one record only unless its write was disturbed         *)
(* (DataOnce), what is on the wire is what was built (WireIntact), and a   *)
(* write that reports success has given the transport all of its record    *)
(* (SuccessMeansSent).                                                     *)
(*                                                                         *)
(* The argument: the records with a byte on the wire or in the buffer UIO  *)
(* are older than the write state's sequence number, but for the one in    *)
(* outBuf, which has that number.  The number moves on exactly when outBuf *)
(* has been emptied; a datagram that fails is dropped before any of it is  *)
(* out, so that the record built in its place may have its number.         *)
(*                                                                         *)
(* WireIntact: bytes only move from the front of outBuf to the end of the  *)
(* buffer, and from the front of the buffer to the end of the wire, so     *)
(* that the three together are always the records in the order in which    *)
(* they were built.  A datagram is given away as a whole, with whole       *)
(* records in it.                                                          *)
(*                                                                         *)
(* SuccessMeansSent: the record a write sends is one with its data, or the *)
(* write was disturbed (SentInv).  Over a stream WireIntact says where its *)
(* bytes are once the buffers are empty; over datagrams the record is out  *)
(* when outBuf is emptied, and stays in the buffer until the flush.        *)
(***************************************************************************)
EXTENDS RecordWrite, SequenceTheorems, WellFoundedInduction, TLAPS

-----------------------------------------------------------------------------
(* The inductive invariant.                                                *)

Byte == Nat \X Nat

Record == [type : {"app", "hs"}, data : Nat, len : Nat \ {0}, seq : Nat]

TypeInv ==
  /\ link \in Links
  /\ rec \in [seq : Nat, isWrapped : BOOLEAN, num : Nat, start : Nat]
  /\ built \in Seq(Record)
  /\ bUio \in [on : BOOLEAN, off : Nat, bytes : Seq(Byte)]
  /\ wire \in Seq(Seq(Byte))
  /\ app \in [next : Nat, pending : Nat]
  /\ call \in [op : {"none", "app", "hs", "done", "out"}, pc : {"idle", "record", "write", "flush"}, done : Nat]
  /\ last \in [op : {"none", "app", "hs", "done", "out"}, ret : {"SUCCESS", "IO_BUSY", "ERR_SN_WRAPPING"}]

\* The records with a byte in the sequence b of bytes, or in the pieces w.
Nums(b) == {b[i][1] : i \in DOMAIN b}
WireNums(w) == UNION {Nums(w[d]) : d \in DOMAIN w}

Out == WireNums(wire) \cup Nums(bUio.bytes)

\* outBuf holds the rest of a record with the number of the write state; that of
\* a datagram is there only during the write, and nothing of it is out.
OutInv ==
  /\ rec.num \in 0..Len(built)
  /\ rec.num # 0 => rec.start < built[rec.num].len /\ built[rec.num].seq = rec.seq
  /\ call.pc = "write" => rec.num # 0
  /\ Datagram => call.done = 0 /\ (rec.num # 0 => rec.num \notin Out /\ call.pc = "write")

SeqInv ==
  /\ Out \subseteq 1..Len(built)
  /\ \A n \in Out : n = rec.num \/ built[n].seq < rec.seq
  /\ \A m, n \in Out : built[m].seq = built[n].seq => m = n

\* What a call that reports success leaves behind.
NothingLeft ==
  last.ret = "SUCCESS" /\ call.pc = "idle" =>
    /\ last.op \in {"app", "done"} => bUio.bytes = <<>>
    /\ last.op = "app" => rec.num = 0

\* What is buffered, and where a call can be.
FlightInv ==
  /\ ~bUio.on => bUio.bytes = <<>>
  /\ ~Flight => ~bUio.on
  /\ call.pc = "record" => call.op \in {"app", "hs"}
  /\ call.pc = "write" => call.op \in {"app", "hs", "out"}
  /\ call.pc = "flush" => Flight /\ (call.op = "app" => rec.num = 0)
  /\ NothingLeft

AppRecord(n) == built[n].type = "app"

\* A piece of data whose record is out was written before, or its write was disturbed.
Older(n) == built[n].data < app.next \/ built[n].data \in disturbed
SameData(m, n) == AppRecord(m) /\ AppRecord(n) /\ built[m].data = built[n].data /\ built[m].data \notin disturbed

DataInv == ~Flight =>
  /\ rec.num # 0 /\ AppRecord(rec.num) =>
       built[rec.num].data = app.next /\ (call.pc = "write" /\ call.op # "app" => app.next \in disturbed)
  /\ \A n \in Out : AppRecord(n) => n = rec.num \/ Older(n)
  /\ \A m, n \in Out : SameData(m, n) => m = n

IInv == TypeInv /\ OutInv /\ SeqInv /\ FlightInv /\ DataInv

-----------------------------------------------------------------------------
(* Bytes.                                                                  *)

\* Sequences of bytes and the records they come from.
LEMMA NumsSub ==
  ASSUME NEW b \in Seq(Byte), NEW m \in Nat \ {0}, NEW n \in Nat, n <= Len(b)
  PROVE  SubSeq(b, m, n) \in Seq(Byte) /\ Nums(SubSeq(b, m, n)) \subseteq Nums(b)
  <1> DEFINE s == SubSeq(b, m, n)
  <1>1. DOMAIN b = 1..Len(b) /\ Len(b) \in Nat /\ \A i \in 1..Len(b) : b[i] \in Byte
    BY LenProperties
  <1>2. \A i \in m..n : b[i] \in Byte
    BY <1>1
  <1>3. /\ s \in Seq(Byte) /\ Len(s) = IF m <= n THEN n - m + 1 ELSE 0
        /\ \A i \in 1..n - m + 1 : s[i] = b[m + i - 1]
    BY <1>2, SubSeqProperties
  <1> HIDE DEF s
  <1>4. DOMAIN s = 1..Len(s)
    BY <1>3, LenProperties
  <1>5. ASSUME NEW i \in DOMAIN s
        PROVE  s[i][1] \in Nums(b)
    <2>1. i \in 1..n - m + 1 /\ m + i - 1 \in DOMAIN b /\ s[i] = b[m + i - 1]
      BY <1>1, <1>3, <1>4
    <2>2. QED
      BY <2>1 DEF Nums
  <1>6. Nums(s) \subseteq Nums(b)
    BY <1>5 DEF Nums
  <1>7. QED
    BY <1>3, <1>6 DEF s

\* A concatenation has bytes of the two sequences only.
LEMMA NumsConcat ==
  ASSUME NEW a \in Seq(Byte), NEW b \in Seq(Byte)
  PROVE  a \o b \in Seq(Byte) /\ Nums(a \o b) \subseteq Nums(a) \cup Nums(b)
  <1> DEFINE s == a \o b
  <1>1. /\ s \in Seq(Byte) /\ Len(s) = Len(a) + Len(b)
        /\ \A i \in 1..Len(a) + Len(b) : s[i] = IF i <= Len(a) THEN a[i] ELSE b[i - Len(a)]
    BY ConcatProperties
  <1>2. /\ DOMAIN a = 1..Len(a) /\ DOMAIN b = 1..Len(b) /\ Len(a) \in Nat /\ Len(b) \in Nat
    BY LenProperties
  <1> HIDE DEF s
  <1>3. DOMAIN s = 1..Len(s)
    BY <1>1, LenProperties
  <1>4. ASSUME NEW i \in DOMAIN s
        PROVE  s[i][1] \in Nums(a) \cup Nums(b)
    <2>1. CASE i <= Len(a)
      <3>1. i \in DOMAIN a /\ s[i] = a[i]
        BY <1>1, <1>2, <1>3, <2>1
      <3>2. QED
        BY <3>1 DEF Nums
    <2>2. CASE i > Len(a)
      <3>1. i - Len(a) \in DOMAIN b /\ s[i] = b[i - Len(a)]
        BY <1>1, <1>2, <1>3, <2>2
      <3>2. QED
        BY <3>1 DEF Nums
    <2>3. QED
      BY <1>1, <1>2, <1>3, <2>1, <2>2
  <1>5. Nums(s) \subseteq Nums(a) \cup Nums(b)
    BY <1>4 DEF Nums
  <1>6. QED
    BY <1>1, <1>5 DEF s

\* A piece more on the wire brings only the records it has bytes of.
LEMMA WireAppend ==
  ASSUME NEW w \in Seq(Seq(Byte)), NEW b \in Seq(Byte)
  PROVE  Append(w, b) \in Seq(Seq(Byte)) /\ WireNums(Append(w, b)) \subseteq WireNums(w) \cup Nums(b)
  <1> DEFINE s == Append(w, b)
  <1>1. /\ s \in Seq(Seq(Byte)) /\ Len(s) = Len(w) + 1
        /\ \A i \in 1..Len(w) : s[i] = w[i]
        /\ s[Len(w) + 1] = b
    BY AppendProperties
  <1>2. DOMAIN w = 1..Len(w) /\ Len(w) \in Nat
    BY LenProperties
  <1> HIDE DEF s
  <1>3. DOMAIN s = 1..Len(s)
    BY <1>1, LenProperties
  <1>4. ASSUME NEW d \in DOMAIN s
        PROVE  Nums(s[d]) \subseteq WireNums(w) \cup Nums(b)
    <2>1. d = Len(w) + 1 \/ (d \in DOMAIN w /\ s[d] = w[d])
      BY <1>1, <1>2, <1>3
    <2>2. QED
      BY <1>1, <2>1 DEF WireNums
  <1>5. WireNums(s) \subseteq WireNums(w) \cup Nums(b)
    BY <1>4 DEF WireNums
  <1>6. QED
    BY <1>1, <1>5 DEF s

\* Nothing comes from the empty sequence.
LEMMA NumsEmpty == Nums(<<>>) = {} /\ <<>> \in Seq(Byte) /\ Len(<<>>) = 0
  BY DEF Nums

\* outBuf holds bytes of its record, and some as long as there is one.
LEMMA OutBufFacts ==
  ASSUME TypeInv, OutInv
  PROVE  /\ OutBuf \in Seq(Byte) /\ Nums(OutBuf) \subseteq {rec.num} /\ Len(OutBuf) \in Nat
         /\ rec.num = 0 => OutBuf = <<>>
         /\ rec.num # 0 => Len(OutBuf) > 0 /\ OutBuf # <<>> /\ Len(OutBuf) = built[rec.num].len - rec.start
  <1>1. CASE rec.num = 0
    BY <1>1, NumsEmpty DEF OutBuf
  <1>2. CASE rec.num # 0
    <2> DEFINE n == rec.num
               l == built[n].len
               b == Bytes(n)
               s == SubSeq(b, rec.start + 1, l)
    <2>1. n \in Nat \ {0} /\ n \in 1..Len(built) /\ rec.start \in Nat /\ l \in Nat \ {0} /\ rec.start < l
      <3>1. n \in Nat \ {0} /\ n \in 1..Len(built) /\ rec.start \in Nat /\ rec.start < l
        BY <1>2, LenProperties DEF TypeInv, OutInv
      <3>2. built[n] \in Record
        BY <3>1, ElementOfSeq DEF TypeInv
      <3>3. QED
        BY <3>1, <3>2 DEF Record
    <2>2. OutBuf = s
      BY <1>2 DEF OutBuf
    <2>3. \A i \in 1..l : b[i] = <<n, i>>
      BY DEF Bytes
    <2> HIDE DEF n, l, b
    <2>4. \A i \in 1..l : b[i] \in Byte /\ b[i][1] = n
      <3>1. ASSUME NEW i \in 1..l
            PROVE  <<n, i>> \in Byte /\ <<n, i>>[1] = n
        <4>1. i \in Nat /\ n \in Nat
          BY <2>1
        <4>2. QED
          BY <4>1 DEF Byte
      <3>2. QED
        BY <2>3, <3>1
    <2>5. \A i \in rec.start + 1 .. l : b[i] \in Byte
      BY <2>1, <2>4
    <2>6. /\ s \in Seq(Byte) /\ Len(s) = IF rec.start + 1 <= l THEN l - (rec.start + 1) + 1 ELSE 0
          /\ \A i \in 1 .. l - (rec.start + 1) + 1 : s[i] = b[(rec.start + 1) + i - 1]
      BY <2>1, <2>5, SubSeqProperties, SMTT(30)
    <2> HIDE DEF s
    <2>7. Len(s) = l - rec.start /\ Len(s) > 0 /\ DOMAIN s = 1..Len(s)
      BY <2>1, <2>6, LenProperties
    <2>8. \A i \in DOMAIN s : s[i][1] = n
      BY <2>1, <2>4, <2>6, <2>7
    <2>9. Nums(s) \subseteq {n}
      BY <2>8 DEF Nums
    <2>10. s # <<>>
      BY <2>7, NumsEmpty
    <2>11. QED
      BY <1>2, <2>1, <2>2, <2>6, <2>7, <2>9, <2>10 DEF n, l
  <1>3. QED
    BY <1>1, <1>2

\* What BufferWrite has still to place comes from outBuf.
LEMMA InFacts ==
  ASSUME TypeInv, OutInv
  PROVE  /\ In \in Seq(Byte) /\ Nums(In) \subseteq {rec.num} /\ Len(In) \in Nat
         /\ call.done = 0 => Len(In) = Len(OutBuf)
  <1> DEFINE b == OutBuf
             m == call.done + 1
             s == SubSeq(b, m, Len(b))
  <1>1. b \in Seq(Byte) /\ Nums(b) \subseteq {rec.num} /\ Len(b) \in Nat
    BY OutBufFacts
  <1>2. call.done \in Nat /\ m \in Nat \ {0}
    BY DEF TypeInv
  <1>3. In = s
    BY DEF In
  <1> HIDE DEF b
  <1>4. call.done = 0 => s = b
    BY <1>1, SubSeqFull
  <1> HIDE DEF m
  <1>5. s \in Seq(Byte) /\ Nums(s) \subseteq Nums(b)
    BY <1>1, <1>2, NumsSub
  <1> HIDE DEF s
  <1>6. Len(s) \in Nat
    BY <1>5, LenProperties
  <1>7. QED
    BY <1>1, <1>3, <1>4, <1>5, <1>6 DEF b

\* What the transport takes comes from what it is given.
LEMMA TransportFacts ==
  ASSUME TypeInv, NEW b \in Seq(Byte), NEW k, Transport(b, k)
  PROVE  /\ k \in Nat /\ k <= Len(b) /\ (Datagram => k = 0 \/ k = Len(b))
         /\ wire' \in Seq(Seq(Byte)) /\ WireNums(wire') \subseteq WireNums(wire) \cup Nums(b)
         /\ k = 0 => wire' = wire
  <1>1. Len(b) \in Nat
    BY LenProperties
  <1>2. k \in Nat /\ k <= Len(b) /\ (Datagram => k = 0 \/ k = Len(b))
    BY <1>1 DEF Transport, Taken
  <1>3. wire \in Seq(Seq(Byte))
    BY DEF TypeInv
  <1>4. CASE k = 0
    BY <1>2, <1>3, <1>4 DEF Transport
  <1>5. CASE k # 0
    <2> DEFINE s == SubSeq(b, 1, k)
    <2>1. wire' = Append(wire, s)
      BY <1>5 DEF Transport
    <2>2. s \in Seq(Byte) /\ Nums(s) \subseteq Nums(b)
      BY <1>2, NumsSub
    <2> HIDE DEF s
    <2>3. wire' \in Seq(Seq(Byte)) /\ WireNums(wire') \subseteq WireNums(wire) \cup Nums(s)
      BY <1>3, <2>1, <2>2, WireAppend
    <2>4. QED
      BY <1>2, <1>5, <2>2, <2>3
  <1>6. QED
    BY <1>4, <1>5

\* The buffer UIO after a round of the flush.
LEMMA FlushedFacts ==
  ASSUME TypeInv, NEW k \in Nat, k <= Len(bUio.bytes), NEW u, u = Flushed(k)
  PROVE  /\ u \in [on : BOOLEAN, off : Nat, bytes : Seq(Byte)] /\ u.on = bUio.on
         /\ Nums(u.bytes) \subseteq Nums(bUio.bytes)
  <1> DEFINE b == bUio.bytes
  <1>1. bUio \in [on : BOOLEAN, off : Nat, bytes : Seq(Byte)] /\ b \in Seq(Byte) /\ Len(b) \in Nat
    BY LenProperties DEF TypeInv
  <1>2. CASE k = Len(b)
    <2> DEFINE e == <<>>
               o == 0
    <2>1. u = [bUio EXCEPT !.off = o, !.bytes = e]
      BY <1>2 DEF Flushed
    <2>2. e \in Seq(Byte) /\ o \in Nat
      BY NumsEmpty
    <2>3. Nums(e) = {}
      BY NumsEmpty
    <2> HIDE DEF e, o
    <2>4. u \in [on : BOOLEAN, off : Nat, bytes : Seq(Byte)] /\ u.on = bUio.on /\ u.bytes = e
      BY <1>1, <2>1, <2>2
    <2>5. QED
      BY <2>3, <2>4
  <1>3. CASE k # Len(b)
    <2> DEFINE o == bUio.off + k
               m == k + 1
               s == SubSeq(b, m, Len(b))
    <2>1. u = [bUio EXCEPT !.off = o, !.bytes = s]
      BY <1>3 DEF Flushed
    <2>2. o \in Nat /\ m \in Nat \ {0}
      BY <1>1
    <2> HIDE DEF o, m
    <2>3. s \in Seq(Byte) /\ Nums(s) \subseteq Nums(b)
      BY <1>1, <2>2, NumsSub
    <2> HIDE DEF s
    <2>4. u \in [on : BOOLEAN, off : Nat, bytes : Seq(Byte)] /\ u.on = bUio.on /\ u.bytes = s
      BY <1>1, <2>1, <2>2, <2>3
    <2>5. QED
      BY <2>3, <2>4
  <1>4. QED
    BY <1>2, <1>3

-----------------------------------------------------------------------------
(* What happens to the record in outBuf, and to the records that are out.  *)

\* It stays; over a stream some of it may go out.
LEMMA KeepStep ==
  ASSUME IInv, TypeInv', UNCHANGED <<link, built>>, disturbed \subseteq disturbed',
         rec'.num = rec.num, rec'.seq = rec.seq, ~Flight => app'.next = app.next,
         rec.num # 0 => rec'.start < built[rec.num].len,
         Out' \subseteq Out \/ (~Datagram /\ rec.num # 0 /\ Out' \subseteq Out \cup {rec.num}),
         call'.pc = "write" => rec.num # 0,
         Datagram => call'.done = 0 /\ (rec.num # 0 => call'.pc = "write"),
         ~Flight /\ rec.num # 0 /\ AppRecord(rec.num) => (call'.pc = "write" /\ call'.op # "app" => app.next \in disturbed')
  PROVE  OutInv' /\ SeqInv' /\ DataInv'
  <1>1. TypeInv /\ OutInv /\ SeqInv /\ DataInv
    BY DEF IInv
  <1>2. rec.seq \in Nat /\ rec.num \in Nat /\ Len(built) \in Nat /\ app.next \in Nat
    BY <1>1, LenProperties DEF TypeInv
  <1>3. ASSUME NEW n \in Out'
        PROVE  n \in 1..Len(built) /\ (n = rec.num \/ (n \in Out /\ built[n].seq < rec.seq))
    <2>1. n \in Out \/ (n = rec.num /\ rec.num # 0)
      BY <1>3
    <2>2. n \in Out => n \in 1..Len(built) /\ (n = rec.num \/ built[n].seq < rec.seq)
      BY <1>1 DEF SeqInv
    <2>3. rec.num # 0 => rec.num \in 1..Len(built)
      BY <1>1, <1>2 DEF OutInv
    <2>4. QED
      BY <2>1, <2>2, <2>3
  <1>4. ASSUME NEW n \in Out, n # rec.num
        PROVE  built[n].seq < rec.seq
    BY <1>1, <1>4 DEF SeqInv
  <1>5. SeqInv'
    <2>1. ASSUME NEW m \in Out', NEW n \in Out', built[m].seq = built[n].seq
          PROVE  m = n
      <3>1. ASSUME NEW x \in Out', NEW y \in Out', x = rec.num, y # rec.num
            PROVE  built[y].seq < rec.seq /\ built[x].seq = rec.seq
        <4>1. x # 0
          BY <1>3
        <4>2. QED
          BY <1>1, <1>3, <3>1, <4>1 DEF OutInv
      <3>2. CASE m # rec.num /\ n # rec.num
        BY <1>1, <1>3, <2>1, <3>2 DEF SeqInv
      <3>3. CASE m = rec.num \/ n = rec.num
        BY <1>2, <2>1, <3>1, <3>3
      <3>4. QED
        BY <3>2, <3>3
    <2>2. QED
      BY <1>3, <2>1 DEF SeqInv
  <1>6. OutInv'
    BY <1>1, <1>2 DEF OutInv, Datagram
  <1>7. DataInv'
    <2>1. SUFFICES ASSUME ~Flight
                   PROVE  /\ rec.num # 0 /\ AppRecord(rec.num) =>
                               /\ built[rec.num].data = app.next
                               /\ call'.pc = "write" /\ call'.op # "app" => app.next \in disturbed'
                          /\ \A n \in Out' : AppRecord(n) => n = rec.num \/ Older(n)
                          /\ \A m, n \in Out' : SameData(m, n) => m = n
      BY DEF DataInv, Flight, AppRecord, Older, SameData
    <2>2. \A n \in Out' : AppRecord(n) => n = rec.num \/ Older(n)
      BY <1>1, <1>3, <2>1 DEF DataInv
    <2>3. ASSUME NEW m \in Out', NEW n \in Out', SameData(m, n)
          PROVE  m = n
      <3>1. ASSUME NEW x \in Out', NEW y \in Out', x = rec.num, y # rec.num, AppRecord(x), AppRecord(y)
            PROVE  Older(y) /\ built[x].data = app.next
        <4>1. x # 0
          BY <1>3
        <4>2. QED
          BY <1>1, <2>1, <2>2, <3>1, <4>1 DEF DataInv
      <3>2. CASE m # rec.num /\ n # rec.num
        BY <1>1, <1>3, <2>1, <2>3, <3>2 DEF DataInv
      <3>3. CASE m = rec.num \/ n = rec.num
        BY <1>2, <2>3, <3>1, <3>3 DEF SameData, Older
      <3>4. QED
        BY <3>2, <3>3
    <2>4. QED
      BY <1>1, <2>1, <2>2, <2>3 DEF DataInv
  <1>8. QED
    BY <1>5, <1>6, <1>7

\* All of it is out, and the sequence number moves on.
LEMMA SentStep ==
  ASSUME IInv, TypeInv', UNCHANGED <<link, built, disturbed>>, call.pc = "write",
         rec'.num = 0, rec'.seq = rec.seq + 1, Out' \subseteq Out \cup {rec.num},
         ~Flight => app'.next = IF call.op = "app" THEN app.next + 1 ELSE app.next,
         call'.pc # "write", Datagram => call'.done = 0
  PROVE  OutInv' /\ SeqInv' /\ DataInv'
  <1>1. TypeInv /\ OutInv /\ SeqInv /\ DataInv
    BY DEF IInv
  <1>2. rec.seq \in Nat /\ rec.num \in Nat /\ Len(built) \in Nat /\ app.next \in Nat
    BY <1>1, LenProperties DEF TypeInv
  <1>3. rec.num \in 1..Len(built) /\ built[rec.num].seq = rec.seq
    BY <1>1, <1>2 DEF OutInv
  <1>4. ASSUME NEW n \in Out'
        PROVE  n \in 1..Len(built) /\ built[n].seq < rec.seq + 1 /\ built[n].seq \in Nat
    <2>1. n \in 1..Len(built)
      BY <1>1, <1>3 DEF SeqInv
    <2>2. built[n] \in Record
      BY <1>1, <2>1, ElementOfSeq DEF TypeInv
    <2>3. QED
      BY <1>1, <1>2, <1>3, <2>1, <2>2 DEF SeqInv, Record
  <1>5. \A n \in Out : n # rec.num => built[n].seq < rec.seq
    BY <1>1 DEF SeqInv
  <1>6. SeqInv'
    <2>1. ASSUME NEW m \in Out', NEW n \in Out', built[m].seq = built[n].seq
          PROVE  m = n
      <3>1. CASE m \in Out /\ n \in Out
        BY <1>1, <2>1, <3>1 DEF SeqInv
      <3>2. CASE m \notin Out \/ n \notin Out
        BY <1>2, <1>3, <1>4, <1>5, <2>1, <3>2
      <3>3. QED
        BY <3>1, <3>2
    <2>2. QED
      BY <1>4, <2>1 DEF SeqInv
  <1>7. OutInv'
    BY <1>2 DEF OutInv, Datagram
  <1>8. DataInv'
    <2>1. SUFFICES ASSUME ~Flight
                   PROVE  /\ \A n \in Out' : AppRecord(n) => Older(n)'
                          /\ \A m, n \in Out' : SameData(m, n) => m = n
      BY DEF DataInv, Flight, AppRecord, SameData, Older
    <2>2. AppRecord(rec.num) => built[rec.num].data = app.next /\ (app'.next = app.next + 1 \/ app.next \in disturbed)
      BY <1>1, <1>3, <2>1 DEF DataInv
    <2>3. app'.next >= app.next /\ app'.next \in Nat
      BY <1>2, <2>1 DEF TypeInv
    <2>4. ASSUME NEW n \in Out', AppRecord(n)
          PROVE  Older(n)' /\ built[n].data \in Nat /\ (n # rec.num => Older(n))
      <3>1. built[n].data \in Nat
        <4>1. built[n] \in Record
          BY <1>1, <1>4, ElementOfSeq DEF TypeInv
        <4>2. QED
          BY <4>1 DEF Record
      <3>2. n # rec.num => Older(n)
        BY <1>1, <2>1, <2>4 DEF DataInv
      <3>3. QED
        BY <1>2, <2>2, <2>3, <2>4, <3>1, <3>2 DEF Older
    <2>5. ASSUME NEW m \in Out', NEW n \in Out', SameData(m, n)
          PROVE  m = n
      <3>1. CASE m \in Out /\ n \in Out
        BY <1>1, <2>1, <2>5, <3>1 DEF DataInv
      <3>2. CASE m \notin Out \/ n \notin Out
        BY <1>2, <2>2, <2>4, <2>5, <3>2 DEF SameData, Older
      <3>3. QED
        BY <3>1, <3>2
    <2>6. QED
      BY <2>4, <2>5
  <1>9. QED
    BY <1>6, <1>7, <1>8

\* A datagram that was not taken is dropped.
LEMMA DropStep ==
  ASSUME IInv, TypeInv', UNCHANGED <<link, built, app, disturbed>>, Datagram,
         rec'.num = 0, rec'.seq = rec.seq, Out' \subseteq Out, call'.pc # "write", call'.done = 0
  PROVE  OutInv' /\ SeqInv' /\ DataInv'
  <1>1. TypeInv /\ OutInv /\ SeqInv /\ DataInv
    BY DEF IInv
  <1>2. Len(built) \in Nat
    BY <1>1, LenProperties DEF TypeInv
  <1>3. Out \subseteq 1..Len(built) /\ rec.num \notin Out
    BY <1>1, <1>2 DEF OutInv, SeqInv
  <1>4. SeqInv'
    BY <1>1, <1>3 DEF SeqInv
  <1>5. OutInv'
    BY <1>2 DEF OutInv
  <1>6. DataInv'
    BY <1>1, <1>3 DEF DataInv, Flight, AppRecord, Older, SameData
  <1>7. QED
    BY <1>4, <1>5, <1>6

\* A new record is built with the sequence number of the write state.
LEMMA BuildStep ==
  ASSUME IInv, TypeInv', UNCHANGED <<link, app, disturbed>>, rec.num = 0, NEW r \in Record,
         built' = Append(built, r), r.seq = rec.seq, r.type = call.op, r.type = "app" => r.data = app.next,
         rec'.num = Len(built) + 1, rec'.seq = rec.seq, rec'.start = 0, Out' = Out,
         call'.pc = "write", call'.op = call.op, Datagram => call'.done = 0
  PROVE  OutInv' /\ SeqInv' /\ DataInv'
  <1>1. TypeInv /\ OutInv /\ SeqInv /\ DataInv
    BY DEF IInv
  <1>2. Len(built) \in Nat /\ built \in Seq(Record)
    BY <1>1, LenProperties DEF TypeInv
  <1> DEFINE l == Len(built)
  <1>3. Len(built') = l + 1 /\ built'[l + 1] = r /\ \A i \in 1..l : built'[i] = built[i]
    BY <1>2, AppendProperties
  <1>4. Out \subseteq 1..l /\ \A n \in Out : built'[n] = built[n] /\ n # l + 1
    BY <1>1, <1>2, <1>3 DEF SeqInv
  <1>5. \A n \in Out : n # 0
    BY <1>2, <1>4
  <1>6. r.len \in Nat \ {0} /\ l + 1 # 0 /\ l + 1 \in 0..l + 1
    BY <1>2 DEF Record
  <1> HIDE DEF l
  <1>7. rec'.num = l + 1
    BY DEF l
  <1>8. SeqInv'
    <2>1. Out' \subseteq 1..Len(built')
      BY <1>2, <1>3, <1>4 DEF l
    <2>2. QED
      BY <2>1, <1>1, <1>3, <1>4, <1>5 DEF SeqInv
  <1>9. OutInv'
    BY <1>3, <1>4, <1>6, <1>7 DEF OutInv, Datagram
  <1>10. DataInv'
    <2>1. AppRecord(rec.num)' => r.type = "app"
      BY <1>3, <1>7 DEF AppRecord
    <2>2. /\ \A n \in Out : (AppRecord(n)' <=> AppRecord(n)) /\ (Older(n)' <=> Older(n))
          /\ \A m, n \in Out : SameData(m, n)' <=> SameData(m, n)
      BY <1>4 DEF AppRecord, Older, SameData
    <2>3. built'[rec'.num].data = r.data
      BY <1>3, <1>7
    <2>4. ASSUME ~Flight
          PROVE  /\ \A n \in Out : AppRecord(n) => Older(n)
                 /\ \A m, n \in Out : SameData(m, n) => m = n
      BY <1>1, <1>5, <2>4 DEF DataInv
    <2>5. QED
      BY <2>1, <2>2, <2>3, <2>4 DEF DataInv, Flight
  <1>11. QED
    BY <1>8, <1>9, <1>10

-----------------------------------------------------------------------------
(* The steps.                                                              *)

WriteState == [seq : Nat, isWrapped : BOOLEAN, num : Nat, start : Nat]
BufferUio == [on : BOOLEAN, off : Nat, bytes : Seq(Byte)]
Calls == [op : {"none", "app", "hs", "done", "out"}, pc : {"idle", "record", "write", "flush"}, done : Nat]
Results == [op : {"none", "app", "hs", "done", "out"}, ret : {"SUCCESS", "IO_BUSY", "ERR_SN_WRAPPING"}]

\* The write state once outBuf is empty.
LEMMA EmptyOutFacts ==
  ASSUME TypeInv
  PROVE  /\ EmptyOut \in WriteState /\ EmptyOut.num = 0 /\ EmptyOut.seq = rec.seq
         /\ SentOut \in WriteState /\ SentOut.num = 0 /\ SentOut.seq = rec.seq + 1
  <1>1. EmptyOut \in WriteState /\ EmptyOut.num = 0 /\ EmptyOut.seq = rec.seq /\ rec.seq \in Nat
    BY DEF TypeInv, EmptyOut, WriteState
  <1> DEFINE e == EmptyOut
             n == e.seq + 1
  <1>2. SentOut = [e EXCEPT !.seq = n] /\ n = rec.seq + 1 /\ n \in Nat /\ e \in WriteState /\ e.num = 0
    BY <1>1 DEF SentOut
  <1> HIDE DEF e, n
  <1>3. SentOut \in WriteState /\ SentOut.num = 0 /\ SentOut.seq = n
    BY <1>2 DEF WriteState
  <1>4. QED
    BY <1>1, <1>2, <1>3

\* The end of a call.
LEMMA ReturnFacts ==
  ASSUME TypeInv, NEW r \in {"SUCCESS", "IO_BUSY", "ERR_SN_WRAPPING"}, Return(r)
  PROVE  /\ call' \in Calls /\ call'.pc = "idle" /\ call'.done = 0
         /\ last' \in Results /\ last'.op = call.op /\ last'.ret = r
  BY DEF TypeInv, Return, Idle, Calls, Results

\* Only calls that are over say anything about what was sent.
LEMMA NotIdle ==
  ASSUME call'.pc # "idle" \/ last'.ret # "SUCCESS"
  PROVE  NothingLeft'
  BY DEF NothingLeft

\* StreamWrite and DatagramWrite after k bytes have been taken.
LEMMA WroteKeeps ==
  ASSUME IInv, UNCHANGED <<link, built, disturbed>>, call.pc = "write", NEW k \in Nat, Wrote(k),
         bUio' \in BufferUio, wire' \in Seq(Seq(Byte)),
         bUio'.on = bUio.on, ~bUio'.on => bUio'.bytes = <<>>,
         Out' \subseteq Out \cup {rec.num},
         Datagram => (k = 0 /\ Out' \subseteq Out) \/ k = Len(OutBuf)
  PROVE  IInv'
  <1>1. TypeInv /\ OutInv /\ SeqInv /\ FlightInv /\ DataInv
    BY DEF IInv
  <1>2. /\ rec.num # 0 /\ Len(OutBuf) \in Nat /\ Len(OutBuf) > 0
        /\ Len(OutBuf) = built[rec.num].len - rec.start
    BY <1>1, OutBufFacts DEF OutInv
  <1>3. rec \in WriteState /\ call \in Calls /\ app.next \in Nat /\ rec.start \in Nat
    BY <1>1 DEF TypeInv, WriteState, Calls
  <1>4. built[rec.num].len \in Nat
    <2>1. rec.num \in 1..Len(built)
      BY <1>1, <1>2, <1>3, LenProperties DEF OutInv, TypeInv, WriteState
    <2>2. built[rec.num] \in Record
      BY <1>1, <2>1, ElementOfSeq DEF TypeInv
    <2>3. QED
      BY <2>2 DEF Record
  <1>5. call.op \in {"app", "hs", "out"}
    BY <1>1 DEF FlightInv
  <1>6. CASE k = 0
    <2>1. Return("IO_BUSY") /\ rec' = BusyOut /\ UNCHANGED app
      BY <1>6 DEF Wrote
    <2>2. /\ call' \in Calls /\ call'.pc = "idle" /\ call'.done = 0
          /\ last' \in Results /\ last'.op = call.op /\ last'.ret = "IO_BUSY"
      BY <1>1, <2>1, ReturnFacts
    <2>3. rec' \in WriteState
      BY <1>1, <1>3, <2>1, EmptyOutFacts DEF BusyOut
    <2>4. TypeInv'
      BY <1>1, <2>1, <2>2, <2>3 DEF TypeInv, WriteState, Calls, Results, BufferUio
    <2>5. FlightInv'
      BY <1>1, <2>2, NotIdle DEF FlightInv, Flight
    <2>6. CASE Datagram
      <3>1. rec'.num = 0 /\ rec'.seq = rec.seq
        BY <1>1, <2>1, <2>6, EmptyOutFacts DEF BusyOut
      <3>2. Out' \subseteq Out
        BY <1>2, <1>6, <2>6
      <3>3. QED
        BY <2>1, <2>2, <2>4, <2>5, <2>6, <3>1, <3>2, DropStep DEF IInv
    <2>7. CASE ~Datagram
      <3>1. rec' = rec
        BY <2>1, <2>7 DEF BusyOut
      <3>2. OutInv' /\ SeqInv' /\ DataInv'
        BY <1>1, <1>2, <2>1, <2>2, <2>4, <2>7, <3>1, KeepStep DEF OutInv
      <3>3. QED
        BY <2>4, <2>5, <3>2 DEF IInv
    <2>8. QED
      BY <2>6, <2>7
  <1>7. CASE k # 0 /\ k < Len(OutBuf)
    <2> DEFINE s == rec.start + k
               z == 0
    <2>1. rec' = [rec EXCEPT !.start = s] /\ call' = [call EXCEPT !.pc = "write", !.done = z] /\ UNCHANGED <<app, last>>
      BY <1>7 DEF Wrote
    <2>2. s \in Nat /\ z \in Nat /\ s < built[rec.num].len /\ ~Datagram /\ z = 0
      BY <1>2, <1>3, <1>4, <1>7
    <2> HIDE DEF s, z
    <2>3. rec' \in WriteState /\ rec'.num = rec.num /\ rec'.seq = rec.seq /\ rec'.start = s
      BY <1>3, <2>1, <2>2 DEF WriteState
    <2>4. call' \in Calls /\ call'.pc = "write" /\ call'.op = call.op
      BY <1>3, <2>1, <2>2 DEF Calls
    <2>5. TypeInv'
      BY <1>1, <2>1, <2>3, <2>4 DEF TypeInv, WriteState, Calls, BufferUio
    <2>6. FlightInv'
      BY <1>1, <1>5, <2>4, NotIdle DEF FlightInv, Flight
    <2>7. OutInv' /\ SeqInv' /\ DataInv'
      BY <1>1, <1>2, <2>1, <2>2, <2>3, <2>4, <2>5, KeepStep DEF DataInv
    <2>8. QED
      BY <2>5, <2>6, <2>7 DEF IInv
  <1>8. CASE k # 0 /\ ~(k < Len(OutBuf))
    <2>1. rec' = SentOut
      BY <1>8 DEF Wrote
    <2>2. rec' \in WriteState /\ rec'.num = 0 /\ rec'.seq = rec.seq + 1
      BY <1>1, <2>1, EmptyOutFacts
    <2>4. CASE call.op = "app" /\ Flight
      <3> DEFINE z == 0
      <3>1. call' = [call EXCEPT !.pc = "flush", !.done = z] /\ UNCHANGED <<app, last>> /\ z \in Nat /\ z = 0
        BY <1>8, <2>4 DEF Wrote
      <3> HIDE DEF z
      <3>2. call' \in Calls /\ call'.pc = "flush" /\ call'.op = call.op /\ call'.done = 0
        BY <1>3, <3>1 DEF Calls
      <3>3. TypeInv'
        BY <1>1, <2>2, <3>1, <3>2 DEF TypeInv, WriteState, Calls, BufferUio
      <3>4. FlightInv'
        BY <1>1, <2>2, <2>4, <3>2, NotIdle DEF FlightInv, Flight
      <3>5. OutInv' /\ SeqInv' /\ DataInv'
        BY <2>2, <2>4, <3>2, <3>3, SentStep
      <3>6. QED
        BY <3>3, <3>4, <3>5 DEF IInv
    <2>5. CASE ~(call.op = "app" /\ Flight)
      <3>1. Return("SUCCESS") /\ app' = AppWritten
        BY <1>8, <2>5 DEF Wrote
      <3>2. /\ call' \in Calls /\ call'.pc = "idle" /\ call'.done = 0
            /\ last' \in Results /\ last'.op = call.op /\ last'.ret = "SUCCESS"
        BY <1>1, <3>1, ReturnFacts
      <3>3. /\ app' \in [next : Nat, pending : Nat]
            /\ app'.next = IF call.op = "app" THEN app.next + 1 ELSE app.next
        BY <1>1, <1>3, <3>1 DEF AppWritten, TypeInv
      <3>4. TypeInv'
        BY <1>1, <2>2, <3>2, <3>3 DEF TypeInv, WriteState, Calls, Results, BufferUio
      <3>5. NothingLeft'
        <4>1. call.op = "app" => bUio'.bytes = <<>>
          BY <1>1, <2>5 DEF FlightInv
        <4>2. QED
          BY <1>5, <2>2, <3>2, <4>1 DEF NothingLeft
      <3>6. FlightInv'
        BY <1>1, <3>2, <3>5 DEF FlightInv, Flight
      <3>7. OutInv' /\ SeqInv' /\ DataInv'
        BY <2>2, <3>2, <3>3, <3>4, SentStep
      <3>8. QED
        BY <3>4, <3>6, <3>7 DEF IInv
    <2>6. QED
      BY <2>4, <2>5
  <1>9. QED
    BY <1>6, <1>7, <1>8

\* A step that leaves the write state alone and puts nothing out.
LEMMA QuietStep ==
  ASSUME IInv, UNCHANGED <<link, rec, built>>, FlightInv',
         bUio' \in BufferUio, wire' \in Seq(Seq(Byte)), app' \in [next : Nat, pending : Nat],
         call' \in Calls, last' \in Results,
         Out' \subseteq Out, ~Flight => app'.next = app.next, disturbed \subseteq disturbed',
         call'.pc = "write" => rec.num # 0,
         Datagram => call'.done = 0 /\ (rec.num # 0 => call'.pc = "write"),
         ~Flight /\ rec.num # 0 /\ AppRecord(rec.num) => (call'.pc = "write" /\ call'.op # "app" => app.next \in disturbed')
  PROVE  IInv'
  <1>1. TypeInv /\ OutInv
    BY DEF IInv
  <1>2. TypeInv'
    BY <1>1 DEF TypeInv, WriteState, Calls, Results, BufferUio
  <1>3. rec.num # 0 => rec'.start < built[rec.num].len
    BY <1>1 DEF OutInv
  <1>4. OutInv' /\ SeqInv' /\ DataInv'
    BY <1>2, <1>3, KeepStep
  <1>5. QED
    BY <1>2, <1>4 DEF IInv

\* Types, and what the invariant says of the buffer, in one place.
LEMMA Parts ==
  ASSUME IInv
  PROVE  /\ TypeInv /\ OutInv /\ SeqInv /\ FlightInv /\ DataInv
         /\ rec \in WriteState /\ bUio \in BufferUio /\ call \in Calls /\ last \in Results
         /\ wire \in Seq(Seq(Byte)) /\ app \in [next : Nat, pending : Nat]
         /\ bUio.bytes \in Seq(Byte)
  BY DEF IInv, TypeInv, WriteState, Calls, Results, BufferUio

\* outBuf does not change with the rest.
LEMMA SameOutBuf == UNCHANGED <<rec, built>> => OutBuf' = OutBuf
  BY DEF OutBuf, Bytes

\* HS_Init.
LEMMA HsInitKeeps ==
  ASSUME IInv, UNCHANGED link, HsInit
  PROVE  IInv'
  <1>1. /\ call.pc = "idle" /\ ~bUio.on /\ bUio' = [bUio EXCEPT !.on = Flight]
        /\ UNCHANGED <<rec, built, wire, app, call, last, disturbed>>
    BY DEF HsInit
  <1>2. Flight \in BOOLEAN
    BY Parts, RecordWriteAssumption DEF TypeInv, Flight
  <1>3. bUio' \in BufferUio /\ bUio'.bytes = bUio.bytes /\ bUio'.on = Flight
    BY <1>1, <1>2, Parts DEF BufferUio
  <1>4. Out' = Out
    BY <1>1, <1>3 DEF Out
  <1>5. NothingLeft'
    BY <1>1, <1>3, Parts DEF FlightInv, NothingLeft
  <1>6. FlightInv'
    BY <1>1, <1>3, <1>5, Parts DEF FlightInv, Flight
  <1>7. QED
    BY <1>1, <1>3, <1>4, <1>6, Parts, QuietStep DEF OutInv, DataInv

\* HITLS_Write, HS_SendMsg and the end of a handshake begin.
LEMMA BeginKeeps ==
  ASSUME IInv, UNCHANGED link, NEW op \in {"app", "hs", "done", "out"}, NEW pc \in {"record", "flush", "write"}, Begin(op, pc),
         app' \in [next : Nat, pending : Nat], app'.next = app.next, disturbed \subseteq disturbed',
         pc = "record" => op \in {"app", "hs"}, pc = "flush" => op = "done" /\ bUio.on,
         pc = "write" => op = "out" /\ rec.num # 0 /\ ~Datagram /\ (AppRecord(rec.num) => app.next \in disturbed')
  PROVE  IInv'
  <1>1. /\ call.pc = "idle" /\ call' = [op |-> op, pc |-> pc, done |-> 0]
        /\ UNCHANGED <<rec, built, bUio, wire, last>>
    BY DEF Begin
  <1>2. call' \in Calls /\ call'.pc = pc /\ call'.op = op /\ call'.done = 0
    BY <1>1 DEF Calls
  <1>3. Out' = Out
    BY <1>1 DEF Out
  <1>4. FlightInv'
    BY <1>1, <1>2, NotIdle, Parts DEF FlightInv, Flight
  <1>5. QED
    BY <1>1, <1>2, <1>3, <1>4, Parts, QuietStep DEF OutInv

\* HITLS_Write: the write of a piece of data begins or is repeated.
LEMMA AppWriteKeeps ==
  ASSUME IInv, UNCHANGED link, AppWrite
  PROVE  IInv'
  <1>1. app' \in [next : Nat, pending : Nat] /\ app'.next = app.next
    BY Parts DEF AppWrite
  <1>2. QED
    BY <1>1, BeginKeeps DEF AppWrite

\* HS_SendMsg, whatever is in outBuf.
LEMMA HsSendKeeps ==
  ASSUME IInv, UNCHANGED link, HsSend
  PROVE  IInv'
  BY Parts, BeginKeeps DEF HsSend

\* A call that sends the application record of another call disturbs its write.
LEMMA DisturbedFacts ==
  ASSUME NEW op
  PROVE  /\ disturbed \subseteq Disturbed(op)
         /\ rec.num # 0 /\ AppRecord(rec.num) /\ op # "app" => app.next \in Disturbed(op)
         /\ rec.num = 0 => Disturbed(op) = disturbed
  BY DEF Disturbed, InOut, AppRecord

\* REC_OutBufFlush.
LEMMA OutBufFlushKeeps ==
  ASSUME IInv, UNCHANGED link, OutBufFlush
  PROVE  IInv'
  <1>1. rec.num # 0 /\ ~Datagram
    BY Parts, OutBufFacts DEF OutBufFlush
  <1>2. disturbed \subseteq disturbed' /\ (AppRecord(rec.num) => app.next \in disturbed')
    BY <1>1, DisturbedFacts DEF OutBufFlush
  <1>3. Begin("out", "write") /\ UNCHANGED app
    BY DEF OutBufFlush
  <1>4. QED
    BY <1>1, <1>2, <1>3, Parts, BeginKeeps

\* HandshakeDone.
LEMMA HsDoneKeeps ==
  ASSUME IInv, UNCHANGED link, HsDone
  PROVE  IInv'
  BY Parts, BeginKeeps DEF HsDone

\* The buffer UIO is dropped, or emptied for a new size.
LEMMA DtlsDeInitKeeps ==
  ASSUME IInv, UNCHANGED link, DtlsDeInit
  PROVE  IInv'
  <1>1. call.pc = "idle" /\ bUio' = NoBuffer /\ UNCHANGED <<rec, built, wire, app, call, last, disturbed>>
    BY DEF DtlsDeInit
  <1>2. bUio' \in BufferUio /\ bUio'.bytes = <<>> /\ bUio'.on = FALSE
    BY <1>1, NumsEmpty DEF BufferUio, NoBuffer
  <1>3. Out' \subseteq Out
    BY <1>1, <1>2, NumsEmpty DEF Out
  <1>4. NothingLeft'
    BY <1>1, <1>2, Parts DEF FlightInv, NothingLeft
  <1>5. FlightInv'
    BY <1>1, <1>2, <1>4, Parts DEF FlightInv
  <1>6. QED
    BY <1>1, <1>2, <1>3, <1>5, Parts, QuietStep DEF OutInv, DataInv

\* BufferSetBufferSize empties the buffer: fewer records are out.
LEMMA ChangeBufferSizeKeeps ==
  ASSUME IInv, UNCHANGED link, ChangeBufferSize
  PROVE  IInv'
  <1> DEFINE e == <<>>
             o == 0
  <1>1. /\ call.pc \in {"flush", "record"} /\ bUio' = [bUio EXCEPT !.off = o, !.bytes = e]
        /\ UNCHANGED <<rec, built, wire, app, call, last>> /\ disturbed \subseteq disturbed'
    BY DEF ChangeBufferSize
  <1>2. e \in Seq(Byte) /\ o \in Nat
    BY NumsEmpty
  <1>3. Nums(e) = {} /\ e = <<>>
    BY NumsEmpty
  <1> HIDE DEF e, o
  <1>4. bUio' \in BufferUio /\ bUio'.bytes = e /\ bUio'.on = bUio.on
    BY <1>1, <1>2, Parts DEF BufferUio
  <1>5. Out' \subseteq Out
    BY <1>1, <1>3, <1>4 DEF Out
  <1>6. FlightInv'
    BY <1>1, <1>3, <1>4, NotIdle, Parts DEF FlightInv, Flight
  <1>7. QED
    BY <1>1, <1>4, <1>5, <1>6, Parts, QuietStep DEF OutInv, DataInv

\* BSL_UIO_Write without the buffer.
LEMMA TransportWriteKeeps ==
  ASSUME IInv, UNCHANGED link, TransportWrite
  PROVE  IInv'
  <1>1. PICK k \in Taken(OutBuf) : Transport(OutBuf, k) /\ Wrote(k)
    BY DEF TransportWrite
  <1>2. call.pc = "write" /\ UNCHANGED <<built, bUio, disturbed>>
    BY DEF TransportWrite
  <1>3. OutBuf \in Seq(Byte) /\ Nums(OutBuf) \subseteq {rec.num}
    BY Parts, OutBufFacts
  <1>4. /\ k \in Nat /\ k <= Len(OutBuf) /\ (Datagram => k = 0 \/ k = Len(OutBuf))
        /\ wire' \in Seq(Seq(Byte)) /\ WireNums(wire') \subseteq WireNums(wire) \cup Nums(OutBuf)
        /\ k = 0 => wire' = wire
    BY <1>1, <1>3, Parts, TransportFacts
  <1>5. Out' \subseteq Out \cup {rec.num} /\ (k = 0 => Out' \subseteq Out)
    BY <1>2, <1>3, <1>4 DEF Out
  <1>6. bUio' \in BufferUio /\ bUio'.on = bUio.on /\ (~bUio'.on => bUio'.bytes = <<>>)
    BY <1>2, Parts DEF FlightInv
  <1>7. QED
    BY <1>1, <1>2, <1>4, <1>5, <1>6, WroteKeeps

\* TryCompleteBuffer.
LEMMA BufferCacheKeeps ==
  ASSUME IInv, UNCHANGED link, BufferCache
  PROVE  IInv'
  <1> DEFINE b == bUio.bytes \o In
  <1>1. /\ call.pc = "write" /\ bUio.on /\ bUio' = [bUio EXCEPT !.bytes = b] /\ Wrote(Len(OutBuf))
        /\ UNCHANGED <<built, wire, disturbed>>
    BY DEF BufferCache
  <1>2. b \in Seq(Byte) /\ Nums(b) \subseteq Nums(bUio.bytes) \cup Nums(In) /\ Nums(In) \subseteq {rec.num}
    BY Parts, InFacts, NumsConcat
  <1> HIDE DEF b
  <1>3. bUio' \in BufferUio /\ bUio'.on = bUio.on /\ bUio'.bytes = b
    BY <1>1, <1>2, Parts DEF BufferUio
  <1>4. Out' \subseteq Out \cup {rec.num}
    BY <1>1, <1>2, <1>3 DEF Out
  <1>5. Len(OutBuf) \in Nat
    BY Parts, OutBufFacts
  <1>6. wire' \in Seq(Seq(Byte))
    BY <1>1, Parts
  <1>7. QED
    BY <1>1, <1>3, <1>4, <1>5, <1>6, WroteKeeps

\* The buffer is flushed to make room.
LEMMA BufferMakeRoomKeeps ==
  ASSUME IInv, UNCHANGED link, BufferMakeRoom
  PROVE  IInv'
  <1>1. PICK k \in Taken(bUio.bytes) :
          /\ Transport(bUio.bytes, k) /\ bUio' = Flushed(k)
          /\ IF k = 0 THEN Wrote(call.done) ELSE UNCHANGED <<rec, app, call, last>>
    BY DEF BufferMakeRoom
  <1>2. call.pc = "write" /\ bUio.on /\ UNCHANGED <<built, disturbed>>
    BY DEF BufferMakeRoom
  <1>3. /\ k \in Nat /\ k <= Len(bUio.bytes)
        /\ wire' \in Seq(Seq(Byte)) /\ WireNums(wire') \subseteq WireNums(wire) \cup Nums(bUio.bytes)
    BY <1>1, Parts, TransportFacts
  <1>4. bUio' \in BufferUio /\ bUio'.on = bUio.on /\ Nums(bUio'.bytes) \subseteq Nums(bUio.bytes)
    BY <1>1, <1>3, Parts, FlushedFacts DEF BufferUio
  <1>5. Out' \subseteq Out
    BY <1>3, <1>4 DEF Out
  <1>6. CASE k = 0
    <2>1. Wrote(call.done) /\ call.done \in Nat
      BY <1>1, <1>6, Parts DEF Calls
    <2>2. Datagram => call.done = 0
      BY Parts DEF OutInv
    <2>3. QED
      BY <1>2, <1>3, <1>4, <1>5, <2>1, <2>2, WroteKeeps
  <1>7. CASE k # 0
    <2>1. UNCHANGED <<rec, app, call, last>>
      BY <1>1, <1>7
    <2>2. FlightInv'
      BY <1>2, <1>4, <2>1, NotIdle, Parts DEF FlightInv, Flight
    <2>3. QED
      BY <1>2, <1>3, <1>4, <1>5, <2>1, <2>2, Parts, QuietStep DEF OutInv, DataInv
  <1>8. QED
    BY <1>6, <1>7

\* What fills the buffer goes to the transport directly.
LEMMA BufferDirectKeeps ==
  ASSUME IInv, UNCHANGED link, BufferDirect
  PROVE  IInv'
  <1> DEFINE o == 0
  <1>1. call.pc = "write" /\ bUio.on /\ UNCHANGED <<built, disturbed>> /\ bUio' = [bUio EXCEPT !.off = o] /\ o \in Nat
    BY DEF BufferDirect
  <1> HIDE DEF o
  <1>2. bUio' \in BufferUio /\ bUio'.on = bUio.on /\ bUio'.bytes = bUio.bytes
    BY <1>1, Parts DEF BufferUio
  <1>3. CASE UNCHANGED <<rec, wire, app, call, last>>
    <2>1. Out' = Out
      BY <1>2, <1>3 DEF Out
    <2>2. FlightInv'
      BY <1>1, <1>2, <1>3, NotIdle, Parts DEF FlightInv, Flight
    <2>3. QED
      BY <1>1, <1>2, <1>3, <2>1, <2>2, Parts, QuietStep DEF OutInv, DataInv
  <1>4. ASSUME NEW k \in Taken(In), Transport(In, k),
               IF k = 0 \/ k = Len(In) THEN Wrote(call.done + k)
               ELSE call' = [call EXCEPT !.done = @ + k] /\ UNCHANGED <<rec, app, last>>
        PROVE  IInv'
    <2>1. /\ In \in Seq(Byte) /\ Nums(In) \subseteq {rec.num} /\ Len(In) \in Nat
          /\ call.done = 0 => Len(In) = Len(OutBuf)
      BY Parts, InFacts
    <2>2. /\ k \in Nat /\ k <= Len(In) /\ (Datagram => k = 0 \/ k = Len(In))
          /\ wire' \in Seq(Seq(Byte)) /\ WireNums(wire') \subseteq WireNums(wire) \cup Nums(In)
          /\ k = 0 => wire' = wire
      BY <1>4, <2>1, Parts, TransportFacts
    <2>3. Out' \subseteq Out \cup {rec.num} /\ (k = 0 => Out' \subseteq Out)
      BY <1>2, <2>1, <2>2 DEF Out
    <2>4. CASE k = 0 \/ k = Len(In)
      <3> DEFINE n == call.done + k
      <3>1. Wrote(n) /\ n \in Nat
        BY <1>4, <2>2, <2>4, Parts DEF Calls
      <3>2. Datagram => (n = 0 /\ Out' \subseteq Out) \/ n = Len(OutBuf)
        <4>1. Datagram => call.done = 0
          BY Parts DEF OutInv
        <4>2. QED
          BY <2>1, <2>2, <2>3, <2>4, <4>1
      <3> HIDE DEF n
      <3>3. QED
        BY <1>1, <1>2, <2>2, <2>3, <3>1, <3>2, WroteKeeps
    <2>5. CASE ~(k = 0 \/ k = Len(In))
      <3> DEFINE n == call.done + k
      <3>1. call' = [call EXCEPT !.done = n] /\ UNCHANGED <<rec, app, last>> /\ n \in Nat
        BY <1>4, <2>2, <2>5, Parts DEF Calls
      <3> HIDE DEF n
      <3>2. call' \in Calls /\ call'.pc = "write" /\ call'.op = call.op
        BY <1>1, <3>1, Parts DEF Calls
      <3>3. TypeInv'
        BY <1>1, <1>2, <2>2, <3>1, <3>2, Parts DEF TypeInv, Calls, BufferUio
      <3>4. FlightInv'
        BY <1>1, <1>2, <3>2, NotIdle, Parts DEF FlightInv, Flight
      <3>5. ~Datagram /\ rec.num # 0 /\ rec'.start < built[rec.num].len
        BY <1>1, <2>2, <2>5, <3>1, Parts DEF OutInv
      <3>6. ~Flight /\ rec.num # 0 /\ AppRecord(rec.num) => (call'.op # "app" => app.next \in disturbed')
        BY <1>1, <3>2, Parts DEF DataInv
      <3>7. OutInv' /\ SeqInv' /\ DataInv'
        BY <1>1, <2>3, <3>1, <3>2, <3>3, <3>5, <3>6, KeepStep
      <3>8. QED
        BY <3>3, <3>4, <3>7 DEF IInv
    <2>6. QED
      BY <2>4, <2>5
  <1>5. QED
    BY <1>3, <1>4 DEF BufferDirect

\* REC_FlightTransmit has nothing left to flush.
LEMMA FlightDoneKeeps ==
  ASSUME IInv, UNCHANGED link, FlightDone
  PROVE  IInv'
  <1>1. /\ call.pc = "flush" /\ (bUio.on => bUio.bytes = <<>>) /\ Return("SUCCESS") /\ app' = AppWritten
        /\ bUio' = IF call.op = "done" /\ ~Datagram THEN NoBuffer ELSE bUio
        /\ UNCHANGED <<rec, built, wire, disturbed>>
    BY DEF FlightDone
  <1>2. NoBuffer \in BufferUio /\ NoBuffer.bytes = <<>> /\ NoBuffer.on = FALSE
    BY NumsEmpty DEF NoBuffer, BufferUio
  <1>3. bUio' \in BufferUio /\ bUio'.bytes = <<>> /\ (bUio'.on => bUio.on)
    BY <1>1, <1>2, Parts DEF FlightInv
  <1>4. /\ call' \in Calls /\ call'.pc = "idle" /\ call'.done = 0
        /\ last' \in Results /\ last'.op = call.op /\ last'.ret = "SUCCESS"
    BY <1>1, Parts, ReturnFacts
  <1>5. app' \in [next : Nat, pending : Nat] /\ Flight
    BY <1>1, Parts DEF AppWritten, FlightInv
  <1>6. Out' \subseteq Out
    BY <1>1, <1>3, NumsEmpty DEF Out
  <1>7. NothingLeft'
    <2>1. call.op = "app" => rec'.num = 0
      BY <1>1, Parts DEF FlightInv
    <2>2. QED
      BY <1>3, <1>4, <2>1 DEF NothingLeft
  <1>8. FlightInv'
    BY <1>3, <1>4, <1>5, <1>7, Parts DEF FlightInv, Flight
  <1>9. QED
    BY <1>1, <1>3, <1>4, <1>5, <1>6, <1>8, Parts, QuietStep DEF OutInv

\* A round of the flush.
LEMMA BufferFlushKeeps ==
  ASSUME IInv, UNCHANGED link, BufferFlush
  PROVE  IInv'
  <1>1. PICK k \in Taken(bUio.bytes) :
          /\ Transport(bUio.bytes, k) /\ bUio' = Flushed(k)
          /\ IF k = 0 THEN Return("IO_BUSY") ELSE UNCHANGED <<call, last>>
    BY DEF BufferFlush
  <1>2. call.pc = "flush" /\ bUio.on /\ UNCHANGED <<rec, built, app, disturbed>>
    BY DEF BufferFlush
  <1>3. /\ k \in Nat /\ k <= Len(bUio.bytes)
        /\ wire' \in Seq(Seq(Byte)) /\ WireNums(wire') \subseteq WireNums(wire) \cup Nums(bUio.bytes)
    BY <1>1, Parts, TransportFacts
  <1>4. bUio' \in BufferUio /\ bUio'.on = bUio.on /\ Nums(bUio'.bytes) \subseteq Nums(bUio.bytes)
    BY <1>1, <1>3, Parts, FlushedFacts DEF BufferUio
  <1>5. Out' \subseteq Out
    BY <1>3, <1>4 DEF Out
  <1>6. /\ call' \in Calls /\ last' \in Results
        /\ \/ call'.pc = "idle" /\ call'.done = 0 /\ last'.ret = "IO_BUSY"
           \/ UNCHANGED <<call, last>>
    BY <1>1, Parts, ReturnFacts
  <1>7. FlightInv'
    BY <1>2, <1>4, <1>6, NotIdle, Parts DEF FlightInv, Flight
  <1>8. Flight /\ (Datagram => rec.num = 0 /\ call.done = 0)
    BY <1>2, Parts DEF FlightInv, OutInv
  <1>9. QED
    BY <1>2, <1>3, <1>4, <1>5, <1>6, <1>7, <1>8, Parts, QuietStep

\* A record is built in the empty outBuf, and its write begins.
LEMMA BuildKeeps ==
  ASSUME IInv, UNCHANGED <<link, bUio, wire, app, last, disturbed>>, call.pc = "record", rec.num = 0,
         Build(call.op), call' = [call EXCEPT !.pc = "write"]
  PROVE  IInv'
  <1>1. call.op \in {"app", "hs"} /\ (Datagram => call.done = 0)
    BY Parts DEF FlightInv, OutInv
  <1>2. call' \in Calls /\ call'.pc = "write" /\ call'.op = call.op /\ call'.done = call.done
    BY Parts DEF Calls
  <1>3. PICK len \in Sizes :
          /\ built' = Append(built, [type |-> call.op, data |-> IF call.op = "app" THEN app.next ELSE 0,
                                     len |-> len, seq |-> rec.seq])
          /\ rec' = [rec EXCEPT !.num = Len(built) + 1, !.start = 0, !.isWrapped = ~Datagram /\ rec.seq = MaxSeq]
    BY DEF Build
  <1> DEFINE d == IF call.op = "app" THEN app.next ELSE 0
             r == [type |-> call.op, data |-> d, len |-> len, seq |-> rec.seq]
             n == Len(built) + 1
             o == 0
             w == ~Datagram /\ rec.seq = MaxSeq
  <1>4. d \in Nat /\ (call.op = "app" => d = app.next) /\ rec.seq \in Nat /\ len \in Nat \ {0}
    BY Parts, RecordWriteAssumption DEF WriteState
  <1>5. built \in Seq(Record) /\ n \in Nat /\ o \in Nat /\ w \in BOOLEAN
    BY Parts, LenProperties DEF TypeInv
  <1>6. built' = Append(built, r) /\ rec' = [rec EXCEPT !.num = n, !.start = o, !.isWrapped = w]
    BY <1>3
  <1> HIDE DEF d
  <1>7. r \in Record /\ r.seq = rec.seq /\ r.type = call.op /\ (r.type = "app" => r.data = app.next)
    BY <1>1, <1>4 DEF Record
  <1>8. n = Len(built) + 1 /\ o = 0
    OBVIOUS
  <1> HIDE DEF r, n, o, w
  <1>9. rec' \in WriteState /\ rec'.num = n /\ rec'.seq = rec.seq /\ rec'.start = o
    BY <1>5, <1>6, Parts DEF WriteState
  <1>10. built' \in Seq(Record)
    BY <1>5, <1>6, <1>7, AppendProperties
  <1>11. TypeInv'
    BY <1>2, <1>9, <1>10, Parts DEF TypeInv, WriteState, Calls
  <1>12. Out' = Out
    BY DEF Out
  <1>13. FlightInv'
    BY <1>1, <1>2, NotIdle, Parts DEF FlightInv, Flight
  <1>14. OutInv' /\ SeqInv' /\ DataInv'
    BY <1>1, <1>2, <1>6, <1>7, <1>8, <1>9, <1>11, <1>12, BuildStep
  <1>15. QED
    BY <1>11, <1>13, <1>14 DEF IInv

\* The sequence numbers have run out, and the call ends.
LEMMA WrappedKeeps ==
  ASSUME IInv, UNCHANGED <<link, rec, built, bUio, wire, app, disturbed>>, call.pc = "record", Return("ERR_SN_WRAPPING")
  PROVE  IInv'
  <1>1. /\ call' \in Calls /\ call'.pc = "idle" /\ call'.done = 0
        /\ last' \in Results /\ last'.ret = "ERR_SN_WRAPPING"
    BY Parts, ReturnFacts
  <1>2. Out' = Out
    BY DEF Out
  <1>3. FlightInv'
    BY <1>1, NotIdle, Parts DEF FlightInv, Flight
  <1>4. QED
    BY <1>1, <1>2, <1>3, Parts, QuietStep DEF OutInv

\* TlsRecordWrite: the numbers have run out, a record is in outBuf already, or a new one is built.
LEMMA TlsRecordWriteKeeps ==
  ASSUME IInv, UNCHANGED link, TlsRecordWrite
  PROVE  IInv'
  <1>1. ~Datagram /\ call.pc = "record" /\ UNCHANGED <<bUio, wire, app>>
    BY DEF TlsRecordWrite
  <1>2. CASE rec.isWrapped
    BY <1>1, <1>2, WrappedKeeps DEF TlsRecordWrite
  <1>3. CASE ~rec.isWrapped /\ OutBuf # <<>>
    <2> DEFINE w == rec.seq = MaxSeq
    <2>1. /\ call' = [call EXCEPT !.pc = "write"] /\ rec' = [rec EXCEPT !.isWrapped = w] /\ w \in BOOLEAN
          /\ UNCHANGED <<built, last>>
      BY <1>3 DEF TlsRecordWrite
    <2> HIDE DEF w
    <2>2. call' \in Calls /\ call'.pc = "write" /\ call'.op = call.op
      BY <2>1, Parts DEF Calls
    <2>3. rec' \in WriteState /\ rec'.num = rec.num /\ rec'.seq = rec.seq /\ rec'.start = rec.start
      BY <2>1, Parts DEF WriteState
    <2>4. rec.num # 0 /\ rec'.start < built[rec.num].len
      BY <1>3, <2>3, Parts, OutBufFacts DEF OutInv
    <2>5. TypeInv'
      BY <1>1, <2>1, <2>2, <2>3, Parts DEF TypeInv, WriteState, Calls
    <2>6. Out' = Out
      BY <1>1 DEF Out
    <2>7. FlightInv'
      BY <1>1, <2>2, NotIdle, Parts DEF FlightInv, Flight
    <2>8. disturbed \subseteq disturbed' /\ (AppRecord(rec.num) /\ call'.op # "app" => app.next \in disturbed')
      BY <1>3, <2>2, <2>4, DisturbedFacts DEF TlsRecordWrite
    <2>9. OutInv' /\ SeqInv' /\ DataInv'
      BY <1>1, <2>1, <2>2, <2>3, <2>4, <2>5, <2>6, <2>8, KeepStep
    <2>10. QED
      BY <2>5, <2>7, <2>9 DEF IInv
  <1>4. CASE ~rec.isWrapped /\ OutBuf = <<>>
    <2>1. rec.num = 0
      BY <1>4, Parts, OutBufFacts
    <2>2. Build(call.op) /\ call' = [call EXCEPT !.pc = "write"] /\ UNCHANGED <<last, disturbed>>
      BY <1>4, <2>1, DisturbedFacts DEF TlsRecordWrite
    <2>3. QED
      BY <1>1, <2>1, <2>2, BuildKeeps
  <1>5. QED
    BY <1>2, <1>3, <1>4

\* DtlsRecordWrite: outBuf is empty, since a datagram is in it only while it is written.
LEMMA DtlsRecordWriteKeeps ==
  ASSUME IInv, UNCHANGED link, DtlsRecordWrite
  PROVE  IInv'
  <1>1. Datagram /\ call.pc = "record" /\ UNCHANGED <<bUio, wire, app, disturbed>>
    BY DEF DtlsRecordWrite
  <1>2. CASE rec.seq > MaxSeq
    BY <1>1, <1>2, WrappedKeeps DEF DtlsRecordWrite
  <1>3. CASE ~(rec.seq > MaxSeq)
    <2>1. rec.num = 0
      BY <1>1, Parts DEF OutInv
    <2>2. Build(call.op) /\ call' = [call EXCEPT !.pc = "write"] /\ UNCHANGED last
      BY <1>3 DEF DtlsRecordWrite
    <2>3. QED
      BY <1>1, <2>1, <2>2, BuildKeeps
  <1>4. QED
    BY <1>2, <1>3

-----------------------------------------------------------------------------
(* The theorems.                                                           *)

\* The invariant holds before the first write.
LEMMA InitInv == Init => IInv
  <1>1. SUFFICES ASSUME Init
                 PROVE  IInv
    OBVIOUS
  <1>2. /\ rec = [seq |-> 0, isWrapped |-> FALSE, num |-> 0, start |-> 0]
        /\ built = <<>> /\ bUio = NoBuffer /\ wire = <<>> /\ app = [next |-> 1, pending |-> 0]
        /\ call = Idle /\ last = [op |-> "none", ret |-> "SUCCESS"] /\ link \in Links
    BY <1>1 DEF Init
  <1>3. rec \in WriteState /\ rec.num = 0
    BY <1>2 DEF WriteState
  <1>4. bUio \in BufferUio /\ bUio.bytes = <<>> /\ bUio.on = FALSE
    BY <1>2, NumsEmpty DEF BufferUio, NoBuffer
  <1>5. call \in Calls /\ call.pc = "idle" /\ call.done = 0
    BY <1>2 DEF Calls, Idle
  <1>6. last \in Results /\ last.op = "none"
    BY <1>2 DEF Results
  <1>7. built \in Seq(Record) /\ wire \in Seq(Seq(Byte)) /\ Len(built) = 0 /\ DOMAIN wire = {}
    BY <1>2
  <1>8. app \in [next : Nat, pending : Nat]
    BY <1>2
  <1>9. TypeInv
    BY <1>2, <1>3, <1>4, <1>5, <1>6, <1>7, <1>8 DEF TypeInv, WriteState, BufferUio, Calls, Results
  <1>10. Out = {}
    BY <1>4, <1>7, NumsEmpty DEF Out, WireNums
  <1>11. OutInv
    BY <1>3, <1>5, <1>7 DEF OutInv
  <1>12. FlightInv
    BY <1>4, <1>5, <1>6 DEF FlightInv, NothingLeft
  <1>13. SeqInv /\ DataInv
    BY <1>3, <1>10 DEF SeqInv, DataInv
  <1>14. QED
    BY <1>9, <1>11, <1>12, <1>13 DEF IInv

\* Every step keeps the invariant.
LEMMA NextInv == IInv /\ [Next]_vars => IInv'
  <1>1. SUFFICES ASSUME IInv, [Next]_vars
                 PROVE  IInv'
    OBVIOUS
  <1>2. CASE UNCHANGED vars
    <2>1. UNCHANGED <<link, rec, built, bUio, wire, app, call, last, disturbed>>
      BY <1>2 DEF vars
    <2>2. Out' = Out
      BY <2>1 DEF Out
    <2>3. FlightInv'
      BY <1>1, <2>1, Parts DEF FlightInv, Flight, NothingLeft
    <2>4. QED
      BY <1>1, <2>1, <2>2, <2>3, Parts, QuietStep DEF OutInv, DataInv
  <1>3. CASE Next
    <2>1. UNCHANGED link
      BY <1>3 DEF Next
    <2>2. CASE HsInit
      BY <1>1, <2>1, <2>2, HsInitKeeps
    <2>3. CASE AppWrite
      BY <1>1, <2>1, <2>3, AppWriteKeeps
    <2>4. CASE HsSend
      BY <1>1, <2>1, <2>4, HsSendKeeps
    <2>5. CASE HsDone
      BY <1>1, <2>1, <2>5, HsDoneKeeps
    <2>6. CASE DtlsDeInit
      BY <1>1, <2>1, <2>6, DtlsDeInitKeeps
    <2>7. CASE ChangeBufferSize
      BY <1>1, <2>1, <2>7, ChangeBufferSizeKeeps
    <2>8. CASE Write
      <3>1. CASE TlsRecordWrite
        BY <1>1, <2>1, <3>1, TlsRecordWriteKeeps
      <3>2. CASE DtlsRecordWrite
        BY <1>1, <2>1, <3>2, DtlsRecordWriteKeeps
      <3>3. CASE TransportWrite
        BY <1>1, <2>1, <3>3, TransportWriteKeeps
      <3>4. CASE BufferCache
        BY <1>1, <2>1, <3>4, BufferCacheKeeps
      <3>5. CASE BufferMakeRoom
        BY <1>1, <2>1, <3>5, BufferMakeRoomKeeps
      <3>6. CASE BufferDirect
        BY <1>1, <2>1, <3>6, BufferDirectKeeps
      <3>7. CASE FlightDone
        BY <1>1, <2>1, <3>7, FlightDoneKeeps
      <3>8. CASE BufferFlush
        BY <1>1, <2>1, <3>8, BufferFlushKeeps
      <3>9. QED
        BY <2>8, <3>1, <3>2, <3>3, <3>4, <3>5, <3>6, <3>7, <3>8 DEF Write
    <2>9. CASE OutBufFlush
      BY <1>1, <2>1, <2>9, OutBufFlushKeeps
    <2>10. QED
      BY <1>3, <2>2, <2>3, <2>4, <2>5, <2>6, <2>7, <2>8, <2>9 DEF Next
  <1>4. QED
    BY <1>1, <1>2, <1>3

\* The invariant holds throughout.
LEMMA InvAlways == Spec => []IInv
  <1>1. Init => IInv
    BY InitInv
  <1>2. IInv /\ [Next]_vars => IInv'
    BY NextInv
  <1>3. QED
    BY <1>1, <1>2, PTL DEF Spec

\* The records sent are among those that are out.
LEMMA SentOutside ==
  ASSUME NEW n \in Sent
  PROVE  n \in Out /\ n \in 1..Len(built)
  <1>1. PICK d \in DOMAIN wire : \E i \in DOMAIN wire[d] : wire[d][i][1] = n
    BY DEF Sent
  <1>2. PICK i \in DOMAIN wire[d] : wire[d][i][1] = n
    BY <1>1
  <1>3. n \in Nums(wire[d])
    BY <1>2 DEF Nums
  <1>4. QED
    BY <1>3 DEF Sent, Out, WireNums

\* No two records with a byte on the wire have the same sequence number: SendRecord advances it after the
\* whole record was taken, and a record built again under the same number (DatagramWrite) replaces one of
\* which nothing was sent.
THEOREM SeqOnceTheorem == Spec => []SeqOnce
  <1>1. IInv => SeqOnce
    BY SentOutside DEF IInv, SeqInv, SeqOnce
  <1>2. QED
    BY <1>1, InvAlways, PTL

\* Without flight mode a piece of application data goes out in one record only, however often APP_Write is
\* called again for it: a stream continues the record in outBuf, and a datagram was sent whole or dropped.
THEOREM DataOnceTheorem == Spec => []DataOnce
  <1>1. IInv => DataOnce
    BY SentOutside DEF IInv, DataInv, DataOnce, SameData, AppRecord
  <1>2. QED
    BY <1>1, InvAlways, PTL

-----------------------------------------------------------------------------
(* Induction, as a least counterexample, and FlattenSeq.                   *)

\* A nonempty set of numbers has a least element.
LEMMA NatMin ==
  ASSUME NEW S \in SUBSET Nat, S # {}
  PROVE  \E n \in S : \A m \in S : n <= m
  <1> DEFINE R == OpToRel(<, Nat)
  <1>1. IsWellFoundedOn(R, Nat)
    BY NatLessThanWellFounded
  <1>2. \A x, y \in Nat : x < y => <<x, y>> \in R
    BY DEF OpToRel
  <1> HIDE DEF R
  <1>3. PICK n \in S : \A m \in S : ~(<<m, n>> \in R)
    BY <1>1, WFMin
  <1>4. ASSUME NEW m \in S
        PROVE  n <= m
    <2>1. ~(m < n)
      BY <1>2, <1>3
    <2>2. QED
      BY <2>1
  <1>5. QED
    BY <1>4

\* Induction up to n.
LEMMA Upward ==
  ASSUME NEW n \in Nat, NEW S, 0 \in S, \A i \in 0..(n - 1) : i \in S => i + 1 \in S
  PROVE  \A i \in 0..n : i \in S
  <1> DEFINE T == {i \in 0..n : i \notin S}
  <1>1. SUFFICES ASSUME T # {}
                 PROVE  FALSE
    OBVIOUS
  <1>2. PICK m \in T : \A k \in T : m <= k
    <2>1. T \in SUBSET Nat
      BY SMT
    <2> HIDE DEF T
    <2>2. QED
      BY <1>1, <2>1, NatMin
  <1>3. m # 0 /\ m - 1 \in 0..(n - 1) /\ m - 1 \notin T
    BY <1>2
  <1>4. m - 1 \in S
    BY <1>3
  <1>5. QED
    BY <1>3, <1>4

\* A solution of the recursion of FlattenSeq.
HasFlat(n, w) == \E f : f = [i \in 1..n |-> IF i = 1 THEN w[i] ELSE f[i - 1] \o w[i]]

\* The recursion of FlattenSeq has a solution.
LEMMA FlatExists ==
  ASSUME NEW n \in Nat, NEW w
  PROVE  HasFlat(n, w)
  <1> DEFINE V(x, i) == x \o w[i]
             P(k) == \E f : f = [i \in 1..k |-> IF i = 1 THEN w[i] ELSE V(f[i - 1], i)]
             S == {k \in 0..n : P(k)}
  <1> HIDE DEF V
  <1>1. 0 \in S
    <2> DEFINE f == [i \in 1..0 |-> w[i]]
    <2>1. f = [i \in 1..0 |-> IF i = 1 THEN w[i] ELSE V(f[i - 1], i)]
      <3>1. \A i \in 1..0 : FALSE
        OBVIOUS
      <3>2. QED
        BY <3>1
    <2> HIDE DEF f
    <2>2. P(0)
      BY <2>1, Zenon
    <2>3. 0 \in 0..n
      OBVIOUS
    <2>4. QED
      BY <2>2, <2>3, Zenon
  <1>2. ASSUME NEW k \in 0..(n - 1), k \in S
        PROVE  k + 1 \in S
    <2>1. PICK f : f = [i \in 1..k |-> IF i = 1 THEN w[i] ELSE V(f[i - 1], i)]
      BY <1>2
    <2> DEFINE h == [i \in 1..(k + 1) |-> IF i = k + 1 THEN (IF i = 1 THEN w[i] ELSE V(f[k], k + 1)) ELSE f[i]]
    <2>2. ASSUME NEW i \in 1..(k + 1)
          PROVE  h[i] = IF i = 1 THEN w[i] ELSE V(h[i - 1], i)
      <3>1. CASE i = k + 1
        <4>1. CASE i = 1
          BY <3>1, <4>1
        <4>2. CASE i # 1
          <5>1. h[i] = V(f[k], k + 1) /\ i - 1 \in 1..(k + 1) /\ i - 1 # k + 1 /\ i - 1 = k
            BY <3>1, <4>2
          <5>2. h[i - 1] = f[k]
            BY <5>1
          <5>3. QED
            BY <3>1, <4>2, <5>1, <5>2
        <4>3. QED
          BY <4>1, <4>2
      <3>2. CASE i # k + 1
        <4>1. i \in 1..k /\ h[i] = f[i]
          BY <3>2
        <4>2. i # 1 => i - 1 \in 1..(k + 1) /\ i - 1 # k + 1
          BY <3>2
        <4>3. i # 1 => h[i - 1] = f[i - 1]
          BY <4>2
        <4>4. f[i] = IF i = 1 THEN w[i] ELSE V(f[i - 1], i)
          BY <2>1, <4>1
        <4>5. QED
          BY <4>1, <4>3, <4>4
      <3>3. QED
        BY <3>1, <3>2
    <2>3. h = [i \in 1..(k + 1) |-> IF i = 1 THEN w[i] ELSE V(h[i - 1], i)]
      BY <2>2
    <2> HIDE DEF h
    <2>4. P(k + 1)
      BY <2>3, Zenon
    <2>5. k + 1 \in 0..n
      OBVIOUS
    <2>6. QED
      BY <2>4, <2>5, Zenon
  <1> HIDE DEF S
  <1>3. n \in S
    BY <1>1, <1>2, Upward
  <1>4. P(n)
    BY <1>3 DEF S
  <1>5. QED
    BY <1>4, Zenon DEF V, HasFlat

\* v is made of the first n pieces of w.
IsFlat(n, w, v) == \E f : v = f[n] /\ f[1] = w[1] /\ \A i \in 2..n : f[i] = f[i - 1] \o w[i]

\* What FlattenSeq computes, piece by piece.
LEMMA FlatIs ==
  ASSUME NEW n \in Nat \ {0}, NEW w, Len(w) = n
  PROVE  IsFlat(n, w, FlattenSeq(w))
  <1> DEFINE T == CHOOSE f : f = [i \in 1..n |-> IF i = 1 THEN w[i] ELSE f[i - 1] \o w[i]]
  <1>1. FlattenSeq(w) = T[n]
    <2>1. Len(w) # 0
      OBVIOUS
    <2>2. QED
      BY <2>1, Zenon DEF FlattenSeq
  <1>2. T = [i \in 1..n |-> IF i = 1 THEN w[i] ELSE T[i - 1] \o w[i]]
    <2>1. HasFlat(n, w)
      BY FlatExists
    <2>2. QED
      BY <2>1, Zenon DEF HasFlat
  <1> HIDE DEF T
  <1>3. T[1] = w[1]
    BY <1>2
  <1>4. ASSUME NEW i \in 2..n
        PROVE  T[i] = T[i - 1] \o w[i]
    <2>1. i \in 1..n /\ i # 1
      OBVIOUS
    <2>2. QED
      BY <1>2, <2>1
  <1>5. QED
    BY <1>1, <1>3, <1>4, Zenon DEF IsFlat

\* Flattening nothing.
LEMMA FlatEmpty == FlattenSeq(<<>>) = <<>>
  <1>1. Len(<<>>) = 0
    OBVIOUS
  <1>2. QED
    BY <1>1, Zenon DEF FlattenSeq

\* The flattened pieces are a sequence.
LEMMA FlatType ==
  ASSUME NEW B, NEW w \in Seq(Seq(B))
  PROVE  FlattenSeq(w) \in Seq(B)
  <1>0. PICK n : n = Len(w)
    OBVIOUS
  <1>1. n \in Nat /\ \A i \in 1..n : w[i] \in Seq(B)
    BY <1>0, LenProperties, ElementOfSeq
  <1>2. CASE n = 0
    <2>1. w = <<>>
      BY <1>0, <1>2, EmptySeq
    <2>2. QED
      BY <2>1, FlatEmpty, EmptySeq
  <1>3. CASE n # 0
    <2>1. PICK f : /\ FlattenSeq(w) = f[n] /\ f[1] = w[1]
                   /\ \A i \in 2..n : f[i] = f[i - 1] \o w[i]
      <3>1. IsFlat(n, w, FlattenSeq(w))
        BY <1>0, <1>1, <1>3, FlatIs
      <3>2. QED
        BY <3>1, Zenon DEF IsFlat
    <2> DEFINE S == {k \in 0..n : k # 0 => f[k] \in Seq(B)}
    <2>2. 0 \in S
      BY <1>1
    <2>3. ASSUME NEW k \in 0..(n - 1), k \in S
          PROVE  k + 1 \in S
      <3>1. k + 1 \in 0..n /\ k + 1 \in 1..n /\ (k # 0 => k + 1 \in 2..n /\ (k + 1) - 1 = k)
        BY <1>1
      <3>2. CASE k = 0
        BY <1>1, <2>1, <3>1, <3>2
      <3>3. CASE k # 0
        <4>1. f[k] \in Seq(B) /\ w[k + 1] \in Seq(B) /\ f[k + 1] = f[k] \o w[k + 1]
          BY <1>1, <2>1, <2>3, <3>1, <3>3
        <4>2. f[k + 1] \in Seq(B)
          BY <4>1, ConcatProperties
        <4>3. QED
          BY <3>1, <4>2
      <3>4. QED
        BY <3>2, <3>3
    <2> HIDE DEF S
    <2>4. n \in S
      <3>1. \A i \in 0..(n - 1) : i \in S => i + 1 \in S
        BY <2>3
      <3>2. \A i \in 0..n : i \in S
        BY <1>1, <2>2, <3>1, Upward
      <3>3. QED
        BY <1>1, <3>2
    <2>5. QED
      BY <1>3, <2>1, <2>4 DEF S
  <1>4. QED
    BY <1>2, <1>3

\* One piece more.
LEMMA FlatAppend ==
  ASSUME NEW B, NEW w \in Seq(Seq(B)), NEW x \in Seq(B)
  PROVE  FlattenSeq(Append(w, x)) = FlattenSeq(w) \o x
  <1>0. PICK n, a : n = Len(w) /\ a = Append(w, x)
    OBVIOUS
  <1>1. n \in Nat /\ Len(a) = n + 1 /\ a[n + 1] = x /\ \A i \in 1..n : a[i] = w[i]
    BY <1>0, LenProperties, AppendProperties
  <1>2. PICK g : /\ FlattenSeq(a) = g[n + 1] /\ g[1] = a[1]
                 /\ \A i \in 2..(n + 1) : g[i] = g[i - 1] \o a[i]
    <2>1. n + 1 \in Nat \ {0}
      BY <1>1
    <2>2. IsFlat(n + 1, a, FlattenSeq(a))
      BY <1>1, <2>1, FlatIs
    <2>3. QED
      BY <2>2, Zenon DEF IsFlat
  <1>3. CASE n = 0
    <2>1. w = <<>>
      BY <1>0, <1>3, EmptySeq
    <2>2. g[n + 1] = x
      BY <1>1, <1>2, <1>3
    <2>3. <<>> \o x = x
      BY ConcatEmptySeq
    <2>4. QED
      BY <1>0, <1>2, <2>1, <2>2, <2>3, FlatEmpty
  <1>4. CASE n # 0
    <2>1. PICK f : /\ FlattenSeq(w) = f[n] /\ f[1] = w[1]
                   /\ \A i \in 2..n : f[i] = f[i - 1] \o w[i]
      <3>1. IsFlat(n, w, FlattenSeq(w))
        BY <1>0, <1>1, <1>4, FlatIs
      <3>2. QED
        BY <3>1, Zenon DEF IsFlat
    <2> DEFINE S == {k \in 0..n : k # 0 => f[k] = g[k]}
    <2>2. 0 \in S
      BY <1>1
    <2>3. ASSUME NEW k \in 0..(n - 1), k \in S
          PROVE  k + 1 \in S
      <3>1. k + 1 \in 0..n /\ k + 1 \in 1..n /\ (k # 0 => k + 1 \in 2..n /\ k + 1 \in 2..(n + 1) /\ (k + 1) - 1 = k)
        BY <1>1
      <3>2. CASE k = 0
        BY <1>1, <1>2, <2>1, <3>1, <3>2
      <3>3. CASE k # 0
        <4>1. f[k] = g[k] /\ w[k + 1] = a[k + 1] /\ f[k + 1] = f[k] \o w[k + 1] /\ g[k + 1] = g[k] \o a[k + 1]
          BY <1>1, <1>2, <2>1, <2>3, <3>1, <3>3
        <4>2. QED
          BY <3>1, <4>1
      <3>4. QED
        BY <3>2, <3>3
    <2> HIDE DEF S
    <2>4. n \in S
      <3>1. \A i \in 0..(n - 1) : i \in S => i + 1 \in S
        BY <2>3
      <3>2. \A i \in 0..n : i \in S
        BY <1>1, <2>2, <3>1, Upward
      <3>3. QED
        BY <1>1, <3>2
    <2>5. f[n] = g[n]
      BY <1>4, <2>4 DEF S
    <2>6. n + 1 \in 2..(n + 1) /\ (n + 1) - 1 = n
      BY <1>1, <1>4
    <2>7. g[n + 1] = g[n] \o x
      BY <1>1, <1>2, <2>6
    <2>8. QED
      BY <1>0, <1>2, <2>1, <2>5, <2>7
  <1>5. QED
    BY <1>3, <1>4

-----------------------------------------------------------------------------
(* What is left of a sequence of bytes.                                    *)

First(b, k) == SubSeq(b, 1, k)
Rest(b, k) == SubSeq(b, k + 1, Len(b))
Cat(a, b) == a \o b

\* The rest and what comes before it.
LEMMA RestFacts ==
  ASSUME NEW b \in Seq(Byte), NEW k \in Nat, k <= Len(b)
  PROVE  /\ Rest(b, k) \in Seq(Byte) /\ Len(Rest(b, k)) = Len(b) - k
         /\ \A i \in 1..(Len(b) - k) : Rest(b, k)[i] = b[k + i]
         /\ First(b, k) \in Seq(Byte) /\ Cat(First(b, k), Rest(b, k)) = b
         /\ k = 0 => Rest(b, k) = b /\ First(b, k) = <<>>
         /\ k = Len(b) => Rest(b, k) = <<>> /\ First(b, k) = b
  <1>0. PICK n : n = Len(b)
    OBVIOUS
  <1>1. n \in Nat /\ \A i \in 1..n : b[i] \in Byte
    BY <1>0, LenProperties, ElementOfSeq
  <1>2. PICK r, s : r = SubSeq(b, k + 1, n) /\ s = SubSeq(b, 1, k)
    OBVIOUS
  <1>3. Rest(b, k) = r
    BY <1>0, <1>2 DEF Rest
  <1>4. /\ r \in Seq(Byte) /\ Len(r) = IF k + 1 <= n THEN n - (k + 1) + 1 ELSE 0
        /\ \A i \in 1..(n - (k + 1) + 1) : r[i] = b[(k + 1) + i - 1]
    <2>1. \A i \in (k + 1)..n : b[i] \in Byte
      BY <1>1
    <2>2. k + 1 \in Int /\ n \in Int
      BY <1>1
    <2>3. QED
      BY <1>2, <2>1, <2>2, SubSeqProperties
  <1>5. s \in Seq(Byte)
    <2>1. \A i \in 1..k : b[i] \in Byte
      BY <1>0, <1>1
    <2>2. QED
      BY <1>2, <2>1, SubSeqProperties
  <1>6. s \o r = b
    <2>1. 1 \in 1..(Len(b) + 1) /\ k \in (1 - 1)..Len(b) /\ n \in k..Len(b)
      BY <1>0, <1>1
    <2>2. SubSeq(b, 1, k) \o SubSeq(b, k + 1, n) = SubSeq(b, 1, n)
      BY <2>1, ConcatAdjacentSubSeq
    <2>3. QED
      BY <1>0, <1>2, <2>2, SubSeqFull
  <1>7. k = 0 => r = b /\ s = <<>>
    BY <1>0, <1>2, SubSeqFull, SubSeqEmpty
  <1>8. k = n => r = <<>> /\ s = b
    <2>1. k = n => k + 1 \in Int /\ n \in Int /\ n < k + 1
      BY <1>1
    <2>2. QED
      BY <1>0, <1>2, <2>1, SubSeqFull, SubSeqEmpty
  <1>9. Len(r) = n - k /\ \A i \in 1..(n - k) : r[i] = b[k + i]
    <2>1. Len(r) = n - k /\ n - (k + 1) + 1 = n - k
      BY <1>0, <1>1, <1>4
    <2>2. ASSUME NEW i \in 1..(n - k)
          PROVE  r[i] = b[k + i]
      <3>1. (k + 1) + i - 1 = k + i /\ i \in 1..(n - (k + 1) + 1)
        BY <1>1, <2>1
      <3>2. QED
        BY <1>4, <3>1
    <2>3. QED
      BY <2>1, <2>2
  <1>10. First(b, k) = s
    BY <1>2 DEF First
  <1>11. Cat(s, r) = b
    BY <1>6, Zenon DEF Cat
  <1>12. QED
    BY <1>0, <1>3, <1>4, <1>5, <1>7, <1>8, <1>9, <1>10, <1>11

\* The rest of the rest.
LEMMA RestOfRest ==
  ASSUME NEW b \in Seq(Byte), NEW k \in Nat, NEW m \in Nat, k + m <= Len(b)
  PROVE  Rest(Rest(b, k), m) = Rest(b, k + m)
  <1>0. PICK n, r, s, t : n = Len(b) /\ r = Rest(b, k) /\ s = Rest(r, m) /\ t = Rest(b, k + m)
    OBVIOUS
  <1>1. n \in Nat /\ k <= n /\ k + m \in Nat
    BY <1>0, LenProperties
  <1>2. r \in Seq(Byte) /\ Len(r) = n - k /\ \A i \in 1..(n - k) : r[i] = b[k + i]
    BY <1>0, <1>1, RestFacts
  <1>3. t \in Seq(Byte) /\ Len(t) = n - (k + m) /\ \A i \in 1..(n - (k + m)) : t[i] = b[(k + m) + i]
    BY <1>0, <1>1, RestFacts
  <1>4. m <= Len(r)
    BY <1>0, <1>1, <1>2
  <1>5. s \in Seq(Byte) /\ Len(s) = Len(r) - m /\ \A i \in 1..(Len(r) - m) : s[i] = r[m + i]
    BY <1>0, <1>2, <1>4, RestFacts
  <1>6. Len(s) = Len(t)
    BY <1>1, <1>2, <1>3, <1>5, SMTT(30)
  <1>7. ASSUME NEW i \in 1..Len(s)
        PROVE  s[i] = t[i]
    <2>1. /\ i \in 1..(Len(r) - m) /\ m + i \in 1..(n - k) /\ i \in 1..(n - (k + m))
          /\ k + (m + i) = (k + m) + i
      BY <1>1, <1>2, <1>5
    <2>2. s[i] = r[m + i] /\ r[m + i] = b[k + (m + i)] /\ t[i] = b[(k + m) + i]
      BY <1>2, <1>3, <1>5, <2>1
    <2>3. QED
      BY <2>1, <2>2
  <1>8. s = t
    BY <1>3, <1>5, <1>6, <1>7, SeqEqual
  <1>9. QED
    BY <1>0, <1>8

\* Concatenation is associative.
LEMMA CatAssoc ==
  ASSUME NEW B, NEW a \in Seq(B), NEW b \in Seq(B), NEW c \in Seq(B)
  PROVE  Cat(Cat(a, b), c) = Cat(a, Cat(b, c)) /\ Cat(a, b) \in Seq(B)
  <1>1. (a \o b) \o c = a \o (b \o c)
    OBVIOUS
  <1>2. a \o b \in Seq(B)
    BY ConcatProperties
  <1>3. QED
    BY <1>1, <1>2, Zenon DEF Cat

\* Bytes move on: from the rest of outBuf to the buffer UIO, and from both to the wire.
LEMMA Moves ==
  ASSUME NEW B, NEW w \in Seq(B), NEW b \in Seq(B), NEW i \in Seq(B), NEW v \in Seq(B),
         NEW b2 \in Seq(B), NEW i2 \in Seq(B), Cat(b, i) = Cat(v, Cat(b2, i2))
  PROVE  Cat(Cat(Cat(w, v), b2), i2) = Cat(Cat(w, b), i)
  <1>1. Cat(b2, i2) \in Seq(B) /\ Cat(w, v) \in Seq(B)
    BY CatAssoc
  <1>2. Cat(Cat(Cat(w, v), b2), i2) = Cat(Cat(w, v), Cat(b2, i2))
    BY <1>1, CatAssoc
  <1>3. Cat(Cat(w, v), Cat(b2, i2)) = Cat(w, Cat(v, Cat(b2, i2)))
    BY <1>1, CatAssoc
  <1>4. Cat(Cat(w, b), i) = Cat(w, Cat(b, i))
    BY CatAssoc
  <1>5. QED
    BY <1>2, <1>3, <1>4

\* Concatenation with the empty sequence.
LEMMA CatEmpty ==
  ASSUME NEW B, NEW a \in Seq(B)
  PROVE  Cat(a, <<>>) = a /\ Cat(<<>>, a) = a
  BY ConcatEmptySeq DEF Cat

-----------------------------------------------------------------------------
(* Whole records.                                                          *)

\* Whole, of the records r.
ByteOk(r, b, i, n, k) ==
  /\ n \in 1..Len(r) /\ k \in 1..r[n].len
  /\ k > 1 => i > 1 /\ b[i - 1] = <<n, k - 1>>
  /\ k < r[n].len => i < Len(b) /\ b[i + 1] = <<n, k + 1>>
  /\ k = 1 /\ i > 1 => b[i - 1][1] < n
WholeOf(r, b) == \A i \in 1..Len(b) : ByteOk(r, b, i, b[i][1], b[i][2])

\* It is Whole.
LEMMA WholeIs ==
  ASSUME NEW b
  PROVE  Whole(b) <=> WholeOf(built, b)
  BY Zenon DEF Whole, WholeOf, ByteOk

\* Nothing, whole.
LEMMA WholeEmpty ==
  ASSUME NEW r
  PROVE  WholeOf(r, <<>>)
  <1>1. \A i \in 1..Len(<<>>) : FALSE
    OBVIOUS
  <1>2. QED
    BY <1>1, Zenon DEF WholeOf

\* One record, whole.
LEMMA WholeRecord ==
  ASSUME NEW r \in Seq(Record), NEW n \in 1..Len(r), NEW b \in Seq(Byte), Len(b) = r[n].len,
         \A i \in 1..Len(b) : b[i] = <<n, i>>
  PROVE  WholeOf(r, b)
  <1>1. ASSUME NEW i \in 1..Len(b)
        PROVE  ByteOk(r, b, i, b[i][1], b[i][2])
    <2>0. PICK l : l = Len(b)
      OBVIOUS
    <2>1. b[i][1] = n /\ b[i][2] = i /\ l \in Nat /\ r[n].len = l
      BY <2>0, LenProperties
    <2>2. i > 1 => i - 1 \in 1..Len(b)
      BY <2>0, <2>1
    <2>3. i < l => i + 1 \in 1..Len(b)
      BY <2>0, <2>1
    <2>4. i > 1 => b[i - 1] = <<n, i - 1>>
      BY <2>2
    <2>5. i < l => b[i + 1] = <<n, i + 1>>
      BY <2>3
    <2>6. ByteOk(r, b, i, n, i)
      BY <2>0, <2>1, <2>4, <2>5 DEF ByteOk
    <2>7. QED
      BY <2>1, <2>6
  <1>2. QED
    BY <1>1 DEF WholeOf

\* A record more has been built.
LEMMA WholeAppend ==
  ASSUME NEW r \in Seq(Record), NEW x \in Record, NEW s, s = Append(r, x), NEW b, WholeOf(r, b)
  PROVE  WholeOf(s, b)
  <1>1. Len(r) \in Nat /\ Len(s) = Len(r) + 1 /\ \A n \in 1..Len(r) : s[n] = r[n]
    BY LenProperties, AppendProperties
  <1>2. ASSUME NEW i \in 1..Len(b), NEW n, NEW k, ByteOk(r, b, i, n, k)
        PROVE  ByteOk(s, b, i, n, k)
    <2>1. n \in 1..Len(r) /\ n \in 1..Len(s) /\ s[n] = r[n]
      BY <1>1, <1>2 DEF ByteOk
    <2>2. QED
      BY <1>2, <2>1, Zenon DEF ByteOk
  <1>3. QED
    BY <1>2 DEF WholeOf

\* Whole records after whole records that were built before.
LEMMA WholeConcat ==
  ASSUME NEW r \in Seq(Record), NEW a \in Seq(Byte), NEW b \in Seq(Byte), WholeOf(r, a), WholeOf(r, b),
         \A m \in Nums(a) : \A n \in Nums(b) : m < n
  PROVE  WholeOf(r, Cat(a, b))
  <1>0. PICK s, p, q : s = Cat(a, b) /\ p = Len(a) /\ q = Len(b)
    OBVIOUS
  <1>1. /\ p \in Nat /\ q \in Nat /\ s \in Seq(Byte) /\ Len(s) = p + q
        /\ \A i \in 1..(p + q) : s[i] = IF i <= p THEN a[i] ELSE b[i - p]
    BY <1>0, LenProperties, ConcatProperties DEF Cat
  <1>2. (\A i \in 1..p : s[i] = a[i]) /\ \A j \in 1..q : s[p + j] = b[j]
    <2>1. ASSUME NEW j \in 1..q
          PROVE  s[p + j] = b[j]
      <3>1. p + j \in 1..(p + q) /\ ~(p + j <= p) /\ (p + j) - p = j
        BY <1>1
      <3>2. QED
        BY <1>1, <3>1
    <2>2. ASSUME NEW j \in 1..p
          PROVE  s[j] = a[j]
      <3>1. j \in 1..(p + q) /\ j <= p
        BY <1>1
      <3>2. QED
        BY <1>1, <3>1
    <2>3. QED
      BY <2>1, <2>2
  <1>3. ASSUME NEW i \in 1..p
        PROVE  ByteOk(r, s, i, s[i][1], s[i][2])
    <2>0. PICK n, k : n = a[i][1] /\ k = a[i][2]
      OBVIOUS
    <2>1. ByteOk(r, a, i, n, k)
      BY <1>0, <2>0 DEF WholeOf
    <2>2. (i > 1 => s[i - 1] = a[i - 1]) /\ (i < p => s[i + 1] = a[i + 1])
      <3>1. (i > 1 => i - 1 \in 1..p) /\ (i < p => i + 1 \in 1..p)
        BY <1>1
      <3>2. QED
        BY <1>2, <3>1
    <2>3. i < p => i < Len(s)
      BY <1>1
    <2>4. ByteOk(r, s, i, n, k)
      BY <1>0, <2>1, <2>2, <2>3, Zenon DEF ByteOk
    <2>5. QED
      BY <1>2, <2>0, <2>4
  <1>4. ASSUME NEW j \in 1..q
        PROVE  ByteOk(r, s, p + j, s[p + j][1], s[p + j][2])
    <2>0. PICK n, k, i : n = b[j][1] /\ k = b[j][2] /\ i = p + j
      OBVIOUS
    <2>1. ByteOk(r, b, j, n, k)
      BY <1>0, <2>0 DEF WholeOf
    <2>2. j > 1 => s[i - 1] = b[j - 1] /\ i > 1
      <3>1. j > 1 => j - 1 \in 1..q /\ p + (j - 1) = i - 1 /\ i > 1
        BY <1>1, <2>0
      <3>2. QED
        BY <1>2, <3>1
    <2>3. j < q => s[i + 1] = b[j + 1] /\ i < Len(s)
      <3>1. j < q => j + 1 \in 1..q /\ p + (j + 1) = i + 1 /\ i < Len(s)
        BY <1>1, <2>0
      <3>2. QED
        BY <1>2, <3>1
    <2>4. ~(j > 1) /\ i > 1 => s[i - 1][1] < n
      <3>1. SUFFICES ASSUME ~(j > 1), i > 1
                     PROVE  s[i - 1][1] < n
        OBVIOUS
      <3>2. p \in 1..p /\ i - 1 = p
        BY <1>1, <2>0, <3>1
      <3>3. s[i - 1] = a[p]
        BY <1>2, <3>2
      <3>4. a[p][1] \in Nums(a) /\ n \in Nums(b)
        BY <1>0, <2>0, <3>2, LenProperties DEF Nums
      <3>5. QED
        BY <3>3, <3>4
    <2>5. ByteOk(r, s, i, n, k)
      <3>1. n \in 1..Len(r) /\ k \in 1..r[n].len
        BY <2>1, Zenon DEF ByteOk
      <3>2. k > 1 => i > 1 /\ s[i - 1] = <<n, k - 1>>
        BY <2>1, <2>2, Zenon DEF ByteOk
      <3>3. k < r[n].len => i < Len(s) /\ s[i + 1] = <<n, k + 1>>
        BY <1>0, <2>1, <2>3, Zenon DEF ByteOk
      <3>4. k = 1 /\ i > 1 => s[i - 1][1] < n
        BY <2>1, <2>2, <2>4, Zenon DEF ByteOk
      <3>5. QED
        BY <3>1, <3>2, <3>3, <3>4, Zenon DEF ByteOk
    <2>6. s[p + j] = b[j]
      BY <1>2
    <2>7. QED
      BY <2>0, <2>5, <2>6
  <1>5. ASSUME NEW i \in 1..Len(s)
        PROVE  ByteOk(r, s, i, s[i][1], s[i][2])
    <2>1. CASE i <= p
      <3>1. i \in 1..p
        BY <1>1, <2>1
      <3>2. QED
        BY <1>3, <3>1
    <2>2. CASE ~(i <= p)
      <3>1. i - p \in 1..q /\ p + (i - p) = i
        BY <1>1, <2>2
      <3>2. QED
        BY <1>4, <3>1
    <2>3. QED
      BY <2>1, <2>2
  <1>6. WholeOf(r, s)
    BY <1>5, Zenon DEF WholeOf
  <1>7. QED
    BY <1>0, <1>6

-----------------------------------------------------------------------------
(* What is on the wire: the inductive invariant.                           *)

\* BufferWrite has placed part of outBuf only while it writes through the buffer.
DoneInv == call.done # 0 => call.done < Len(OutBuf) /\ call.pc = "write" /\ bUio.on

\* A stream: the wire, the buffer and the rest of outBuf are the records one after the other.
StreamInv == ~Datagram => Cat(Cat(FlattenSeq(wire), bUio.bytes), In) = AllBytes

\* Datagrams: outBuf is empty or holds the last record built, all of it; the buffer holds whole records.
GramInv == Datagram =>
  /\ rec.start = 0 /\ rec.num \in {0, Len(built)}
  /\ WholeOf(built, bUio.bytes)
  /\ \A d \in 1..Len(wire) : WholeOf(built, wire[d])

PartInv == DoneInv /\ StreamInv /\ GramInv

\* The rest of outBuf, as a rest.
LEMMA InIs == In = Rest(OutBuf, call.done) /\ In' = Rest(OutBuf', call'.done)
  BY DEF In, Rest

\* outBuf holds the rest of its record.
LEMMA OutRest ==
  ASSUME TypeInv, OutInv, rec.num # 0, NEW b, b = Bytes(rec.num)
  PROVE  /\ rec.num \in 1..Len(built) /\ b \in Seq(Byte) /\ Len(b) = built[rec.num].len
         /\ \A i \in 1..Len(b) : b[i] = <<rec.num, i>>
         /\ rec.start \in Nat /\ rec.start < Len(b) /\ OutBuf = Rest(b, rec.start)
  <1>0. PICK n, l, s : n = rec.num /\ l = built[n].len /\ s = rec.start
    OBVIOUS
  <1>1. n \in Nat \ {0} /\ n \in 1..Len(built) /\ s \in Nat /\ s < l
    BY <1>0, LenProperties DEF TypeInv, OutInv
  <1>2. l \in Nat \ {0}
    <2>1. built[n] \in Record
      BY <1>1, ElementOfSeq DEF TypeInv
    <2>2. QED
      BY <1>0, <2>1 DEF Record
  <1>3. b = [i \in 1..l |-> <<n, i>>]
    BY <1>0 DEF Bytes
  <1>4. ASSUME NEW i \in 1..l
        PROVE  <<n, i>> \in Byte
    <2>1. i \in Nat /\ n \in Nat
      BY <1>1, <1>2
    <2>2. QED
      BY <2>1 DEF Byte
  <1>5. b \in Seq(Byte) /\ Len(b) = l /\ \A i \in 1..l : b[i] = <<n, i>>
    <2>1. l \in Nat /\ b \in [1..l -> Byte]
      BY <1>2, <1>3, <1>4
    <2>2. b \in Seq(Byte) /\ Len(b) = l
      BY <2>1, IsASeq, LenProperties
    <2>3. QED
      BY <1>3, <2>2
  <1>6. OutBuf = SubSeq(b, s + 1, l)
    BY <1>0 DEF OutBuf
  <1>7. OutBuf = Rest(b, s)
    BY <1>5, <1>6 DEF Rest
  <1>8. QED
    BY <1>0, <1>1, <1>5, <1>7

\* What the transport takes of b is one piece more on the wire.
LEMMA FlatTransport ==
  ASSUME TypeInv, NEW b \in Seq(Byte), NEW k, Transport(b, k)
  PROVE  /\ k \in Nat /\ k <= Len(b)
         /\ FlattenSeq(wire') = Cat(FlattenSeq(wire), First(b, k))
         /\ Datagram => \/ k = 0 /\ wire' = wire
                        \/ k = Len(b) /\ wire' = Append(wire, b)
  <1>1. k \in Nat /\ k <= Len(b) /\ (Datagram => k = 0 \/ k = Len(b)) /\ (k = 0 => wire' = wire)
    BY TransportFacts
  <1>2. /\ First(b, k) \in Seq(Byte) /\ (k = 0 => First(b, k) = <<>>) /\ (k = Len(b) => First(b, k) = b)
    BY <1>1, RestFacts
  <1>3. wire \in Seq(Seq(Byte))
    BY DEF TypeInv
  <1>4. k # 0 => wire' = Append(wire, First(b, k))
    BY DEF Transport, First
  <1>5. CASE k = 0
    <2>1. Cat(FlattenSeq(wire), <<>>) = FlattenSeq(wire)
      BY <1>3, FlatType, CatEmpty
    <2>2. QED
      BY <1>1, <1>2, <1>5, <2>1
  <1>6. CASE k # 0
    <2>1. FlattenSeq(Append(wire, First(b, k))) = Cat(FlattenSeq(wire), First(b, k))
      BY <1>2, <1>3, FlatAppend DEF Cat
    <2>2. QED
      BY <1>1, <1>2, <1>4, <1>6, <2>1
  <1>7. QED
    BY <1>5, <1>6

\* StreamWrite after k bytes have been taken: the rest of outBuf is what is left then.
LEMMA WroteIn ==
  ASSUME IInv, ~Datagram, call.pc = "write", UNCHANGED built, NEW k \in Nat, k <= Len(OutBuf), Wrote(k)
  PROVE  In' = Rest(OutBuf, k) /\ call'.done = 0
  <1>1. OutBuf \in Seq(Byte) /\ rec.num # 0 /\ Len(OutBuf) > 0
    BY Parts, OutBufFacts DEF OutInv
  <1>2. CASE k = 0
    <2>1. call' = Idle /\ rec' = rec
      BY <1>2 DEF Wrote, Return, BusyOut
    <2>2. call'.done = 0 /\ OutBuf' = OutBuf
      BY <2>1, SameOutBuf DEF Idle
    <2>3. QED
      BY <1>2, <2>2, InIs
  <1>3. CASE k # 0 /\ k < Len(OutBuf)
    <2> DEFINE s == rec.start + k
               z == 0
    <2>1. rec' = [rec EXCEPT !.start = s] /\ call' = [call EXCEPT !.pc = "write", !.done = z]
      BY <1>3 DEF Wrote
    <2>2. z = 0 /\ s = rec.start + k
      OBVIOUS
    <2> HIDE DEF s, z
    <2>3. rec'.num = rec.num /\ rec'.start = s /\ call'.done = 0
      BY <2>1, <2>2, Parts DEF WriteState, Calls
    <2>4. PICK b : b = Bytes(rec.num)
      OBVIOUS
    <2>5. /\ b \in Seq(Byte) /\ Len(b) = built[rec.num].len
          /\ rec.start \in Nat /\ rec.start < Len(b) /\ OutBuf = Rest(b, rec.start)
      BY <1>1, <2>4, Parts, OutRest
    <2>6. OutBuf' = Rest(b, s)
      <3>1. Bytes(rec.num)' = b
        BY <2>3, <2>4 DEF Bytes
      <3>2. OutBuf' = SubSeq(b, s + 1, built[rec.num].len)
        BY <1>1, <2>3, <3>1 DEF OutBuf
      <3>3. QED
        BY <2>5, <3>2 DEF Rest
    <2>7. Len(OutBuf) = Len(b) - rec.start
      <3>1. PICK q : q = rec.start
        OBVIOUS
      <3>2. q \in Nat /\ q <= Len(b)
        BY <2>5, <3>1, LenProperties
      <3>3. Len(Rest(b, q)) = Len(b) - q
        BY <2>5, <3>2, RestFacts
      <3>4. QED
        BY <2>5, <3>1, <3>3
    <2>8. Rest(OutBuf, k) = Rest(b, s)
      <3>1. rec.start + k <= Len(b)
        <4>1. PICK x, y, q : x = Len(OutBuf) /\ y = Len(b) /\ q = rec.start
          OBVIOUS
        <4>2. x \in Nat /\ y \in Nat /\ q \in Nat /\ k < x /\ x = y - q
          BY <1>1, <1>3, <2>5, <2>7, <4>1, LenProperties
        <4>3. q + k <= y
          BY <4>2
        <4>4. QED
          BY <4>1, <4>3
      <3>2. QED
        BY <2>2, <2>5, <3>1, RestOfRest
    <2>9. Rest(OutBuf, k) \in Seq(Byte)
      BY <1>1, RestFacts
    <2>10. Rest(Rest(OutBuf, k), 0) = Rest(OutBuf, k)
      BY <2>9, LenProperties, RestFacts
    <2>11. QED
      BY <2>3, <2>6, <2>8, <2>10, InIs
  <1>4. CASE k # 0 /\ ~(k < Len(OutBuf))
    <2> DEFINE z == 0
    <2>1. rec' = SentOut /\ (call' = Idle \/ call' = [call EXCEPT !.pc = "flush", !.done = z]) /\ z = 0
      BY <1>4 DEF Wrote, Return
    <2> HIDE DEF z
    <2>2. rec'.num = 0
      BY <2>1, Parts, EmptyOutFacts
    <2>3. call'.done = 0
      <3>1. call' = Idle => call'.done = 0
        BY DEF Idle
      <3>2. call' = [call EXCEPT !.pc = "flush", !.done = z] => call'.done = z
        BY Parts DEF Calls
      <3>3. QED
        BY <2>1, <3>1, <3>2
    <2>4. OutBuf' = <<>>
      BY <2>2 DEF OutBuf
    <2>5. k = Len(OutBuf)
      BY <1>1, <1>4, LenProperties
    <2>6. Rest(OutBuf, k) = <<>>
      BY <1>1, <2>5, RestFacts
    <2>7. Rest(<<>>, 0) = <<>>
      <3>1. PICK e : e = <<>>
        OBVIOUS
      <3>2. e \in Seq(Byte) /\ 0 <= Len(e)
        BY <3>1, NumsEmpty
      <3>3. Rest(e, 0) = e
        BY <3>2, RestFacts
      <3>4. QED
        BY <3>1, <3>3
    <2>8. QED
      BY <2>3, <2>4, <2>6, <2>7, InIs
  <1>5. QED
    BY <1>2, <1>3, <1>4

\* DatagramWrite, whether it was busy or not, leaves outBuf empty.
LEMMA WroteGram ==
  ASSUME IInv, Datagram, call.pc = "write", NEW k \in Nat, k = 0 \/ k = Len(OutBuf), Wrote(k)
  PROVE  rec'.num = 0 /\ rec'.start = 0 /\ call'.done = 0
  <1>1. Len(OutBuf) > 0 /\ Len(OutBuf) \in Nat
    BY Parts, OutBufFacts DEF OutInv
  <1>2. EmptyOut.start = 0 /\ EmptyOut.num = 0 /\ EmptyOut \in WriteState
    BY Parts, EmptyOutFacts DEF EmptyOut, WriteState
  <1>3. SentOut.start = 0 /\ SentOut.num = 0
    <2> DEFINE e == EmptyOut
               n == e.seq + 1
    <2>1. SentOut = [e EXCEPT !.seq = n] /\ e \in WriteState /\ e.start = 0
      BY <1>2 DEF SentOut
    <2> HIDE DEF e, n
    <2>2. SentOut.start = 0
      BY <2>1 DEF WriteState
    <2>3. QED
      BY <2>2, Parts, EmptyOutFacts
  <1> DEFINE z == 0
  <1>4. /\ rec' = EmptyOut \/ rec' = SentOut
        /\ call' = Idle \/ call' = [call EXCEPT !.pc = "flush", !.done = z]
        /\ z = 0
    BY <1>1 DEF Wrote, Return, BusyOut
  <1> HIDE DEF z
  <1>5. call'.done = 0
    <2>1. call' = Idle => call'.done = 0
      BY DEF Idle
    <2>2. call' = [call EXCEPT !.pc = "flush", !.done = z] => call'.done = z
      BY Parts DEF Calls
    <2>3. QED
      BY <1>4, <2>1, <2>2
  <1>6. QED
    BY <1>2, <1>3, <1>4, <1>5

\* The records built, one after the other, do not change while none is built.
LEMMA SameAll == UNCHANGED built => AllBytes' = AllBytes
  BY DEF AllBytes, Bytes

\* A step over a stream that moves the bytes v to the wire.
LEMMA StreamStep ==
  ASSUME IInv, StreamInv, UNCHANGED <<link, built>>, ~Datagram, NEW v \in Seq(Byte),
         FlattenSeq(wire') = Cat(FlattenSeq(wire), v),
         NEW b2 \in Seq(Byte), bUio'.bytes = b2, NEW i2 \in Seq(Byte), In' = i2,
         Cat(bUio.bytes, In) = Cat(v, Cat(b2, i2))
  PROVE  StreamInv'
  <1>1. PICK w, b, i : w = FlattenSeq(wire) /\ b = bUio.bytes /\ i = In
    OBVIOUS
  <1>2. w \in Seq(Byte) /\ b \in Seq(Byte) /\ i \in Seq(Byte)
    BY <1>1, Parts, FlatType, InFacts
  <1>3. Cat(Cat(Cat(w, v), b2), i2) = Cat(Cat(w, b), i)
    BY <1>1, <1>2, Moves, SMTT(30)
  <1>4. Cat(Cat(w, b), i) = AllBytes
    BY <1>1 DEF StreamInv
  <1>5. QED
    BY <1>1, <1>3, <1>4, SameAll DEF StreamInv

\* A step over datagrams: a piece of whole records may go to the wire.
LEMMA GramStep ==
  ASSUME IInv, GramInv, UNCHANGED <<link, built>>, Datagram,
         rec'.start = 0, rec'.num = 0 \/ rec'.num = rec.num, NEW b2, bUio'.bytes = b2, WholeOf(built, b2),
         wire' = wire \/ \E b \in Seq(Byte) : WholeOf(built, b) /\ wire' = Append(wire, b)
  PROVE  GramInv'
  <1>1. \A d \in 1..Len(wire) : WholeOf(built, wire[d])
    BY DEF GramInv
  <1>2. \A d \in 1..Len(wire') : WholeOf(built, wire'[d])
    <2>1. CASE wire' = wire
      BY <1>1, <2>1
    <2>2. ASSUME NEW b \in Seq(Byte), WholeOf(built, b), wire' = Append(wire, b)
          PROVE  \A d \in 1..Len(wire') : WholeOf(built, wire'[d])
      <3>1. PICK w, l, a : w = wire /\ l = Len(w) /\ a = wire'
        OBVIOUS
      <3>2. w \in Seq(Seq(Byte)) /\ a = Append(w, b)
        BY <2>2, <3>1, Parts
      <3>3. l \in Nat /\ Len(a) = l + 1 /\ a[l + 1] = b /\ \A d \in 1..l : a[d] = w[d]
        BY <3>1, <3>2, LenProperties, AppendProperties
      <3>4. ASSUME NEW d \in 1..Len(a)
            PROVE  WholeOf(built, a[d])
        <4>1. d = l + 1 \/ d \in 1..l
          BY <3>3
        <4>2. QED
          BY <1>1, <2>2, <3>1, <3>3, <4>1
      <3>5. QED
        BY <3>1, <3>4
    <2>3. QED
      BY <2>1, <2>2
  <1>3. rec'.num \in {0, Len(built)}
    BY DEF GramInv
  <1>4. PICK r : r = built
    OBVIOUS
  <1>5. r = built' /\ WholeOf(r, bUio'.bytes) /\ \A d \in 1..Len(wire') : WholeOf(r, wire'[d])
    BY <1>2, <1>4
  <1>6. QED
    BY <1>3, <1>5 DEF GramInv

\* A step that moves nothing.
LEMMA PartQuiet ==
  ASSUME IInv, PartInv, UNCHANGED <<link, built, wire>>, bUio'.bytes = bUio.bytes,
         rec'.num = rec.num, rec'.start = rec.start, call'.done = call.done,
         call.done # 0 => call'.pc = "write" /\ bUio'.on
  PROVE  PartInv'
  <1>1. OutBuf' = OutBuf
    BY DEF OutBuf, Bytes
  <1>2. In' = In
    BY <1>1, InIs
  <1>3. DoneInv'
    BY <1>1 DEF PartInv, DoneInv
  <1>4. StreamInv'
    BY <1>2, SameAll DEF PartInv, StreamInv, Datagram
  <1>5. GramInv'
    <2>1. PICK r, b, w : r = built /\ b = bUio.bytes /\ w = wire
      OBVIOUS
    <2>2. r = built' /\ b = bUio'.bytes /\ w = wire'
      BY <2>1
    <2>3. Datagram => WholeOf(r, b) /\ \A d \in 1..Len(w) : WholeOf(r, w[d])
      BY <2>1 DEF PartInv, GramInv
    <2>4. QED
      BY <2>1, <2>2, <2>3 DEF PartInv, GramInv, Datagram
  <1>6. QED
    BY <1>3, <1>4, <1>5 DEF PartInv

-----------------------------------------------------------------------------
(* What is on the wire: the steps.                                         *)

\* Bytes and AllBytes, of the records r.
BytesOf(r, n) == [i \in 1..r[n].len |-> <<n, i>>]
AllOf(r) == FlattenSeq([n \in 1..Len(r) |-> BytesOf(r, n)])

\* The bytes of a record.
LEMMA BytesOfFacts ==
  ASSUME NEW r \in Seq(Record), NEW n \in 1..Len(r), NEW b, b = BytesOf(r, n)
  PROVE  b \in Seq(Byte) /\ Len(b) = r[n].len /\ \A i \in 1..Len(b) : b[i] = <<n, i>>
  <1>0. PICK l : l = r[n].len
    OBVIOUS
  <1>1. l \in Nat /\ n \in Nat
    <2>1. r[n] \in Record /\ Len(r) \in Nat
      BY ElementOfSeq, LenProperties
    <2>2. QED
      BY <1>0, <2>1 DEF Record
  <1>2. b = [i \in 1..l |-> <<n, i>>]
    BY <1>0 DEF BytesOf
  <1>3. ASSUME NEW i \in 1..l
        PROVE  <<n, i>> \in Byte
    BY <1>1 DEF Byte
  <1>4. b \in [1..l -> Byte]
    BY <1>2, <1>3
  <1>5. b \in Seq(Byte) /\ Len(b) = l
    BY <1>1, <1>4, IsASeq, LenProperties
  <1>6. QED
    BY <1>0, <1>2, <1>5

\* One element more.
LEMMA AppendFacts ==
  ASSUME NEW S, NEW f \in Seq(S), NEW x \in S
  PROVE  /\ Append(f, x) \in Seq(S) /\ Len(Append(f, x)) = Len(f) + 1 /\ Append(f, x)[Len(f) + 1] = x
         /\ Len(f) \in Nat /\ \A i \in 1..Len(f) : Append(f, x)[i] = f[i]
  BY LenProperties, AppendProperties

\* A record more: its bytes come after all the others.
LEMMA AllAppend ==
  ASSUME NEW r \in Seq(Record), NEW x \in Record, NEW s, s = Append(r, x), NEW b, b = BytesOf(s, Len(s))
  PROVE  AllOf(s) = Cat(AllOf(r), b) /\ AllOf(r) \in Seq(Byte)
  <1>0. PICK l : l = Len(r)
    OBVIOUS
  <1>1. l \in Nat /\ s \in Seq(Record) /\ Len(s) = l + 1 /\ \A n \in 1..l : s[n] = r[n]
    BY <1>0, LenProperties, AppendProperties
  <1>2. PICK f, g : f = [n \in 1..l |-> BytesOf(r, n)] /\ g = [n \in 1..(l + 1) |-> BytesOf(s, n)]
    OBVIOUS
  <1>3. AllOf(r) = FlattenSeq(f) /\ AllOf(s) = FlattenSeq(g)
    BY <1>0, <1>1, <1>2, Zenon DEF AllOf
  <1>4. ASSUME NEW n \in 1..l
        PROVE  BytesOf(r, n) \in Seq(Byte) /\ BytesOf(s, n) = BytesOf(r, n)
    <2>1. BytesOf(r, n) \in Seq(Byte)
      BY <1>0, BytesOfFacts
    <2>2. s[n] = r[n]
      BY <1>1
    <2>3. QED
      BY <2>1, <2>2, Zenon DEF BytesOf
  <1>5. f \in Seq(Seq(Byte)) /\ Len(f) = l
    <2>1. f \in [1..l -> Seq(Byte)]
      BY <1>2, <1>4, Zenon
    <2>2. QED
      BY <1>1, <2>1, IsASeq, LenProperties
  <1>6. b \in Seq(Byte) /\ b = BytesOf(s, l + 1)
    <2>1. l + 1 \in 1..Len(s)
      BY <1>1
    <2>2. BytesOf(s, l + 1) \in Seq(Byte)
      BY <1>1, <2>1, BytesOfFacts
    <2>3. QED
      BY <1>1, <2>2
  <1>7. PICK a : a = Append(f, b)
    OBVIOUS
  <1>8. a \in Seq(Seq(Byte)) /\ Len(a) = l + 1 /\ a[l + 1] = b /\ \A n \in 1..l : a[n] = f[n]
    <2>1. b \in Seq(Byte)
      BY <1>6
    <2>2. /\ Append(f, b) \in Seq(Seq(Byte)) /\ Len(Append(f, b)) = Len(f) + 1 /\ Append(f, b)[Len(f) + 1] = b
          /\ \A n \in 1..Len(f) : Append(f, b)[n] = f[n]
      <3>1. f \in Seq(Seq(Byte))
        BY <1>5
      <3>2. QED
        BY <2>1, <3>1, AppendFacts
    <2>3. QED
      BY <1>5, <1>7, <2>2, Zenon
  <1>9. ASSUME NEW n \in 1..(l + 1)
        PROVE  g[n] = a[n] /\ g[n] \in Seq(Byte)
    <2>1. g[n] = BytesOf(s, n)
      BY <1>2, Zenon
    <2>2. CASE n = l + 1
      BY <1>6, <1>8, <2>1, <2>2
    <2>3. CASE n # l + 1
      <3>1. n \in 1..l
        BY <1>1, <2>3
      <3>2. f[n] = BytesOf(r, n)
        BY <1>2, <3>1, Zenon
      <3>3. BytesOf(r, n) \in Seq(Byte) /\ BytesOf(s, n) = BytesOf(r, n) /\ a[n] = f[n]
        BY <1>4, <1>8, <3>1
      <3>4. QED
        BY <2>1, <3>2, <3>3
    <2>4. QED
      BY <2>2, <2>3
  <1>10. g \in Seq(Seq(Byte)) /\ Len(g) = l + 1
    <2>1. DOMAIN g = 1..(l + 1) /\ l + 1 \in Nat
      BY <1>1, <1>2
    <2>2. g \in [1..(l + 1) -> Seq(Byte)]
      <3>1. \A n \in 1..(l + 1) : BytesOf(s, n) \in Seq(Byte)
        <4>1. \A n \in 1..(l + 1) : g[n] = BytesOf(s, n)
          BY <1>2, Zenon
        <4>2. QED
          BY <1>9, <4>1
      <3>2. QED
        BY <1>2, <3>1, Zenon
    <2>3. QED
      BY <2>1, <2>2, IsASeq, LenProperties
  <1>11. g = a
    <2>1. \A i \in 1..Len(g) : g[i] = a[i]
      BY <1>9, <1>10
    <2>2. QED
      BY <1>8, <1>10, <2>1, SeqEqual
  <1>12. FlattenSeq(a) = Cat(FlattenSeq(f), b)
    BY <1>5, <1>6, <1>7, FlatAppend DEF Cat
  <1>13. FlattenSeq(f) \in Seq(Byte)
    BY <1>5, FlatType
  <1>14. QED
    BY <1>3, <1>11, <1>12, <1>13

\* The operators of the model.
LEMMA AllOfIs == AllBytes = AllOf(built) /\ AllBytes' = AllOf(built')
  BY Zenon DEF AllBytes, AllOf, Bytes, BytesOf

\* The empty rest.
LEMMA RestEmpty == Rest(<<>>, 0) = <<>>
  <1>1. PICK e : e = <<>>
    OBVIOUS
  <1>2. e \in Seq(Byte) /\ 0 <= Len(e)
    BY <1>1, NumsEmpty
  <1>3. Rest(e, 0) = e
    BY <1>2, RestFacts
  <1>4. QED
    BY <1>1, <1>3

\* A record is built in the empty outBuf: its bytes follow all that is out.
LEMMA BuildPart ==
  ASSUME IInv, PartInv, UNCHANGED <<link, bUio, wire>>, call.pc = "record", rec.num = 0,
         Build(call.op), call' = [call EXCEPT !.pc = "write"]
  PROVE  PartInv'
  <1>1. call.op \in {"app", "hs"} /\ call.done = 0
    BY Parts DEF FlightInv, PartInv, DoneInv
  <1>2. call'.done = 0
    BY <1>1, Parts DEF Calls
  <1>3. PICK len \in Sizes :
          /\ built' = Append(built, [type |-> call.op, data |-> IF call.op = "app" THEN app.next ELSE 0,
                                     len |-> len, seq |-> rec.seq])
          /\ rec' = [rec EXCEPT !.num = Len(built) + 1, !.start = 0, !.isWrapped = ~Datagram /\ rec.seq = MaxSeq]
    BY DEF Build
  <1> DEFINE d == IF call.op = "app" THEN app.next ELSE 0
             x == [type |-> call.op, data |-> d, len |-> len, seq |-> rec.seq]
             n == Len(built) + 1
             o == 0
             w == ~Datagram /\ rec.seq = MaxSeq
  <1>4. d \in Nat /\ rec.seq \in Nat /\ len \in Nat \ {0}
    BY Parts, RecordWriteAssumption DEF WriteState
  <1>5. built \in Seq(Record) /\ n = Len(built) + 1 /\ o = 0
    BY Parts DEF TypeInv
  <1>6. built' = Append(built, x) /\ rec' = [rec EXCEPT !.num = n, !.start = o, !.isWrapped = w]
    BY <1>3
  <1> HIDE DEF d
  <1>7. x \in Record
    BY <1>1, <1>4 DEF Record
  <1> HIDE DEF x, n, o, w
  <1>8. rec'.num = n /\ rec'.start = o
    BY <1>6, Parts DEF WriteState
  <1>9. PICK r, s, b : r = built /\ s = Append(r, x) /\ b = BytesOf(s, Len(s))
    OBVIOUS
  <1>10. r \in Seq(Record) /\ s = built'
    BY <1>5, <1>6, <1>9
  <1>11. s \in Seq(Record) /\ Len(s) = n /\ n \in Nat \ {0} /\ Len(r) \in Nat
    <2>1. Append(r, x) \in Seq(Record) /\ Len(Append(r, x)) = Len(r) + 1 /\ Len(r) \in Nat
      BY <1>7, <1>10, AppendFacts, Zenon
    <2>2. n = Len(r) + 1
      BY <1>5, <1>9
    <2>3. QED
      BY <1>9, <2>1, <2>2
  <1>12. b \in Seq(Byte) /\ Len(b) = s[n].len
    <2>1. n \in 1..Len(s)
      BY <1>11
    <2>2. QED
      BY <1>9, <1>11, <2>1, BytesOfFacts, ZenonT(60)
  <1>13. OutBuf' = b
    <2>1. Bytes(rec.num)' = b
      BY <1>8, <1>9, <1>10, <1>11, Zenon DEF Bytes, BytesOf
    <2>2. OutBuf' = SubSeq(Bytes(rec.num)', rec'.start + 1, built'[rec'.num].len)
      BY <1>8, <1>11 DEF OutBuf
    <2>3. OutBuf' = SubSeq(b, 0 + 1, Len(b))
      BY <1>5, <1>8, <1>10, <1>12, <2>1, <2>2
    <2>4. QED
      BY <1>12, <2>3, SubSeqFull
  <1>14. In' = b /\ In = <<>>
    <2>1. Rest(b, 0) = b
      BY <1>12, LenProperties, RestFacts
    <2>2. OutBuf = <<>>
      BY DEF OutBuf
    <2>3. QED
      BY <1>1, <1>2, <1>13, <2>1, <2>2, RestEmpty, InIs
  <1>15. DoneInv'
    BY <1>2 DEF DoneInv
  <1>16. StreamInv'
    <2>1. SUFFICES ASSUME ~Datagram
                   PROVE  Cat(Cat(FlattenSeq(wire), bUio.bytes), b) = AllBytes'
      BY <1>14 DEF StreamInv, Datagram
    <2>2. PICK c : c = Cat(FlattenSeq(wire), bUio.bytes)
      OBVIOUS
    <2>3. c \in Seq(Byte)
      BY <2>2, Parts, FlatType, CatAssoc
    <2>4. Cat(c, <<>>) = AllOf(r)
      BY <1>9, <1>14, <2>1, <2>2, AllOfIs DEF PartInv, StreamInv
    <2>5. c = AllOf(r)
      BY <2>3, <2>4, CatEmpty
    <2>6. AllOf(s) = Cat(AllOf(r), b)
      BY <1>7, <1>9, <1>10, AllAppend
    <2>7. QED
      BY <1>10, <2>2, <2>5, <2>6, AllOfIs
  <1>17. GramInv'
    <2>1. SUFFICES ASSUME Datagram
                   PROVE  WholeOf(s, bUio.bytes) /\ \A e \in 1..Len(wire) : WholeOf(s, wire[e])
      BY <1>5, <1>8, <1>10, <1>11 DEF GramInv, Datagram
    <2>2. WholeOf(r, bUio.bytes) /\ \A e \in 1..Len(wire) : WholeOf(r, wire[e])
      BY <1>9, <2>1 DEF PartInv, GramInv
    <2>3. QED
      BY <1>7, <1>9, <1>10, <2>2, WholeAppend
  <1>18. QED
    BY <1>15, <1>16, <1>17 DEF PartInv

\* Only BufferWrite leaves part of outBuf placed.
LEMMA DoneZero ==
  ASSUME PartInv, call.pc # "write" \/ ~bUio.on
  PROVE  call.done = 0
  BY DEF PartInv, DoneInv

\* The steps outside BufferWrite that move nothing.
LEMMA HsInitPart ==
  ASSUME IInv, PartInv, UNCHANGED link, HsInit
  PROVE  PartInv'
  <1>1. call.pc = "idle" /\ bUio' = [bUio EXCEPT !.on = Flight] /\ UNCHANGED <<rec, built, wire, call>>
    BY DEF HsInit
  <1>2. bUio'.bytes = bUio.bytes
    BY <1>1, Parts DEF BufferUio
  <1>3. QED
    BY <1>1, <1>2, DoneZero, PartQuiet

\* A call begins.
LEMMA BeginPart ==
  ASSUME IInv, PartInv, UNCHANGED link, NEW op, NEW pc, Begin(op, pc)
  PROVE  PartInv'
  <1>1. call.pc = "idle" /\ call'.done = 0 /\ UNCHANGED <<rec, built, bUio, wire>>
    BY DEF Begin
  <1>2. QED
    BY <1>1, DoneZero, PartQuiet

\* A call ends without a write.
LEMMA WrappedPart ==
  ASSUME IInv, PartInv, UNCHANGED <<link, rec, built, bUio, wire>>, call.pc = "record", Return("ERR_SN_WRAPPING")
  PROVE  PartInv'
  <1>1. call'.done = 0
    BY Parts, ReturnFacts
  <1>2. QED
    BY <1>1, DoneZero, PartQuiet

\* Over datagrams the buffer UIO is dropped or emptied: what is left is whole.
LEMMA EmptiedPart ==
  ASSUME IInv, PartInv, UNCHANGED <<link, rec, built, wire, call>>, Datagram, bUio'.bytes = <<>>, call.pc # "write"
  PROVE  PartInv'
  <1>1. DoneInv'
    BY DoneZero DEF DoneInv
  <1>2. StreamInv'
    BY DEF StreamInv, Datagram
  <1>3. rec.start = 0
    BY DEF PartInv, GramInv
  <1>4. GramInv'
    BY <1>3, WholeEmpty, GramStep DEF PartInv
  <1>5. QED
    BY <1>1, <1>2, <1>4 DEF PartInv

\* TlsRecordWrite.
LEMMA TlsRecordWritePart ==
  ASSUME IInv, PartInv, UNCHANGED link, TlsRecordWrite
  PROVE  PartInv'
  <1>1. ~Datagram /\ call.pc = "record" /\ UNCHANGED <<bUio, wire>>
    BY DEF TlsRecordWrite
  <1>2. CASE rec.isWrapped
    BY <1>1, <1>2, WrappedPart DEF TlsRecordWrite
  <1>3. CASE ~rec.isWrapped /\ OutBuf # <<>>
    <2> DEFINE w == rec.seq = MaxSeq
    <2>1. call' = [call EXCEPT !.pc = "write"] /\ rec' = [rec EXCEPT !.isWrapped = w] /\ UNCHANGED built
      BY <1>3 DEF TlsRecordWrite
    <2> HIDE DEF w
    <2>2. call'.done = call.done
      BY <2>1, Parts DEF Calls
    <2>3. rec'.num = rec.num /\ rec'.start = rec.start
      BY <2>1, Parts DEF WriteState
    <2>4. QED
      BY <1>1, <2>1, <2>2, <2>3, DoneZero, PartQuiet
  <1>4. CASE ~rec.isWrapped /\ OutBuf = <<>>
    <2>1. rec.num = 0
      BY <1>4, Parts, OutBufFacts
    <2>2. Build(call.op) /\ call' = [call EXCEPT !.pc = "write"]
      BY <1>4 DEF TlsRecordWrite
    <2>3. QED
      BY <1>1, <2>1, <2>2, BuildPart
  <1>5. QED
    BY <1>2, <1>3, <1>4

\* DtlsRecordWrite.
LEMMA DtlsRecordWritePart ==
  ASSUME IInv, PartInv, UNCHANGED link, DtlsRecordWrite
  PROVE  PartInv'
  <1>1. Datagram /\ call.pc = "record" /\ UNCHANGED <<bUio, wire>>
    BY DEF DtlsRecordWrite
  <1>2. CASE rec.seq > MaxSeq
    BY <1>1, <1>2, WrappedPart DEF DtlsRecordWrite
  <1>3. CASE ~(rec.seq > MaxSeq)
    <2>1. rec.num = 0
      BY <1>1, Parts DEF OutInv
    <2>2. Build(call.op) /\ call' = [call EXCEPT !.pc = "write"]
      BY <1>3 DEF DtlsRecordWrite
    <2>3. QED
      BY <1>1, <2>1, <2>2, BuildPart
  <1>4. QED
    BY <1>2, <1>3

\* Over datagrams outBuf is the whole of its record, the last one built.
LEMMA GramOut ==
  ASSUME IInv, PartInv, Datagram, call.pc = "write"
  PROVE  /\ OutBuf \in Seq(Byte) /\ WholeOf(built, OutBuf) /\ In = OutBuf /\ call.done = 0
         /\ \A m \in Nums(bUio.bytes) : \A n \in Nums(OutBuf) : m < n
  <1>1. rec.num # 0 /\ rec.start = 0 /\ rec.num = Len(built) /\ call.done = 0 /\ rec.num \notin Out
    BY Parts DEF OutInv, PartInv, GramInv
  <1>2. OutBuf \in Seq(Byte) /\ Nums(OutBuf) \subseteq {rec.num}
    BY Parts, OutBufFacts
  <1>3. PICK b : b = Bytes(rec.num)
    OBVIOUS
  <1>4. /\ rec.num \in 1..Len(built) /\ b \in Seq(Byte) /\ Len(b) = built[rec.num].len
        /\ \A i \in 1..Len(b) : b[i] = <<rec.num, i>>
        /\ OutBuf = Rest(b, 0)
    BY <1>1, <1>3, Parts, OutRest
  <1>5. OutBuf = b
    <2>1. Rest(b, 0) = b
      BY <1>4, LenProperties, RestFacts
    <2>2. QED
      BY <1>4, <2>1
  <1>6. WholeOf(built, b)
    <2>1. PICK n : n = rec.num
      OBVIOUS
    <2>2. built \in Seq(Record)
      BY Parts DEF TypeInv
    <2>3. n \in 1..Len(built) /\ Len(b) = built[n].len /\ \A i \in 1..Len(b) : b[i] = <<n, i>>
      BY <1>4, <2>1
    <2>4. QED
      BY <1>4, <2>2, <2>3, WholeRecord
  <1>7. In = OutBuf
    <2>1. Rest(OutBuf, 0) = OutBuf
      BY <1>2, LenProperties, RestFacts
    <2>2. QED
      BY <1>1, <2>1, InIs
  <1>8. ASSUME NEW m \in Nums(bUio.bytes), NEW n \in Nums(OutBuf)
        PROVE  m < n
    <2>1. m \in Out /\ n = rec.num
      BY <1>2 DEF Out
    <2>2. m \in 1..Len(built) /\ m # rec.num /\ Len(built) \in Nat
      BY <1>1, <2>1, Parts, LenProperties DEF SeqInv, TypeInv
    <2>3. QED
      BY <1>1, <2>1, <2>2
  <1>9. QED
    BY <1>1, <1>2, <1>5, <1>6, <1>7, <1>8

\* BSL_UIO_Write without the buffer.
LEMMA TransportWritePart ==
  ASSUME IInv, PartInv, UNCHANGED link, TransportWrite
  PROVE  PartInv'
  <1>1. PICK k \in Taken(OutBuf) : Transport(OutBuf, k) /\ Wrote(k)
    BY DEF TransportWrite
  <1>2. call.pc = "write" /\ ~bUio.on /\ UNCHANGED <<built, bUio>>
    BY DEF TransportWrite
  <1>3. OutBuf \in Seq(Byte) /\ bUio.bytes = <<>> /\ call.done = 0 /\ In = Rest(OutBuf, 0)
    BY <1>2, Parts, OutBufFacts, DoneZero, InIs DEF FlightInv
  <1>4. /\ k \in Nat /\ k <= Len(OutBuf) /\ FlattenSeq(wire') = Cat(FlattenSeq(wire), First(OutBuf, k))
        /\ Datagram => \/ k = 0 /\ wire' = wire
                       \/ k = Len(OutBuf) /\ wire' = Append(wire, OutBuf)
    BY <1>1, <1>3, Parts, FlatTransport
  <1>5. CASE ~Datagram
    <2>1. In' = Rest(OutBuf, k) /\ call'.done = 0
      BY <1>1, <1>2, <1>4, <1>5, WroteIn
    <2>2. PICK b, f, r, e : b = OutBuf /\ f = First(b, k) /\ r = Rest(b, k) /\ e = <<>>
      OBVIOUS
    <2>3. f \in Seq(Byte) /\ r \in Seq(Byte) /\ Cat(f, r) = b /\ Rest(b, 0) = b /\ e \in Seq(Byte)
      <3>1. 0 <= Len(b) /\ b \in Seq(Byte)
        BY <1>3, <2>2, LenProperties
      <3>2. Rest(b, 0) = b
        BY <3>1, RestFacts
      <3>3. f \in Seq(Byte) /\ r \in Seq(Byte) /\ Cat(f, r) = b
        BY <1>4, <2>2, <3>1, RestFacts
      <3>4. QED
        BY <2>2, <3>2, <3>3, NumsEmpty
    <2>4. Cat(e, r) = r /\ Cat(e, b) = b
      BY <1>3, <2>2, <2>3, CatEmpty
    <2>5. Cat(bUio.bytes, In) = Cat(f, Cat(e, r))
      BY <1>3, <2>2, <2>3, <2>4
    <2>6. StreamInv'
      BY <1>2, <1>3, <1>4, <1>5, <2>1, <2>2, <2>3, <2>5, StreamStep DEF PartInv
    <2>7. QED
      BY <1>5, <2>1, <2>6 DEF PartInv, DoneInv, GramInv, Datagram
  <1>6. CASE Datagram
    <2>1. rec'.num = 0 /\ rec'.start = 0 /\ call'.done = 0
      BY <1>1, <1>2, <1>4, <1>6, WroteGram
    <2>2. WholeOf(built, OutBuf)
      BY <1>2, <1>6, GramOut
    <2>3. WholeOf(built, bUio.bytes)
      BY <1>6 DEF PartInv, GramInv
    <2>4. GramInv'
      BY <1>2, <1>3, <1>4, <1>6, <2>1, <2>2, <2>3, GramStep DEF PartInv
    <2>5. QED
      BY <1>6, <2>1, <2>4 DEF PartInv, DoneInv, StreamInv, Datagram
  <1>7. QED
    BY <1>5, <1>6

\* What is left in the buffer UIO after a round of the flush.
LEMMA FlushedRest ==
  ASSUME TypeInv, NEW k \in Nat, k <= Len(bUio.bytes), NEW u, u = Flushed(k)
  PROVE  u.bytes = Rest(bUio.bytes, k) /\ u.on = bUio.on
  <1>1. u.on = bUio.on /\ bUio.bytes \in Seq(Byte) /\ bUio \in BufferUio
    BY FlushedFacts DEF TypeInv, BufferUio
  <1>2. CASE k = Len(bUio.bytes)
    <2> DEFINE e == <<>>
               o == 0
    <2>1. u = [bUio EXCEPT !.off = o, !.bytes = e] /\ e = <<>>
      BY <1>2 DEF Flushed
    <2> HIDE DEF e, o
    <2>2. u.bytes = e
      BY <1>1, <2>1 DEF BufferUio
    <2>3. Rest(bUio.bytes, k) = <<>>
      BY <1>1, <1>2, RestFacts
    <2>4. QED
      BY <1>1, <2>1, <2>2, <2>3
  <1>3. CASE k # Len(bUio.bytes)
    <2> DEFINE o == bUio.off + k
               s == Rest(bUio.bytes, k)
    <2>1. u = [bUio EXCEPT !.off = o, !.bytes = s]
      BY <1>3 DEF Flushed, Rest
    <2> HIDE DEF o, s
    <2>2. u.bytes = s
      BY <1>1, <2>1 DEF BufferUio
    <2>3. QED
      BY <1>1, <2>2 DEF s
  <1>4. QED
    BY <1>2, <1>3

\* A round of the flush: bytes move from the buffer UIO to the wire.
LEMMA FlushPart ==
  ASSUME IInv, PartInv, UNCHANGED <<link, built>>, NEW k, Transport(bUio.bytes, k), bUio' = Flushed(k),
         ~Datagram => In' = In, DoneInv',
         Datagram => rec'.start = 0 /\ (rec'.num = 0 \/ rec'.num = rec.num)
  PROVE  PartInv'
  <1>1. PICK b : b = bUio.bytes
    OBVIOUS
  <1>2. b \in Seq(Byte) /\ Len(b) \in Nat
    BY <1>1, Parts, LenProperties
  <1>3. /\ k \in Nat /\ k <= Len(b) /\ FlattenSeq(wire') = Cat(FlattenSeq(wire), First(b, k))
        /\ Datagram => \/ k = 0 /\ wire' = wire
                       \/ k = Len(b) /\ wire' = Append(wire, b)
    BY <1>1, <1>2, Parts, FlatTransport
  <1>4. PICK f, r, i : f = First(b, k) /\ r = Rest(b, k) /\ i = In
    OBVIOUS
  <1>5. /\ f \in Seq(Byte) /\ r \in Seq(Byte) /\ Cat(f, r) = b
        /\ (k = 0 => r = b) /\ (k = Len(b) => r = <<>>)
    BY <1>2, <1>3, <1>4, RestFacts
  <1>6. bUio'.bytes = r
    BY <1>1, <1>3, <1>4, Parts, FlushedRest
  <1>7. CASE ~Datagram
    <2>1. i \in Seq(Byte)
      BY <1>4, Parts, InFacts
    <2>2. Cat(Cat(f, r), i) = Cat(f, Cat(r, i))
      BY <1>5, <2>1, CatAssoc
    <2>3. Cat(bUio.bytes, In) = Cat(f, Cat(r, i))
      BY <1>1, <1>4, <1>5, <2>2
    <2>4. StreamInv'
      BY <1>3, <1>4, <1>5, <1>6, <1>7, <2>1, <2>3, StreamStep DEF PartInv
    <2>5. QED
      BY <1>7, <2>4 DEF PartInv, GramInv, Datagram
  <1>8. CASE Datagram
    <2>1. WholeOf(built, b)
      BY <1>1, <1>8 DEF PartInv, GramInv
    <2>2. WholeOf(built, r)
      BY <1>3, <1>5, <1>8, <2>1, WholeEmpty
    <2>3. GramInv'
      BY <1>2, <1>3, <1>6, <1>8, <2>1, <2>2, GramStep DEF PartInv
    <2>4. QED
      BY <1>8, <2>3 DEF PartInv, StreamInv, Datagram
  <1>9. QED
    BY <1>7, <1>8

\* TryCompleteBuffer: the rest of outBuf moves to the buffer.
LEMMA CachedPart ==
  ASSUME IInv, PartInv, UNCHANGED link, BufferCache
  PROVE  PartInv'
  <1>1. PICK b, i, s : b = bUio.bytes /\ i = In /\ s = Cat(b, i)
    OBVIOUS
  <1>2. /\ call.pc = "write" /\ bUio' = [bUio EXCEPT !.bytes = s] /\ Wrote(Len(OutBuf))
        /\ UNCHANGED <<built, wire>>
    BY <1>1 DEF BufferCache, Cat
  <1>3. bUio'.bytes = s
    BY <1>2, Parts DEF BufferUio
  <1>4. OutBuf \in Seq(Byte) /\ Len(OutBuf) \in Nat /\ b \in Seq(Byte) /\ i \in Seq(Byte) /\ s \in Seq(Byte)
    BY <1>1, Parts, OutBufFacts, InFacts, CatAssoc
  <1>5. CASE ~Datagram
    <2>1. In' = Rest(OutBuf, Len(OutBuf)) /\ call'.done = 0
      BY <1>2, <1>4, <1>5, WroteIn
    <2>2. PICK e : e = <<>>
      OBVIOUS
    <2>3. In' = e /\ e \in Seq(Byte)
      BY <1>4, <2>1, <2>2, RestFacts, NumsEmpty
    <2>4. Cat(s, e) = s /\ Cat(e, s) = s
      BY <1>4, <2>2, CatEmpty
    <2>5. Cat(bUio.bytes, In) = Cat(e, Cat(s, e))
      BY <1>1, <2>4
    <2>6. FlattenSeq(wire') = Cat(FlattenSeq(wire), e)
      BY <1>2, <2>2, Parts, FlatType, CatEmpty
    <2>7. StreamInv'
      BY <1>2, <1>3, <1>4, <1>5, <2>3, <2>5, <2>6, StreamStep DEF PartInv
    <2>8. QED
      BY <1>5, <2>1, <2>7 DEF PartInv, DoneInv, GramInv, Datagram
  <1>6. CASE Datagram
    <2>1. rec'.num = 0 /\ rec'.start = 0 /\ call'.done = 0
      BY <1>2, <1>4, <1>6, WroteGram
    <2>2. /\ WholeOf(built, i) /\ \A m \in Nums(b) : \A n \in Nums(i) : m < n
      <3>1. /\ WholeOf(built, OutBuf) /\ In = OutBuf
            /\ \A m \in Nums(bUio.bytes) : \A n \in Nums(OutBuf) : m < n
        BY <1>2, <1>6, GramOut
      <3>2. QED
        BY <1>1, <3>1
    <2>3. WholeOf(built, b) /\ built \in Seq(Record)
      BY <1>1, <1>6, Parts DEF PartInv, GramInv, TypeInv
    <2>4. WholeOf(built, s)
      BY <1>1, <1>4, <2>2, <2>3, WholeConcat
    <2>5. GramInv'
      BY <1>2, <1>3, <1>6, <2>1, <2>4, GramStep DEF PartInv
    <2>6. QED
      BY <1>6, <2>1, <2>5 DEF PartInv, DoneInv, StreamInv, Datagram
  <1>7. QED
    BY <1>5, <1>6

\* The buffer is flushed to make room.
LEMMA BufferMakeRoomPart ==
  ASSUME IInv, PartInv, UNCHANGED link, BufferMakeRoom
  PROVE  PartInv'
  <1>1. PICK k \in Taken(bUio.bytes) :
          /\ Transport(bUio.bytes, k) /\ bUio' = Flushed(k)
          /\ IF k = 0 THEN Wrote(call.done) ELSE UNCHANGED <<rec, app, call, last>>
    BY DEF BufferMakeRoom
  <1>2. call.pc = "write" /\ UNCHANGED built
    BY DEF BufferMakeRoom
  <1>3. k \in Nat /\ k <= Len(bUio.bytes) /\ bUio'.on = bUio.on
    BY <1>1, Parts, FlatTransport, FlushedRest
  <1>4. CASE k = 0
    <2>1. Wrote(call.done) /\ call.done \in Nat
      BY <1>1, <1>4, Parts DEF Calls
    <2>2. CASE ~Datagram
      <3>1. call.done <= Len(OutBuf)
        <4>1. Len(OutBuf) \in Nat
          BY Parts, OutBufFacts
        <4>2. QED
          BY <2>1, <4>1 DEF PartInv, DoneInv
      <3>2. In' = In /\ call'.done = 0
        BY <1>2, <2>1, <2>2, <3>1, WroteIn, InIs
      <3>3. DoneInv'
        BY <3>2 DEF DoneInv
      <3>4. QED
        BY <1>1, <1>2, <2>2, <3>2, <3>3, FlushPart
    <2>3. CASE Datagram
      <3>1. call.done = 0
        BY <1>2, <2>3, GramOut
      <3>2. rec'.num = 0 /\ rec'.start = 0 /\ call'.done = 0
        BY <1>2, <2>1, <2>3, <3>1, WroteGram
      <3>3. DoneInv'
        BY <3>2 DEF DoneInv
      <3>4. QED
        BY <1>1, <1>2, <2>3, <3>2, <3>3, FlushPart
    <2>4. QED
      BY <2>2, <2>3
  <1>5. CASE k # 0
    <2>1. UNCHANGED <<rec, call>>
      BY <1>1, <1>5
    <2>2. OutBuf' = OutBuf
      BY <1>2, <2>1, SameOutBuf
    <2>3. In' = In
      BY <2>1, <2>2, InIs
    <2>4. DoneInv'
      BY <1>3, <2>1, <2>2 DEF PartInv, DoneInv
    <2>5. Datagram => rec'.start = 0 /\ rec'.num = rec.num
      BY <2>1 DEF PartInv, GramInv
    <2>6. QED
      BY <1>1, <1>2, <2>3, <2>4, <2>5, FlushPart
  <1>6. QED
    BY <1>4, <1>5

\* A round of the flush by REC_FlightTransmit.
LEMMA BufferFlushPart ==
  ASSUME IInv, PartInv, UNCHANGED link, BufferFlush
  PROVE  PartInv'
  <1>1. PICK k \in Taken(bUio.bytes) :
          /\ Transport(bUio.bytes, k) /\ bUio' = Flushed(k)
          /\ IF k = 0 THEN Return("IO_BUSY") ELSE UNCHANGED <<call, last>>
    BY DEF BufferFlush
  <1>2. call.pc = "flush" /\ UNCHANGED <<rec, built>>
    BY DEF BufferFlush
  <1>3. call.done = 0
    BY <1>2, DoneZero
  <1>4. call'.done = 0
    BY <1>1, <1>3, Parts, ReturnFacts
  <1>5. OutBuf' = OutBuf
    BY <1>2, SameOutBuf
  <1>6. In' = In /\ DoneInv'
    BY <1>3, <1>4, <1>5, InIs DEF DoneInv
  <1>7. Datagram => rec'.start = 0 /\ rec'.num = rec.num
    BY <1>2 DEF PartInv, GramInv
  <1>8. QED
    BY <1>1, <1>2, <1>6, <1>7, FlushPart

\* REC_FlightTransmit has nothing left to flush; the buffer that is freed is empty.
LEMMA FlightDonePart ==
  ASSUME IInv, PartInv, UNCHANGED link, FlightDone
  PROVE  PartInv'
  <1>1. /\ call.pc = "flush" /\ (bUio.on => bUio.bytes = <<>>) /\ Return("SUCCESS")
        /\ bUio' = IF call.op = "done" /\ ~Datagram THEN NoBuffer ELSE bUio
        /\ UNCHANGED <<rec, built, wire>>
    BY DEF FlightDone
  <1>2. bUio.bytes = <<>> /\ NoBuffer.bytes = <<>>
    BY <1>1, Parts DEF FlightInv, NoBuffer
  <1>3. bUio'.bytes = bUio.bytes
    BY <1>1, <1>2
  <1>4. call.done = 0 /\ call'.done = 0
    BY <1>1, DoneZero, Parts, ReturnFacts
  <1>5. QED
    BY <1>1, <1>3, <1>4, PartQuiet

\* BufferWrite writes what fills the buffer directly to the transport.
LEMMA BufferDirectPart ==
  ASSUME IInv, PartInv, UNCHANGED link, BufferDirect
  PROVE  PartInv'
  <1>1. /\ call.pc = "write" /\ bUio.on /\ bUio.bytes = <<>> /\ UNCHANGED built
        /\ bUio'.bytes = <<>> /\ bUio'.on = bUio.on
    <2> DEFINE o == 0
    <2>1. call.pc = "write" /\ bUio.on /\ bUio.bytes = <<>> /\ UNCHANGED built /\ bUio' = [bUio EXCEPT !.off = o]
      BY DEF BufferDirect
    <2> HIDE DEF o
    <2>2. bUio'.bytes = bUio.bytes /\ bUio'.on = bUio.on
      BY <2>1, Parts DEF BufferUio
    <2>3. QED
      BY <2>1, <2>2
  <1>2. CASE UNCHANGED <<rec, wire, call>>
    BY <1>1, <1>2, PartQuiet
  <1>3. ASSUME NEW k, Transport(In, k),
               IF k = 0 \/ k = Len(In) THEN Wrote(call.done + k)
               ELSE call' = [call EXCEPT !.done = @ + k] /\ UNCHANGED <<rec, app, last>>
        PROVE  PartInv'
    <2>1. PICK c, b, i, n : c = call.done /\ b = OutBuf /\ i = In /\ n = c + k
      OBVIOUS
    <2>2. c \in Nat /\ b \in Seq(Byte) /\ i \in Seq(Byte) /\ Len(b) \in Nat /\ Len(b) > 0
      BY <1>1, <2>1, Parts, OutBufFacts, InFacts DEF Calls, OutInv
    <2>3. c <= Len(b)
      BY <2>1, <2>2 DEF PartInv, DoneInv
    <2>4. i = Rest(b, c) /\ Len(i) = Len(b) - c
      BY <2>1, <2>2, <2>3, InIs, RestFacts
    <2>5. /\ k \in Nat /\ k <= Len(i) /\ FlattenSeq(wire') = Cat(FlattenSeq(wire), First(i, k))
          /\ Datagram => \/ k = 0 /\ wire' = wire
                         \/ k = Len(i) /\ wire' = Append(wire, i)
      BY <1>3, <2>1, <2>2, Parts, FlatTransport
    <2>6. n \in Nat /\ n <= Len(b) /\ (k # Len(i) => n < Len(b))
      BY <2>1, <2>2, <2>3, <2>4, <2>5
    <2>7. Rest(i, k) = Rest(b, n)
      BY <2>1, <2>2, <2>4, <2>5, <2>6, RestOfRest
    <2>8. CASE ~Datagram
      <3>1. In' = Rest(i, k) /\ DoneInv'
        <4>1. CASE k = 0 \/ k = Len(i)
          <5>1. Wrote(n)
            BY <1>3, <2>1, <4>1
          <5>2. In' = Rest(b, n) /\ call'.done = 0
            BY <1>1, <2>1, <2>6, <2>8, <5>1, WroteIn
          <5>3. QED
            BY <2>7, <5>2 DEF DoneInv
        <4>2. CASE ~(k = 0 \/ k = Len(i))
          <5>1. call' = [call EXCEPT !.done = n] /\ UNCHANGED rec
            BY <1>3, <2>1, <4>2
          <5>2. call'.done = n /\ call'.pc = call.pc
            BY <5>1, Parts DEF Calls
          <5>3. OutBuf' = OutBuf
            BY <1>1, <5>1, SameOutBuf
          <5>4. In' = Rest(b, n)
            BY <2>1, <5>2, <5>3, InIs
          <5>5. DoneInv'
            BY <1>1, <2>1, <2>6, <4>2, <5>2, <5>3 DEF DoneInv
          <5>6. QED
            BY <2>7, <5>4, <5>5
        <4>3. QED
          BY <4>1, <4>2
      <3>2. PICK f, r, e : f = First(i, k) /\ r = Rest(i, k) /\ e = <<>>
        OBVIOUS
      <3>3. f \in Seq(Byte) /\ r \in Seq(Byte) /\ Cat(f, r) = i /\ e \in Seq(Byte)
        BY <2>2, <2>5, <3>2, RestFacts, NumsEmpty
      <3>4. Cat(e, r) = r /\ Cat(e, i) = i
        BY <2>2, <3>2, <3>3, CatEmpty
      <3>5. Cat(bUio.bytes, In) = Cat(f, Cat(e, r))
        BY <1>1, <2>1, <3>2, <3>3, <3>4
      <3>6. StreamInv'
        BY <1>1, <2>5, <2>8, <3>1, <3>2, <3>3, <3>5, StreamStep DEF PartInv
      <3>7. QED
        BY <2>8, <3>1, <3>6 DEF PartInv, GramInv, Datagram
    <2>9. CASE Datagram
      <3>1. WholeOf(built, i) /\ i = b /\ c = 0
        BY <1>1, <2>1, <2>9, GramOut
      <3>2. (k = 0 \/ k = Len(b)) /\ Wrote(k)
        <4>1. k = 0 \/ k = Len(i)
          BY <2>5, <2>9
        <4>2. Wrote(n) /\ n = k
          BY <1>3, <2>1, <2>5, <3>1, <4>1
        <4>3. QED
          BY <3>1, <4>1, <4>2
      <3>3. rec'.num = 0 /\ rec'.start = 0 /\ call'.done = 0
        BY <1>1, <2>1, <2>5, <2>9, <3>2, WroteGram
      <3>4. GramInv'
        BY <1>1, <2>2, <2>5, <2>9, <3>1, <3>3, WholeEmpty, GramStep DEF PartInv
      <3>5. QED
        BY <2>9, <3>3, <3>4 DEF PartInv, DoneInv, StreamInv, Datagram
    <2>10. QED
      BY <2>8, <2>9
  <1>4. QED
    BY <1>2, <1>3 DEF BufferDirect

\* Nothing is built and nothing is out.
LEMMA InitPart == Init => PartInv
  <1>1. SUFFICES ASSUME Init
                 PROVE  PartInv
    OBVIOUS
  <1>2. /\ rec = [seq |-> 0, isWrapped |-> FALSE, num |-> 0, start |-> 0]
        /\ built = <<>> /\ bUio = NoBuffer /\ wire = <<>> /\ call = Idle
    BY <1>1 DEF Init
  <1>3. rec.num = 0 /\ rec.start = 0 /\ bUio.bytes = <<>> /\ call.done = 0
    BY <1>2 DEF NoBuffer, Idle
  <1>4. OutBuf = <<>> /\ In = <<>>
    <2>1. OutBuf = <<>>
      BY <1>3 DEF OutBuf
    <2>2. QED
      BY <1>3, <2>1, InIs, RestEmpty
  <1>5. AllBytes = <<>>
    <2>1. [n \in 1..Len(built) |-> Bytes(n)] = <<>>
      <3>1. Len(built) = 0
        BY <1>2
      <3>2. QED
        BY <3>1
    <2>2. QED
      BY <2>1, FlatEmpty, Zenon DEF AllBytes
  <1>6. StreamInv
    <2>1. PICK e : e = <<>>
      OBVIOUS
    <2>2. e \in Seq(Byte)
      BY <2>1, NumsEmpty
    <2>3. Cat(e, e) = e
      BY <2>1, <2>2, CatEmpty
    <2>4. FlattenSeq(wire) = e
      BY <1>2, <2>1, FlatEmpty
    <2>5. QED
      BY <1>3, <1>4, <1>5, <2>1, <2>3, <2>4 DEF StreamInv
  <1>7. GramInv
    <2>1. \A d \in 1..Len(wire) : FALSE
      BY <1>2
    <2>2. QED
      BY <1>3, <2>1, WholeEmpty DEF GramInv
  <1>8. QED
    BY <1>3, <1>6, <1>7 DEF PartInv, DoneInv

\* Every step keeps it.
LEMMA NextPart == IInv /\ PartInv /\ [Next]_vars => PartInv'
  <1>1. SUFFICES ASSUME IInv, PartInv, [Next]_vars
                 PROVE  PartInv'
    OBVIOUS
  <1>2. CASE UNCHANGED vars
    <2>1. UNCHANGED <<link, rec, built, bUio, wire, call>>
      BY <1>2 DEF vars
    <2>2. QED
      BY <1>1, <2>1, PartQuiet DEF PartInv, DoneInv
  <1>3. CASE Next
    <2>1. UNCHANGED link
      BY <1>3 DEF Next
    <2>2. CASE HsInit
      BY <1>1, <2>1, <2>2, HsInitPart
    <2>3. CASE AppWrite \/ HsSend \/ HsDone \/ OutBufFlush
      BY <1>1, <2>1, <2>3, BeginPart DEF AppWrite, HsSend, HsDone, OutBufFlush
    <2>4. CASE DtlsDeInit
      BY <1>1, <2>1, <2>4, EmptiedPart DEF DtlsDeInit, NoBuffer
    <2>5. CASE ChangeBufferSize
      <3> DEFINE e == <<>>
                 o == 0
      <3>1. /\ Datagram /\ call.pc # "write" /\ bUio' = [bUio EXCEPT !.off = o, !.bytes = e] /\ e = <<>>
            /\ UNCHANGED <<rec, built, wire, call>>
        BY <2>5 DEF ChangeBufferSize
      <3> HIDE DEF e, o
      <3>2. bUio'.bytes = e
        BY <1>1, <3>1, Parts DEF BufferUio
      <3>3. QED
        BY <1>1, <2>1, <3>1, <3>2, EmptiedPart
    <2>6. CASE Write
      <3>1. CASE TlsRecordWrite
        BY <1>1, <2>1, <3>1, TlsRecordWritePart
      <3>2. CASE DtlsRecordWrite
        BY <1>1, <2>1, <3>2, DtlsRecordWritePart
      <3>3. CASE TransportWrite
        BY <1>1, <2>1, <3>3, TransportWritePart
      <3>4. CASE BufferCache
        BY <1>1, <2>1, <3>4, CachedPart
      <3>5. CASE BufferMakeRoom
        BY <1>1, <2>1, <3>5, BufferMakeRoomPart
      <3>6. CASE BufferDirect
        BY <1>1, <2>1, <3>6, BufferDirectPart
      <3>7. CASE FlightDone
        BY <1>1, <2>1, <3>7, FlightDonePart
      <3>8. CASE BufferFlush
        BY <1>1, <2>1, <3>8, BufferFlushPart
      <3>9. QED
        BY <2>6, <3>1, <3>2, <3>3, <3>4, <3>5, <3>6, <3>7, <3>8 DEF Write
    <2>7. QED
      BY <1>3, <2>2, <2>3, <2>4, <2>5, <2>6 DEF Next
  <1>4. QED
    BY <1>1, <1>2, <1>3

\* Whatever the transport takes at a time (StreamWrite, DatagramWrite, BufferWrite, BufferFlush): over a
\* stream no byte of a record is lost, repeated or overtaken, and over datagrams each one holds whole
\* records, in the order they were built.
THEOREM WireIntactTheorem == Spec => []WireIntact
  <1>1. IInv /\ PartInv => WireIntact
    <2>1. SUFFICES ASSUME PartInv
                   PROVE  WireIntact
      OBVIOUS
    <2>2. CASE Datagram
      <3>1. \A d \in 1..Len(wire) : Whole(wire[d])
        BY <2>1, <2>2, WholeIs DEF PartInv, GramInv
      <3>2. QED
        BY <2>2, <3>1, Zenon DEF WireIntact
    <2>3. CASE ~Datagram
      <3>1. Cat(Cat(FlattenSeq(wire), bUio.bytes), In) = AllBytes
        BY <2>1, <2>3 DEF PartInv, StreamInv
      <3>2. QED
        BY <2>3, <3>1, Zenon DEF WireIntact, Cat
    <2>4. QED
      BY <2>2, <2>3
  <1>2. Init => PartInv
    BY InitPart
  <1>3. IInv /\ PartInv /\ [Next]_vars => PartInv'
    BY NextPart
  <1>4. QED
    BY <1>1, <1>2, <1>3, InvAlways, PTL DEF Spec

-----------------------------------------------------------------------------
(* What a write that reports success has sent.                             *)

\* The bytes of a sequence and of the pieces w; the bytes that are out.
BytesIn(b) == {b[i] : i \in DOMAIN b}
WireBytes(w) == UNION {BytesIn(w[d]) : d \in DOMAIN w}
Held == WireBytes(wire) \cup BytesIn(bUio.bytes)

\* A record with the data d was built and, over datagrams, all of it is out (over a stream StreamInv says where it is).
Complete(n) == Datagram => \A i \in 1..built[n].len : <<n, i>> \in Held
HasRecord(d) == \E n \in 1..Len(built) : AppRecord(n) /\ built[n].data = d /\ Complete(n)
Told(d) == d \in disturbed \/ HasRecord(d)

\* The application record in outBuf is that of the data to be written next, and a write sends it unless it is
\* disturbed; a write that has sent its record, or reported success, has one.
SentInv ==
  /\ rec.num # 0 /\ AppRecord(rec.num) => built[rec.num].data = app.next
  /\ call.pc = "write" /\ call.op = "app" => app.next \in disturbed \/ AppRecord(rec.num)
  /\ call.pc = "flush" /\ call.op = "app" => Told(app.next)
  /\ call.pc = "idle" /\ last.op = "app" /\ last.ret = "SUCCESS" => Told(app.next - 1)

\* The bytes of sequences that are put together.
LEMMA BytesInCat ==
  ASSUME NEW B, NEW a \in Seq(B), NEW b \in Seq(B)
  PROVE  BytesIn(a \o b) = BytesIn(a) \cup BytesIn(b)
  <1>0. PICK s : s = a \o b
    OBVIOUS
  <1>1. /\ s \in Seq(B) /\ Len(s) = Len(a) + Len(b)
        /\ \A i \in 1..Len(a) + Len(b) : s[i] = IF i <= Len(a) THEN a[i] ELSE b[i - Len(a)]
    BY <1>0, ConcatProperties
  <1>2. /\ DOMAIN a = 1..Len(a) /\ DOMAIN b = 1..Len(b) /\ DOMAIN s = 1..Len(s)
        /\ Len(a) \in Nat /\ Len(b) \in Nat
    BY <1>1, LenProperties
  <1>3. ASSUME NEW i \in DOMAIN s
        PROVE  s[i] \in BytesIn(a) \cup BytesIn(b)
    <2>1. CASE i <= Len(a)
      <3>1. i \in DOMAIN a /\ s[i] = a[i]
        BY <1>1, <1>2, <2>1
      <3>2. QED
        BY <3>1 DEF BytesIn
    <2>2. CASE i > Len(a)
      <3>1. i - Len(a) \in DOMAIN b /\ s[i] = b[i - Len(a)]
        BY <1>1, <1>2, <2>2
      <3>2. QED
        BY <3>1 DEF BytesIn
    <2>3. QED
      BY <1>1, <1>2, <2>1, <2>2
  <1>4. ASSUME NEW i \in DOMAIN a
        PROVE  a[i] \in BytesIn(s)
    <2>1. i \in DOMAIN s /\ s[i] = a[i]
      BY <1>1, <1>2
    <2>2. QED
      BY <2>1 DEF BytesIn
  <1>5. ASSUME NEW i \in DOMAIN b
        PROVE  b[i] \in BytesIn(s)
    <2>1. Len(a) + i \in DOMAIN s /\ s[Len(a) + i] = b[i]
      BY <1>1, <1>2
    <2>2. QED
      BY <2>1 DEF BytesIn
  <1>6. BytesIn(s) \subseteq BytesIn(a) \cup BytesIn(b)
    BY <1>3 DEF BytesIn
  <1>7. BytesIn(a) \subseteq BytesIn(s) /\ BytesIn(b) \subseteq BytesIn(s)
    BY <1>4, <1>5 DEF BytesIn
  <1>8. QED
    BY <1>0, <1>6, <1>7

\* One piece more on the wire.
LEMMA WireBytesAppend ==
  ASSUME NEW B, NEW w \in Seq(Seq(B)), NEW x \in Seq(B), NEW v, v = Append(w, x)
  PROVE  WireBytes(w) \subseteq WireBytes(v) /\ BytesIn(x) \subseteq WireBytes(v)
  <1>1. /\ v \in Seq(Seq(B)) /\ Len(v) = Len(w) + 1 /\ v[Len(w) + 1] = x
        /\ Len(w) \in Nat /\ \A i \in 1..Len(w) : v[i] = w[i]
    BY AppendFacts
  <1>2. DOMAIN w = 1..Len(w) /\ DOMAIN v = 1..Len(v)
    BY <1>1, LenProperties
  <1>3. ASSUME NEW d \in DOMAIN w
        PROVE  d \in DOMAIN v /\ v[d] = w[d]
    BY <1>1, <1>2
  <1>4. Len(w) + 1 \in DOMAIN v
    BY <1>1, <1>2
  <1>5. WireBytes(w) \subseteq WireBytes(v)
    BY <1>3 DEF WireBytes
  <1>6. BytesIn(x) \subseteq WireBytes(v)
    BY <1>1, <1>4 DEF WireBytes
  <1>7. QED
    BY <1>5, <1>6

\* No bytes.
LEMMA BytesInEmpty == BytesIn(<<>>) = {}
  BY DEF BytesIn

\* What is in a piece is in the flattened pieces, and nothing else is.
LEMMA FlatHas ==
  ASSUME NEW B, NEW w \in Seq(Seq(B))
  PROVE  BytesIn(FlattenSeq(w)) = WireBytes(w)
  <1>0. PICK n : n = Len(w)
    OBVIOUS
  <1>1. n \in Nat /\ DOMAIN w = 1..n /\ \A i \in 1..n : w[i] \in Seq(B)
    BY <1>0, LenProperties, ElementOfSeq
  <1>2. CASE n = 0
    <2>1. w = <<>>
      BY <1>0, <1>2, EmptySeq
    <2>2. WireBytes(w) = {}
      BY <1>1, <1>2 DEF WireBytes
    <2>3. QED
      BY <2>1, <2>2, FlatEmpty, BytesInEmpty
  <1>3. CASE n # 0
    <2>1. PICK f : /\ FlattenSeq(w) = f[n] /\ f[1] = w[1]
                   /\ \A i \in 2..n : f[i] = f[i - 1] \o w[i]
      <3>1. IsFlat(n, w, FlattenSeq(w))
        BY <1>0, <1>1, <1>3, FlatIs
      <3>2. QED
        BY <3>1, Zenon DEF IsFlat
    <2> DEFINE U(k) == UNION {BytesIn(w[d]) : d \in 1..k}
               S == {k \in 0..n : k # 0 => f[k] \in Seq(B) /\ BytesIn(f[k]) = U(k)}
    <2>2. 0 \in S
      BY <1>1
    <2>3. ASSUME NEW k \in 0..(n - 1), k \in S
          PROVE  k + 1 \in S
      <3>1. k + 1 \in 0..n /\ k + 1 \in 1..n /\ (k # 0 => k + 1 \in 2..n /\ (k + 1) - 1 = k)
        BY <1>1
      <3>2. CASE k = 0
        <4>1. 1..1 = {1} /\ k + 1 = 1
          BY <3>2
        <4>2. U(1) = BytesIn(w[1])
          BY <4>1
        <4>3. f[1] \in Seq(B) /\ BytesIn(f[1]) = U(1)
          BY <1>1, <2>1, <3>1, <4>1, <4>2
        <4>4. QED
          BY <3>1, <4>1, <4>3
      <3>3. CASE k # 0
        <4>1. f[k] \in Seq(B) /\ BytesIn(f[k]) = U(k) /\ w[k + 1] \in Seq(B) /\ f[k + 1] = f[k] \o w[k + 1]
          BY <1>1, <2>1, <2>3, <3>1, <3>3
        <4>2. f[k + 1] \in Seq(B)
          BY <4>1, ConcatProperties
        <4>3. BytesIn(f[k + 1]) = BytesIn(f[k]) \cup BytesIn(w[k + 1])
          BY <4>1, BytesInCat
        <4>4. 1..(k + 1) = 1..k \cup {k + 1}
          BY <1>1
        <4>5. U(k + 1) = U(k) \cup BytesIn(w[k + 1])
          BY <4>4
        <4>6. QED
          BY <3>1, <4>1, <4>2, <4>3, <4>5
      <3>4. QED
        BY <3>2, <3>3
    <2> HIDE DEF S
    <2>4. n \in S
      <3>1. \A i \in 0..(n - 1) : i \in S => i + 1 \in S
        BY <2>3
      <3>2. \A i \in 0..n : i \in S
        BY <1>1, <2>2, <3>1, Upward
      <3>3. QED
        BY <1>1, <3>2
    <2>5. QED
      BY <1>1, <1>3, <2>1, <2>4 DEF S, WireBytes
  <1>4. QED
    BY <1>2, <1>3

-----------------------------------------------------------------------------
(* What has been sent: the steps.                                          *)

\* What is out stays out.
LEMMA ToldKept ==
  ASSUME UNCHANGED <<link, built>>, disturbed \subseteq disturbed', Datagram => Held \subseteq Held', NEW d, Told(d)
  PROVE  Told(d)'
  <1>1. Datagram' = Datagram
    BY DEF Datagram
  <1>2. ASSUME NEW n \in 1..Len(built), AppRecord(n), built[n].data = d, Complete(n)
        PROVE  HasRecord(d)'
    <2>1. n \in 1..Len(built') /\ built'[n].type = "app" /\ built'[n].data = d
      BY <1>2 DEF AppRecord
    <2>2. Datagram' => \A i \in 1..built'[n].len : <<n, i>> \in Held'
      BY <1>1, <1>2 DEF Complete
    <2>3. QED
      BY <2>1, <2>2 DEF HasRecord, AppRecord, Complete
  <1>3. QED
    BY <1>2 DEF Told, HasRecord

\* The record of outBuf has gone out as a whole.
LEMMA ToldNow ==
  ASSUME IInv, SentInv, UNCHANGED <<link, built, disturbed>>, call.pc = "write", call.op = "app",
         Datagram => \A i \in 1..built[rec.num].len : <<rec.num, i>> \in Held', NEW d, d = app.next
  PROVE  Told(d)'
  <1>1. Datagram' = Datagram
    BY DEF Datagram
  <1>2. rec.num \in 1..Len(built)
    BY Parts, LenProperties DEF OutInv, TypeInv, WriteState
  <1>3. CASE d \in disturbed
    BY <1>3 DEF Told
  <1>4. CASE AppRecord(rec.num)
    <2>1. PICK n : n = rec.num
      OBVIOUS
    <2>2. n \in 1..Len(built') /\ built'[n].type = "app" /\ built'[n].data = d
      BY <1>2, <1>4, <2>1, Parts DEF AppRecord, SentInv, OutInv
    <2>3. Datagram' => \A i \in 1..built'[n].len : <<n, i>> \in Held'
      BY <1>1, <2>1
    <2>4. QED
      BY <2>2, <2>3 DEF Told, HasRecord, AppRecord, Complete
  <1>5. QED
    BY <1>3, <1>4 DEF SentInv

\* The record in outBuf is the same or gone, and the call does not say that it is sent.
LEMMA SentOpen ==
  ASSUME SentInv, UNCHANGED <<link, built>>, disturbed \subseteq disturbed', rec'.num \in {0, rec.num}, app'.next = app.next,
         call'.pc \in {"record", "write"} \/ (call'.pc = "idle" /\ last'.ret # "SUCCESS"),
         call'.pc = "write" /\ call'.op = "app" =>
           rec'.num = rec.num /\ call.pc = "write" /\ call.op = "app"
  PROVE  SentInv'
  BY DEF SentInv, AppRecord

\* Nothing of what the invariant speaks of changes, but that more may be out.
LEMMA SentQuiet ==
  ASSUME IInv, SentInv, UNCHANGED <<link, built, call, last>>, disturbed \subseteq disturbed', rec'.num = rec.num, app'.next = app.next,
         Datagram => \/ Held \subseteq Held'
                     \/ call.pc # "idle" /\ (call.pc = "flush" /\ call.op = "app" => app.next \in disturbed')
  PROVE  SentInv'
  <1>1. /\ rec'.num # 0 /\ built'[rec'.num].type = "app" => built'[rec'.num].data = app'.next
        /\ call'.pc = "write" /\ call'.op = "app" => app'.next \in disturbed' \/ built'[rec'.num].type = "app"
    BY DEF SentInv, AppRecord
  <1>2. PICK d, e : d = app.next /\ e = app.next - 1 /\ d = app'.next /\ e = app'.next - 1
    OBVIOUS
  <1>3. call.pc = "flush" /\ call.op = "app" => Told(d)'
    <2>1. CASE Datagram => Held \subseteq Held'
      BY <1>2, <2>1, ToldKept DEF SentInv
    <2>2. CASE Datagram /\ ~(Held \subseteq Held')
      BY <1>2, <2>2 DEF Told
    <2>3. QED
      BY <2>1, <2>2
  <1>4. call.pc = "idle" /\ last.op = "app" /\ last.ret = "SUCCESS" => Told(e)'
    BY <1>2, ToldKept DEF SentInv
  <1>5. QED
    BY <1>1, <1>2, <1>3, <1>4 DEF SentInv, AppRecord

\* StreamWrite and DatagramWrite after k bytes have been taken.
LEMMA WroteSent ==
  ASSUME IInv, SentInv, UNCHANGED <<link, built, disturbed>>, call.pc = "write", NEW k \in Nat, Wrote(k),
         Datagram /\ k # 0 /\ ~(k < Len(OutBuf)) => \A i \in 1..built[rec.num].len : <<rec.num, i>> \in Held'
  PROVE  SentInv'
  <1>1. CASE k = 0
    <2>1. Return("IO_BUSY") /\ rec' = BusyOut /\ UNCHANGED app
      BY <1>1 DEF Wrote
    <2>2. call'.pc = "idle" /\ last'.ret = "IO_BUSY"
      BY <2>1, Parts, ReturnFacts
    <2>3. rec'.num \in {0, rec.num}
      BY <2>1, Parts DEF BusyOut, EmptyOut, WriteState
    <2>4. QED
      BY <2>1, <2>2, <2>3, SentOpen
  <1>2. CASE k # 0 /\ k < Len(OutBuf)
    <2> DEFINE s == rec.start + k
    <2>1. rec' = [rec EXCEPT !.start = s] /\ call' = [call EXCEPT !.pc = "write", !.done = 0] /\ UNCHANGED <<app, last>>
      BY <1>2, Parts DEF Wrote, WriteState
    <2> HIDE DEF s
    <2>2. rec'.num = rec.num /\ call'.pc = "write" /\ call'.op = call.op
      BY <2>1, Parts DEF WriteState, Calls
    <2>3. QED
      BY <2>1, <2>2, SentOpen
  <1>3. CASE k # 0 /\ ~(k < Len(OutBuf))
    <2>1. rec' = SentOut
      BY <1>3 DEF Wrote
    <2>2. rec'.num = 0
      BY <2>1, Parts, EmptyOutFacts
    <2>3. PICK d : d = app.next /\ d \in Nat
      BY Parts
    <2>4. call.op = "app" => Told(d)'
      BY <1>3, <2>3, ToldNow
    <2>5. CASE call.op = "app" /\ Flight
      <3>1. call' = [call EXCEPT !.pc = "flush", !.done = 0] /\ UNCHANGED <<app, last>>
        BY <1>3, <2>5 DEF Wrote
      <3>2. call'.pc = "flush" /\ app'.next = d
        BY <2>3, <3>1, Parts DEF Calls
      <3>3. QED
        BY <2>2, <2>4, <2>5, <3>2 DEF SentInv
    <2>6. CASE ~(call.op = "app" /\ Flight)
      <3>1. Return("SUCCESS") /\ app' = AppWritten
        BY <1>3, <2>6 DEF Wrote
      <3>2. call'.pc = "idle" /\ last'.op = call.op
        BY <3>1, Parts, ReturnFacts
      <3>3. call.op = "app" => app'.next - 1 = d
        BY <2>3, <3>1 DEF AppWritten
      <3>4. QED
        BY <2>2, <2>4, <3>2, <3>3 DEF SentInv
    <2>7. QED
      BY <2>5, <2>6
  <1>4. QED
    BY <1>1, <1>2, <1>3

\* Over datagrams outBuf is the whole of its record.
LEMMA GramBytes ==
  ASSUME IInv, PartInv, Datagram, call.pc = "write"
  PROVE  /\ OutBuf \in Seq(Byte) /\ In = OutBuf /\ call.done = 0
         /\ \A i \in 1..built[rec.num].len : <<rec.num, i>> \in BytesIn(OutBuf)
  <1>1. rec.num # 0 /\ rec.start = 0
    BY Parts DEF OutInv, PartInv, GramInv
  <1>2. PICK b : b = Bytes(rec.num)
    OBVIOUS
  <1>3. /\ b \in Seq(Byte) /\ Len(b) = built[rec.num].len
        /\ \A i \in 1..Len(b) : b[i] = <<rec.num, i>>
        /\ OutBuf = Rest(b, 0)
    BY <1>1, <1>2, Parts, OutRest
  <1>4. OutBuf = b
    <2>1. Rest(b, 0) = b
      BY <1>3, LenProperties, RestFacts
    <2>2. QED
      BY <1>3, <2>1
  <1>5. DOMAIN b = 1..Len(b)
    BY <1>3, LenProperties
  <1>6. \A i \in 1..built[rec.num].len : <<rec.num, i>> \in BytesIn(b)
    BY <1>3, <1>5 DEF BytesIn
  <1>7. QED
    BY <1>4, <1>6, GramOut

\* A datagram that the transport takes is out.
LEMMA GramTaken ==
  ASSUME TypeInv, Datagram, NEW b \in Seq(Byte), NEW k, Transport(b, k)
  PROVE  /\ k = 0 \/ (k = Len(b) /\ BytesIn(b) \subseteq WireBytes(wire'))
         /\ WireBytes(wire) \subseteq WireBytes(wire')
  <1>1. \/ k = 0 /\ wire' = wire
        \/ k = Len(b) /\ wire' = Append(wire, b)
    BY FlatTransport
  <1>2. wire \in Seq(Seq(Byte))
    BY DEF TypeInv
  <1>3. QED
    BY <1>1, <1>2, WireBytesAppend

\* A round of the flush takes nothing back.
LEMMA FlushHeld ==
  ASSUME IInv, Datagram, NEW k, Transport(bUio.bytes, k), bUio' = Flushed(k)
  PROVE  Held \subseteq Held'
  <1>1. PICK b : b = bUio.bytes /\ b \in Seq(Byte)
    BY Parts
  <1>2. /\ k = 0 \/ (k = Len(b) /\ BytesIn(b) \subseteq WireBytes(wire'))
        /\ WireBytes(wire) \subseteq WireBytes(wire')
    BY <1>1, Parts, GramTaken
  <1>3. k = 0 => bUio'.bytes = b
    <2>1. k \in Nat /\ k <= Len(b)
      BY <1>1, Parts, TransportFacts
    <2>2. bUio'.bytes = Rest(b, k)
      BY <1>1, <2>1, Parts, FlushedRest
    <2>3. k = 0 => Rest(b, k) = b
      BY <1>1, <2>1, RestFacts
    <2>4. QED
      BY <2>2, <2>3
  <1>4. QED
    BY <1>1, <1>2, <1>3 DEF Held

\* Calls begin.
LEMMA BeginSent ==
  ASSUME IInv, SentInv, UNCHANGED link, NEW op, NEW pc, Begin(op, pc), disturbed \subseteq disturbed', app'.next = app.next,
         pc \in {"record", "write", "flush"}, pc # "record" => op # "app"
  PROVE  SentInv'
  BY DEF Begin, SentInv, AppRecord

\* The calls that only begin or set up something.
LEMMA CallSent ==
  ASSUME IInv, SentInv, UNCHANGED link, HsInit \/ AppWrite \/ HsSend \/ HsDone \/ OutBufFlush
  PROVE  SentInv'
  <1>1. CASE HsInit
    <2>1. bUio' = [bUio EXCEPT !.on = Flight] /\ UNCHANGED <<rec, built, wire, app, call, last, disturbed>>
      BY <1>1 DEF HsInit
    <2>2. bUio'.bytes = bUio.bytes
      BY <2>1, Parts DEF BufferUio
    <2>3. Held' = Held
      BY <2>1, <2>2 DEF Held
    <2>4. QED
      BY <2>1, <2>3, SentQuiet
  <1>2. CASE AppWrite
    <2>1. app'.next = app.next
      BY <1>2, Parts DEF AppWrite
    <2>2. QED
      BY <1>2, <2>1, BeginSent DEF AppWrite
  <1>3. CASE HsSend \/ HsDone
    BY <1>3, BeginSent DEF HsSend, HsDone
  <1>4. CASE OutBufFlush
    BY <1>4, BeginSent, DisturbedFacts DEF OutBufFlush
  <1>5. QED
    BY <1>1, <1>2, <1>3, <1>4

\* The buffer UIO of DTLS is dropped between calls or emptied in one.
LEMMA EmptiedSent ==
  ASSUME IInv, SentInv, UNCHANGED link, DtlsDeInit \/ ChangeBufferSize
  PROVE  SentInv'
  <1>1. CASE DtlsDeInit
    <2>1. call.pc = "idle" /\ UNCHANGED <<rec, built, wire, app, call, last, disturbed>>
      BY <1>1 DEF DtlsDeInit
    <2>2. last.op = "app" /\ last.ret = "SUCCESS" => bUio.bytes = <<>>
      BY <2>1, Parts DEF FlightInv, NothingLeft
    <2>3. last.op = "app" /\ last.ret = "SUCCESS" => Held \subseteq Held'
      BY <2>1, <2>2, BytesInEmpty DEF Held
    <2>4. PICK e : e = app.next - 1 /\ e = app'.next - 1
      BY <2>1
    <2>5. last.op = "app" /\ last.ret = "SUCCESS" => Told(e)'
      BY <2>1, <2>3, <2>4, ToldKept DEF SentInv
    <2>6. QED
      BY <2>1, <2>4, <2>5 DEF SentInv, AppRecord
  <1>2. CASE ChangeBufferSize
    <2>1. /\ call.pc # "idle" /\ (call.pc = "flush" /\ call.op = "app" => app.next \in disturbed')
          /\ disturbed \subseteq disturbed' /\ UNCHANGED <<rec, built, app, call, last>>
      BY <1>2 DEF ChangeBufferSize
    <2>2. QED
      BY <2>1, SentQuiet
  <1>3. QED
    BY <1>1, <1>2

\* A record is built in the empty outBuf.
LEMMA BuildSent ==
  ASSUME IInv, SentInv, UNCHANGED app, NEW op, op = call.op, Build(op), call' = [call EXCEPT !.pc = "write"]
  PROVE  SentInv'
  <1>1. PICK len \in Sizes : /\ built' = Append(built, [type |-> op, data |-> IF op = "app" THEN app.next ELSE 0, len |-> len, seq |-> rec.seq])
                             /\ rec' = [rec EXCEPT !.num = Len(built) + 1, !.start = 0, !.isWrapped = ~Datagram /\ rec.seq = MaxSeq]
    BY DEF Build
  <1> DEFINE n == Len(built) + 1
             r == [type |-> op, data |-> IF op = "app" THEN app.next ELSE 0, len |-> len, seq |-> rec.seq]
             w == ~Datagram /\ rec.seq = MaxSeq
  <1>2. built' = Append(built, r) /\ rec' = [rec EXCEPT !.num = n, !.start = 0, !.isWrapped = w]
    BY <1>1
  <1>3. r.type = op /\ (op = "app" => r.data = app.next)
    OBVIOUS
  <1> HIDE DEF r, w
  <1>4. rec'.num = n
    BY <1>2, Parts DEF WriteState
  <1>5. built'[n] = r
    <2>1. built \in Seq(Record)
      BY Parts DEF TypeInv
    <2>2. QED
      BY <1>2, <2>1
  <1> HIDE DEF n
  <1>6. call'.pc = "write" /\ call'.op = op
    BY Parts DEF Calls
  <1>7. QED
    BY <1>3, <1>4, <1>5, <1>6 DEF SentInv, AppRecord

\* TlsRecordWrite, whose record may be that of another call, and DtlsRecordWrite.
LEMMA RecordSent ==
  ASSUME IInv, SentInv, UNCHANGED link, TlsRecordWrite \/ DtlsRecordWrite
  PROVE  SentInv'
  <1>1. UNCHANGED app /\ call.pc = "record"
    BY DEF TlsRecordWrite, DtlsRecordWrite
  <1>2. CASE Return("ERR_SN_WRAPPING") /\ UNCHANGED <<rec, built, disturbed>>
    <2>1. call'.pc = "idle" /\ last'.ret = "ERR_SN_WRAPPING"
      BY <1>2, Parts, ReturnFacts
    <2>2. QED
      BY <1>1, <1>2, <2>1, SentOpen
  <1>3. CASE Build(call.op) /\ call' = [call EXCEPT !.pc = "write"]
    BY <1>1, <1>3, BuildSent
  <1>4. CASE TlsRecordWrite /\ ~rec.isWrapped /\ OutBuf # <<>>
    <2> DEFINE w == rec.seq = MaxSeq
    <2>1. /\ call' = [call EXCEPT !.pc = "write"] /\ rec' = [rec EXCEPT !.isWrapped = w]
          /\ UNCHANGED built /\ disturbed' = Disturbed(call.op)
      BY <1>4 DEF TlsRecordWrite
    <2> HIDE DEF w
    <2>2. call'.pc = "write" /\ call'.op = call.op /\ rec'.num = rec.num
      BY <2>1, Parts DEF Calls, WriteState
    <2>3. rec.num # 0 /\ built[rec.num].type \in {"app", "hs"}
      <3>1. rec.num # 0
        BY <1>4, Parts, OutBufFacts
      <3>2. rec.num \in 1..Len(built) /\ built \in Seq(Record)
        BY <3>1, Parts, LenProperties DEF OutInv, TypeInv, WriteState
      <3>3. built[rec.num] \in Record
        BY <3>2, ElementOfSeq
      <3>4. QED
        BY <3>1, <3>3 DEF Record
    <2>4. call.op = "app" => app.next \in disturbed' \/ AppRecord(rec.num)
      BY <2>1, <2>3 DEF Disturbed, InOut, AppRecord
    <2>5. QED
      BY <1>1, <2>1, <2>2, <2>4 DEF SentInv, AppRecord
  <1>5. QED
    BY <1>2, <1>3, <1>4 DEF TlsRecordWrite, DtlsRecordWrite

\* BSL_UIO_Write without the buffer.
LEMMA TransportSent ==
  ASSUME IInv, PartInv, SentInv, UNCHANGED link, TransportWrite
  PROVE  SentInv'
  <1>1. PICK k : Transport(OutBuf, k) /\ Wrote(k)
    BY DEF TransportWrite
  <1>2. call.pc = "write" /\ UNCHANGED <<built, disturbed>>
    BY DEF TransportWrite
  <1>3. OutBuf \in Seq(Byte) /\ Len(OutBuf) \in Nat
    BY Parts, OutBufFacts
  <1>4. k \in Nat
    BY <1>1, <1>3, Parts, TransportFacts
  <1>5. Datagram /\ k # 0 => \A i \in 1..built[rec.num].len : <<rec.num, i>> \in Held'
    <2>1. SUFFICES ASSUME Datagram, k # 0
                   PROVE  \A i \in 1..built[rec.num].len : <<rec.num, i>> \in Held'
      OBVIOUS
    <2>2. \A i \in 1..built[rec.num].len : <<rec.num, i>> \in BytesIn(OutBuf)
      BY <1>2, <2>1, GramBytes
    <2>3. BytesIn(OutBuf) \subseteq WireBytes(wire')
      BY <1>1, <1>3, <2>1, Parts, GramTaken
    <2>4. QED
      BY <2>2, <2>3 DEF Held
  <1>6. QED
    BY <1>1, <1>2, <1>4, <1>5, WroteSent

\* BufferWrite: there is room.
LEMMA CachedSent ==
  ASSUME IInv, PartInv, SentInv, UNCHANGED link, BufferCache
  PROVE  SentInv'
  <1> DEFINE b == bUio.bytes \o In
  <1>1. call.pc = "write" /\ bUio' = [bUio EXCEPT !.bytes = b] /\ Wrote(Len(OutBuf)) /\ UNCHANGED <<built, disturbed>>
    BY DEF BufferCache
  <1>2. BytesIn(In) \subseteq BytesIn(b)
    BY Parts, InFacts, BytesInCat
  <1> HIDE DEF b
  <1>3. bUio'.bytes = b
    BY <1>1, Parts DEF BufferUio
  <1>4. Datagram => \A i \in 1..built[rec.num].len : <<rec.num, i>> \in Held'
    BY <1>1, <1>2, <1>3, GramBytes DEF Held
  <1>5. Len(OutBuf) \in Nat
    BY Parts, OutBufFacts
  <1>6. QED
    BY <1>1, <1>4, <1>5, WroteSent

\* BufferWrite makes room.
LEMMA MakeRoomSent ==
  ASSUME IInv, PartInv, SentInv, UNCHANGED link, BufferMakeRoom
  PROVE  SentInv'
  <1>1. PICK k : /\ Transport(bUio.bytes, k) /\ bUio' = Flushed(k)
                 /\ IF k = 0 THEN Wrote(call.done) ELSE UNCHANGED <<rec, app, call, last>>
    BY DEF BufferMakeRoom
  <1>2. call.pc = "write" /\ UNCHANGED <<built, disturbed>>
    BY DEF BufferMakeRoom
  <1>3. CASE k = 0
    <2>1. Wrote(call.done)
      BY <1>1, <1>3
    <2>2. call.done \in Nat /\ (Datagram => call.done = 0)
      BY <1>2, Parts, GramBytes DEF Calls
    <2>3. QED
      BY <1>2, <2>1, <2>2, WroteSent
  <1>4. CASE k # 0
    <2>1. UNCHANGED <<rec, app, call, last>>
      BY <1>1, <1>4
    <2>2. QED
      BY <1>2, <2>1, SentOpen
  <1>5. QED
    BY <1>3, <1>4

\* BufferWrite: straight to the transport.
LEMMA DirectSent ==
  ASSUME IInv, PartInv, SentInv, UNCHANGED link, BufferDirect
  PROVE  SentInv'
  <1>1. call.pc = "write" /\ UNCHANGED <<built, disturbed>>
    BY DEF BufferDirect
  <1>2. CASE Len(In) < OutSize
    <2>1. UNCHANGED <<rec, wire, app, call, last, busy>>
      BY <1>2 DEF BufferDirect
    <2>2. QED
      BY <1>1, <2>1, SentOpen
  <1>3. CASE ~(Len(In) < OutSize)
    <2>1. PICK k : /\ Transport(In, k)
                   /\ IF k = 0 \/ k = Len(In) THEN Wrote(call.done + k)
                      ELSE call' = [call EXCEPT !.done = @ + k] /\ UNCHANGED <<rec, app, last>>
      BY <1>3 DEF BufferDirect
    <2>2. In \in Seq(Byte) /\ Len(In) \in Nat
      BY Parts, InFacts
    <2>3. k \in Nat
      BY <2>1, <2>2, Parts, TransportFacts
    <2>4. call.done \in Nat /\ call.done + k \in Nat /\ (Datagram => In = OutBuf /\ call.done = 0)
      BY <1>1, <2>3, Parts, GramBytes DEF Calls
    <2>5. CASE k = 0 \/ k = Len(In)
      <3>1. Wrote(call.done + k)
        BY <2>1, <2>5
      <3>2. Datagram /\ k # 0 => \A i \in 1..built[rec.num].len : <<rec.num, i>> \in Held'
        <4>1. SUFFICES ASSUME Datagram, k # 0
                       PROVE  \A i \in 1..built[rec.num].len : <<rec.num, i>> \in Held'
          OBVIOUS
        <4>2. \A i \in 1..built[rec.num].len : <<rec.num, i>> \in BytesIn(In)
          BY <1>1, <4>1, GramBytes
        <4>3. BytesIn(In) \subseteq WireBytes(wire')
          BY <2>1, <2>2, <4>1, Parts, GramTaken
        <4>4. QED
          BY <4>2, <4>3 DEF Held
      <3>3. QED
        BY <1>1, <2>3, <2>4, <3>1, <3>2, WroteSent
    <2>6. CASE ~(k = 0 \/ k = Len(In))
      <3> DEFINE e == call.done + k
      <3>1. call' = [call EXCEPT !.done = e] /\ UNCHANGED <<rec, app, last>>
        BY <2>1, <2>6, Parts DEF Calls
      <3> HIDE DEF e
      <3>2. call'.pc = "write" /\ call'.op = call.op
        BY <1>1, <3>1, Parts DEF Calls
      <3>3. QED
        BY <1>1, <3>1, <3>2, SentOpen
    <2>7. QED
      BY <2>5, <2>6
  <1>4. QED
    BY <1>2, <1>3

\* BufferFlush.
LEMMA FlushSent ==
  ASSUME IInv, SentInv, UNCHANGED link, BufferFlush
  PROVE  SentInv'
  <1>1. PICK k : /\ Transport(bUio.bytes, k) /\ bUio' = Flushed(k)
                 /\ IF k = 0 THEN Return("IO_BUSY") ELSE UNCHANGED <<call, last>>
    BY DEF BufferFlush
  <1>2. UNCHANGED <<rec, built, app, disturbed>>
    BY DEF BufferFlush
  <1>3. CASE k = 0
    <2>1. call'.pc = "idle" /\ last'.ret = "IO_BUSY"
      BY <1>1, <1>3, Parts, ReturnFacts
    <2>2. QED
      BY <1>2, <2>1, SentOpen
  <1>4. CASE k # 0
    <2>1. UNCHANGED <<call, last>>
      BY <1>1, <1>4
    <2>2. Datagram => Held \subseteq Held'
      BY <1>1, FlushHeld
    <2>3. QED
      BY <1>2, <2>1, <2>2, SentQuiet
  <1>5. QED
    BY <1>3, <1>4

\* The flush is over.
LEMMA FlightDoneSent ==
  ASSUME IInv, SentInv, UNCHANGED link, FlightDone
  PROVE  SentInv'
  <1>1. call.pc = "flush" /\ Return("SUCCESS") /\ app' = AppWritten /\ UNCHANGED <<rec, built, wire, disturbed>>
    BY DEF FlightDone
  <1>2. call'.pc = "idle" /\ last'.op = call.op
    BY <1>1, Parts, ReturnFacts
  <1>3. app.next \in Nat /\ (call.op = "app" => app'.next - 1 = app.next) /\ (call.op # "app" => app'.next = app.next)
    BY <1>1, Parts DEF AppWritten
  <1>4. PICK d : d = app.next
    OBVIOUS
  <1>5. call.op = "app" => Told(d)'
    <2>1. Datagram => Held \subseteq Held'
      <3>1. SUFFICES ASSUME Datagram
                     PROVE  Held' = Held
        OBVIOUS
      <3>2. bUio' = bUio
        BY <3>1 DEF FlightDone
      <3>3. QED
        BY <1>1, <3>2 DEF Held
    <2>2. QED
      BY <1>1, <1>4, <2>1, ToldKept DEF SentInv
  <1>6. call.op = "app" => rec.num = 0
    BY <1>1, Parts DEF FlightInv
  <1>7. QED
    BY <1>1, <1>2, <1>3, <1>4, <1>5, <1>6 DEF SentInv, AppRecord

\* Every step keeps it.
LEMMA NextSent == IInv /\ PartInv /\ SentInv /\ [Next]_vars => SentInv'
  <1>1. SUFFICES ASSUME IInv, PartInv, SentInv, [Next]_vars
                 PROVE  SentInv'
    OBVIOUS
  <1>2. CASE UNCHANGED vars
    <2>1. UNCHANGED <<link, rec, built, bUio, wire, app, call, last, disturbed>>
      BY <1>2 DEF vars
    <2>2. Held' = Held
      BY <2>1 DEF Held
    <2>3. QED
      BY <1>1, <2>1, <2>2, SentQuiet
  <1>3. CASE Next
    <2>1. UNCHANGED link
      BY <1>3 DEF Next
    <2>2. CASE HsInit \/ AppWrite \/ HsSend \/ HsDone \/ OutBufFlush
      BY <1>1, <2>1, <2>2, CallSent
    <2>3. CASE DtlsDeInit \/ ChangeBufferSize
      BY <1>1, <2>1, <2>3, EmptiedSent
    <2>4. CASE Write
      BY <1>1, <2>1, <2>4, RecordSent, TransportSent, CachedSent, MakeRoomSent, DirectSent, FlushSent, FlightDoneSent DEF Write
    <2>5. QED
      BY <1>3, <2>2, <2>3, <2>4 DEF Next
  <1>4. QED
    BY <1>1, <1>2, <1>3

\* Over a stream every byte of a record is on the wire, in the buffer or in the rest of outBuf.
LEMMA StreamHas ==
  ASSUME IInv, PartInv, ~Datagram, NEW n \in 1..Len(built), NEW i \in 1..built[n].len
  PROVE  <<n, i>> \in WireBytes(wire) \cup BytesIn(bUio.bytes) \cup BytesIn(In)
  <1>0. PICK r, w : r = built /\ w = [m \in 1..Len(r) |-> BytesOf(r, m)]
    OBVIOUS
  <1>1. r \in Seq(Record) /\ Len(r) \in Nat
    BY <1>0, Parts, LenProperties DEF TypeInv
  <1>2. w \in Seq(Seq(Byte)) /\ DOMAIN w = 1..Len(r)
    <2>1. \A m \in 1..Len(r) : BytesOf(r, m) \in Seq(Byte)
      BY <1>1, BytesOfFacts
    <2>2. w \in [1..Len(r) -> Seq(Byte)]
      BY <1>0, <2>1
    <2>3. QED
      BY <1>1, <2>2, IsASeq
  <1>3. <<n, i>> \in WireBytes(w)
    <2>1. PICK b : b = BytesOf(r, n)
      OBVIOUS
    <2>2. b \in Seq(Byte) /\ Len(b) = r[n].len /\ \A j \in 1..Len(b) : b[j] = <<n, j>>
      BY <1>0, <1>1, <2>1, BytesOfFacts
    <2>3. i \in DOMAIN b /\ b[i] = <<n, i>>
      BY <1>0, <2>2, LenProperties
    <2>4. <<n, i>> \in BytesIn(b)
      BY <2>3 DEF BytesIn
    <2>5. n \in DOMAIN w /\ w[n] = b
      BY <1>0, <1>2, <2>1
    <2>6. QED
      BY <2>4, <2>5 DEF WireBytes
  <1>4. <<n, i>> \in BytesIn(AllBytes)
    <2>1. AllBytes = FlattenSeq(w)
      BY <1>0, AllOfIs DEF AllOf
    <2>2. QED
      BY <1>2, <1>3, <2>1, FlatHas
  <1>5. PICK f, b, c : /\ f = FlattenSeq(wire) /\ b = bUio.bytes /\ c = In
                       /\ f \in Seq(Byte) /\ b \in Seq(Byte) /\ c \in Seq(Byte)
    BY Parts, FlatType, InFacts
  <1>6. BytesIn(AllBytes) = BytesIn(f) \cup BytesIn(b) \cup BytesIn(c)
    <2>1. AllBytes = Cat(Cat(f, b), c)
      BY <1>5 DEF PartInv, StreamInv
    <2>2. Cat(f, b) \in Seq(Byte) /\ BytesIn(Cat(f, b)) = BytesIn(f) \cup BytesIn(b)
      BY <1>5, CatAssoc, BytesInCat DEF Cat
    <2>3. PICK g : g = Cat(f, b) /\ g \in Seq(Byte)
      BY <2>2
    <2>4. BytesIn(Cat(g, c)) = BytesIn(g) \cup BytesIn(c)
      <3>1. BytesIn(g \o c) = BytesIn(g) \cup BytesIn(c)
        BY <1>5, <2>3, BytesInCat
      <3>2. QED
        BY <3>1, Zenon DEF Cat
    <2>5. QED
      BY <2>1, <2>2, <2>3, <2>4
  <1>7. BytesIn(f) = WireBytes(wire)
    BY <1>5, Parts, FlatHas
  <1>8. QED
    BY <1>4, <1>5, <1>6, <1>7

\* The bytes of a record are on the wire.
LEMMA OnWireIs ==
  ASSUME NEW n, \A i \in 1..built[n].len : <<n, i>> \in WireBytes(wire)
  PROVE  OnWire(n)
  <1>1. ASSUME NEW i \in 1..built[n].len
        PROVE  \E d \in DOMAIN wire : \E j \in DOMAIN wire[d] : wire[d][j] = <<n, i>>
    <2>1. PICK x : x = <<n, i>>
      OBVIOUS
    <2>2. PICK d \in DOMAIN wire : x \in BytesIn(wire[d])
      BY <2>1 DEF WireBytes
    <2>3. PICK j \in DOMAIN wire[d] : x = wire[d][j]
      BY <2>2 DEF BytesIn
    <2>4. QED
      BY <2>1, <2>2, <2>3
  <1>2. QED
    BY <1>1 DEF OnWire

\* What the invariants say of a call that reports success.
LEMMA SuccessFollows ==
  ASSUME IInv, PartInv, SentInv
  PROVE  SuccessMeansSent
  <1>1. SUFFICES ASSUME last.ret = "SUCCESS", call.pc = "idle", last.op \in {"app", "done"}
                 PROVE  /\ bUio.bytes = <<>>
                        /\ ~Datagram => \A n \in 1..Len(built) : n # rec.num => OnWire(n)
                        /\ last.op = "app" =>
                             /\ OutBuf = <<>>
                             /\ \/ app.next - 1 \in disturbed
                                \/ \E n \in 1..Len(built) : built[n].type = "app" /\ built[n].data = app.next - 1 /\ OnWire(n)
    BY DEF SuccessMeansSent
  <1>2. bUio.bytes = <<>> /\ (last.op = "app" => rec.num = 0)
    BY <1>1, Parts DEF FlightInv, NothingLeft
  <1>3. BytesIn(bUio.bytes) = {}
    BY <1>2, BytesInEmpty
  <1>4. ASSUME ~Datagram, NEW n \in 1..Len(built), n # rec.num
        PROVE  OnWire(n)
    <2>1. ASSUME NEW i \in 1..built[n].len
          PROVE  <<n, i>> \in WireBytes(wire)
      <3>1. <<n, i>> \notin BytesIn(In)
        <4>1. PICK b : b = In /\ Nums(b) \subseteq {rec.num}
          BY Parts, InFacts
        <4>2. ASSUME NEW j \in DOMAIN b, b[j] = <<n, i>>
              PROVE  FALSE
          <5>1. b[j][1] = n
            BY <4>2
          <5>2. b[j][1] \in Nums(b)
            BY DEF Nums
          <5>3. QED
            BY <1>4, <4>1, <5>1, <5>2
        <4>3. QED
          BY <4>1, <4>2 DEF BytesIn
      <3>2. QED
        BY <1>3, <1>4, <3>1, StreamHas
    <2>2. QED
      BY <2>1, OnWireIs
  <1>5. last.op = "app" => OutBuf = <<>>
    BY <1>2, Parts, OutBufFacts
  <1>6. ASSUME last.op = "app", app.next - 1 \notin disturbed
        PROVE  \E n \in 1..Len(built) : built[n].type = "app" /\ built[n].data = app.next - 1 /\ OnWire(n)
    <2>1. PICK n \in 1..Len(built) : AppRecord(n) /\ built[n].data = app.next - 1 /\ Complete(n)
      BY <1>1, <1>6 DEF SentInv, Told, HasRecord
    <2>2. CASE Datagram
      <3>1. \A i \in 1..built[n].len : <<n, i>> \in WireBytes(wire)
        BY <1>3, <2>1, <2>2 DEF Complete, Held
      <3>2. OnWire(n)
        BY <3>1, OnWireIs
      <3>3. QED
        BY <2>1, <3>2 DEF AppRecord
    <2>3. CASE ~Datagram
      <3>1. n # rec.num
        BY <1>2, <1>6, Parts, LenProperties DEF TypeInv
      <3>2. OnWire(n)
        BY <1>4, <2>3, <3>1
      <3>3. QED
        BY <2>1, <3>2 DEF AppRecord
    <2>4. QED
      BY <2>2, <2>3
  <1>7. QED
    BY <1>2, <1>4, <1>5, <1>6

\* A write of application data that reports success (APP_Write, REC_FlightTransmit, BufferFlush) has left
\* nothing behind and a record with its data is on the wire as a whole, unless another call took its record
\* over or ChangeBufferSize dropped it; over a stream so is every record written before it, and at the end of
\* a handshake (HandshakeDone) the whole flight.
THEOREM SuccessMeansSentTheorem == Spec => []SuccessMeansSent
  <1>1. Init => PartInv /\ SentInv
    <2>1. Init => SentInv
      BY DEF Init, SentInv, Idle
    <2>2. QED
      BY <2>1, InitPart
  <1>2. IInv /\ PartInv /\ SentInv /\ [Next]_vars => PartInv' /\ SentInv'
    BY NextPart, NextSent
  <1>3. IInv /\ PartInv /\ SentInv => SuccessMeansSent
    BY SuccessFollows
  <1>4. QED
    BY <1>1, <1>2, <1>3, InvAlways, PTL DEF Spec
=============================================================================
