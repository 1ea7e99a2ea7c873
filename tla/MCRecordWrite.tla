--------------------------- MODULE MCRecordWrite ---------------------------
(* Connections for the run. *)
EXTENDS RecordWrite

Link(d, f, seq, records, s, b) ==
  [datagram |-> d, flight |-> f, maxSeq |-> seq, records |-> records, setups |-> s, busy |-> b]

\* A stream and datagrams through the buffer, both up to the last sequence number; a stream and
\* datagrams without it.
MCLinks == {Link(FALSE, TRUE, 2, 3, 1, 2), Link(TRUE, TRUE, 2, 4, 2, 2), Link(FALSE, FALSE, 10, 3, 0, 2), Link(TRUE, FALSE, 10, 4, 0, 2)}
=============================================================================
