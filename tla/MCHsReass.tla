----------------------------- MODULE MCHsReass -----------------------------
(* Messages for the runs. *)
EXTENDS HsReass

Header(s, t, n) == [sequence |-> s, type |-> t, length |-> n]
\* A message of three bytes of bitmap in two lengths that contradict each
\* other, an empty one with its number, two messages that claim the next
\* number, and messages further ahead, one of them a Finished.
MCHeaders ==
  {Header(0, "client_hello", 21), Header(0, "client_hello", 24),
   Header(1, "client_hello", 3), Header(1, "server_hello_done", 0),
   Header(0, "hello_request", 0), Header(2, "finished", 3), Header(3, "certificate", 3)}
=============================================================================
