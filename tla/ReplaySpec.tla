------------------------------ MODULE ReplaySpec ------------------------------
(***************************************************************************)
(* What the read side of a DTLS association promises its user: a record is *)
(* accepted at most once, only if the peer sent it, and only in the epoch  *)
(* that is current; the epoch moves forward one at a time and never past   *)
(* the peer's own write epoch.                                             *)
(***************************************************************************)
EXTENDS Naturals

CONSTANT Records      \* the record numbers [epoch, seq] a peer can produce
VARIABLES sent,       \* the records the peer has sent
          accepted,   \* the records accepted so far
          peerEpoch,  \* the epoch the peer writes in
          epoch       \* the epoch records are accepted in

Init == sent = {} /\ accepted = {} /\ peerEpoch = 0 /\ epoch = 0

PeerSends ==
  /\ \E r \in Records \ sent : sent' = sent \cup {r}
  /\ peerEpoch' \in {peerEpoch, peerEpoch + 1}
  /\ UNCHANGED <<accepted, epoch>>

Advance == epoch' = epoch + 1 /\ epoch' <= peerEpoch

Accepts ==
  /\ \E r \in sent \ accepted : r.epoch = epoch /\ accepted' = accepted \cup {r}
  /\ epoch' = epoch \/ Advance
  /\ UNCHANGED <<sent, peerEpoch>>

NextEpoch == Advance /\ UNCHANGED <<sent, accepted, peerEpoch>>

Next == PeerSends \/ Accepts \/ NextEpoch

Spec == Init /\ [][Next]_<<sent, accepted, peerEpoch, epoch>>
===============================================================================
