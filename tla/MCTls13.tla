------------------------------ MODULE MCTls13 ------------------------------
(* Instances of Tls13 for TLC. *)
EXTENDS Tls13

Both == {"PSK_ONLY", "PSK_WITH_DHE"}
Max(suspend, busy, update, pha, app) ==
  [suspend |-> suspend, busy |-> busy, update |-> update, pha |-> pha, app |-> app]

\* All handshakes, with and without a HelloRetryRequest; one write is busy.
HandshakeModes ==
  {m \in [share : BOOLEAN, psk : {"none", "unknown", "external", "ticket"},
          keModes : [client : {{"PSK_WITH_DHE"}, Both}, server : {{"PSK_ONLY"}, {"PSK_WITH_DHE"}, Both}],
          compat : [client : BOOLEAN, server : BOOLEAN], verify : BOOLEAN, noClientCert : BOOLEAN,
          pha : [client : BOOLEAN, server : BOOLEAN], cert : BOOLEAN, ticketNums : {0, 2},
          max : {Max(0, 1, 0, 0, 0)}] :
     /\ m.psk \in {"none", "unknown"} => m.keModes.server = Both /\ m.keModes.client = Both
     /\ ~m.verify => ~m.noClientCert /\ m.cert}

Base == [share |-> TRUE, psk |-> "none", keModes |-> [client |-> Both, server |-> Both],
         compat |-> [client |-> TRUE, server |-> TRUE], verify |-> TRUE, noClientCert |-> FALSE,
         pha |-> [client |-> TRUE, server |-> TRUE], cert |-> TRUE, ticketNums |-> 1,
         max |-> Max(1, 1, 2, 2, 1)]

\* Handshakes whose callbacks are suspended, also when a HelloRetryRequest is due.
SuspendModes ==
  {[m EXCEPT !.max = Max(2, 0, 0, 0, 0)] :
     m \in {n \in HandshakeModes : n.compat.client /\ n.compat.server /\ n.ticketNums = 0}}

\* What follows a handshake: calls of both applications that cross.
PostModes == {Base, [Base EXCEPT !.psk = "ticket"], [Base EXCEPT !.cert = FALSE],
              [Base EXCEPT !.cert = FALSE, !.noClientCert = TRUE, !.ticketNums = 0]}

MCModes == HandshakeModes \cup SuspendModes \cup PostModes
=============================================================================
