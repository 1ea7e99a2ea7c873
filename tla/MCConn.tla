-------------------------------- MODULE MCConn --------------------------------
(* The configurations of Conn that the runs check. *)
EXTENDS Conn

Tls12(isClient, supportRenego, allowClientRenego) ==
  [isClient |-> isClient, isTls13 |-> FALSE, isQuietShutdown |-> FALSE, supportRenego |-> supportRenego,
   allowClientRenego |-> allowClientRenego, supportPha |-> FALSE, writeErrors |-> FALSE]

Tls13(isClient) ==
  [isClient |-> isClient, isTls13 |-> TRUE, isQuietShutdown |-> FALSE, supportRenego |-> FALSE,
   allowClientRenego |-> FALSE, supportPha |-> TRUE, writeErrors |-> FALSE]

\* No handshake message can follow the handshake.
NoRenegotiation == {Tls12(TRUE, FALSE, FALSE), Tls12(FALSE, FALSE, FALSE)}

\* Both ends of TLS 1.2, with and without renegotiation, and of TLS 1.3, and a
\* quiet client; records can always be built, or not.
Kinds == NoRenegotiation \cup {Tls12(TRUE, TRUE, FALSE), Tls12(FALSE, TRUE, FALSE), Tls12(FALSE, TRUE, TRUE)}
           \cup {Tls13(TRUE), Tls13(FALSE)} \cup {[Tls12(TRUE, TRUE, FALSE) EXCEPT !.isQuietShutdown = TRUE]}
AllConfigs == Kinds \cup {[k EXCEPT !.writeErrors = TRUE] : k \in Kinds}
===============================================================================
