---------------------------- MODULE MCDtlsFlight ----------------------------
(* Kinds of handshakes for the runs. *)
EXTENDS DtlsFlight

Kinds(resume, session) ==
  [resume : resume, session : session, ticket : BOOLEAN, cookie : BOOLEAN]
AllModes == Kinds({FALSE}, BOOLEAN) \cup Kinds({TRUE}, {TRUE})
OfferModes == Kinds(BOOLEAN, {TRUE})
=============================================================================
