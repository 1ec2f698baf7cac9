--------------------------- MODULE MCWireProtocol ---------------------------
(***************************************************************************)
(* WireProtocol for TLC.  Clients and names are bytes above the characters *)
(* the protocol gives a meaning.  One text and the memory behind the names *)
(* look like op codes; the other text is a request to close the handle -5  *)
(* on session 0.                                                           *)
(***************************************************************************)
EXTENDS WireProtocol

MCTexts == {<<2, 2, 2, 2>>, <<4, 0, NUL, NUL, NUL, MINUS, 5, NUL, NUL>>}

MCStale == [b \in Letter |-> <<2>>]

\* Texts that fit an answer, and that are a byte longer.
MCWriteTexts == {<<2, 2, 2, 2>>, <<2, 2, 2, 2, 2>>}
=============================================================================
