------------------------- MODULE MCExternalBoundary -------------------------
EXTENDS ExternalBoundary

F(id, enc, body) == [id |-> id, enc |-> enc, body |-> body]

(* The handshake, a keepalive, a frame of an id nobody knows, and a frame  *)
(* of each kind that goes wrong.                                           *)
MCFrames == {F("x1E", FALSE, "whole"), F("x19", FALSE, "whole"), F("x79", TRUE, "whole"),
             F("xFA", FALSE, "whole"), F("other", TRUE, "whole"),
             F("none", TRUE, "whole"), F("other", TRUE, "tampered"),
             F("other", FALSE, "malformed"), F("other", FALSE, "refused")}
=============================================================================
