--------------------------- MODULE MCSessionStream ---------------------------
(* SessionStream as it stands; the .cfg files give the bounds. *)
EXTENDS SessionStream
===============================================================================
