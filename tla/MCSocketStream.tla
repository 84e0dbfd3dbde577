--------------------------- MODULE MCSocketStream ---------------------------
(* The shortest body, and one whose frame takes several writes.            *)
EXTENDS SocketStream

BodyLengths == {1, 2}
=============================================================================
