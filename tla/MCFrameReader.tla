--------------------------- MODULE MCFrameReader ---------------------------
(* Bytes of four values; texts, names and contents that are empty, short,  *)
(* or so long that their length takes two bytes, and the ports at the ends. *)
EXTENDS FrameReader

Long == [i \in 1..(Byte + 1) |-> i % Byte]
SomeTexts == {<<>>, <<0>>, <<3, 1>>, Long}
SomeNames == {<<2>>, Long}
SomeContents == {<<>>, <<0, 3>>, Long}
SomePorts == {0, Byte, Half - 1}
SomeLengths == {0, 3, Limit - 1}
=============================================================================
