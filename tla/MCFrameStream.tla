--------------------------- MODULE MCFrameStream ---------------------------
(***************************************************************************)
(* Values of the constants of FrameStream.                                 *)
(***************************************************************************)
EXTENDS FrameStream

ByIndex(seq) == [i \in 0 .. Len(seq) - 1 |-> seq[i + 1]]

TwoWeights == ByIndex(<<2, 1>>)
EvenWeights == ByIndex(<<1, 1>>)
OneWeight == ByIndex(<<1>>)

\* Packets are numbered; the first is of one byte, the last of four.
Sizes == <<1, 3, 4>>
OneToThree == 1 .. 3
OneToTwo == 1 .. 2
TwoSizes == <<2, 3>>
ShortSizes == <<1, 3>>
=============================================================================
