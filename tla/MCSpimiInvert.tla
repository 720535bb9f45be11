---------------------------- MODULE MCSpimiInvert ----------------------------
(***************************************************************************)
(* Instances of SpimiInvert for TLC: two goroutines, the first with two    *)
(* documents (the first of two words), the second with one document of two *)
(* words; every choice of the words.                                       *)
(***************************************************************************)
EXTENDS SpimiInvert

CONSTANTS a, b, c

At(d, w) == [doc |-> d, word |-> w]

MCInputs ==
  {<< <<At(0, w[1]), At(0, w[2]), At(1, w[3])>>, <<At(2, w[4]), At(2, w[5])>> >> :
     w \in [1..5 -> {a, b, c}]}

=============================================================================
