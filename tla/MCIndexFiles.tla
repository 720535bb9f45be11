--------------------------- MODULE MCIndexFiles ----------------------------
(***************************************************************************)
(* Three runs over one directory: the second has more terms than the       *)
(* first, and its metadata does not fit the old size; the third has fewer. *)
(***************************************************************************)
EXTENDS IndexFiles

CONSTANTS a, b

MCVocabulary == <<<<a>>, <<b, a>>, <<b>>>>

=============================================================================
