----------------------------- MODULE MCSearchWords -----------------------------
(***************************************************************************)
(* Instances of SearchWords: words of a few letters, some of them within   *)
(* two edits of each other, one unlike all others, one next to a marker.   *)
(***************************************************************************)
EXTENDS SearchWords

ab    == <<"a", "b">>
abc   == <<"a", "b", "c">>
ac    == <<"a", "c">>
b     == <<"b">>
long  == <<"a", "b", "d", "d", "d">>
other == <<"x", "y", "z", "x">>
s     == <<"s">>

MCDocuments == {<<ab>>, <<ab, b, ab>>, <<long, b>>, <<abc, s>>}
MCQueries   == {<<ab>>, <<ac>>, <<other>>, <<ab, other>>, <<s>>, <<ac, abc>>}

Line(w, errors) == [word |-> w, errors |-> errors]

MCSpellErrors ==
  << Line(abc, << <<"a", "c", "b">>, <<"a", "c">> >>),
     Line(abc, << <<"a", "b", "b", "c">>, <<"b", "a", "c">>, <<"a", "b">> >>),
     Line(abc, << <<"a", "x", "c">> >>),
     Line(ab,  << <<"x", "a", "b">>, <<"a">> >>),
     Line(abc, << <<"b", "c">>, <<"a", "b", "c">> >>),
     Line(ab,  << <<"a", "b", "c">> >>),
     Line(abc, << <<"a", "b", "y">> >>),
     Line(ab,  << <<"b", "a">> >>),
     Line(abc, << <<"a", "c">> >>),
     Line(abc, << <<"a", "b">> >>),
     Line(b,   << <<"b", "b">>, <<"x">> >>) >>
=============================================================================
