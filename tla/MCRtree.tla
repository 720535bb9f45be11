------------------------------- MODULE MCRtree -------------------------------
(***************************************************************************)
(* Instances of RtreeQueries.                                              *)
(***************************************************************************)
EXTENDS RtreeQueries

\* The place nearest to p of a line along an axis: p, clamped to the line.
MCProject(a, b, p) ==
  [x \in Axes |-> IF p[x] < Min({a[x], b[x]}) THEN Min({a[x], b[x]})
                  ELSE IF p[x] > Max({a[x], b[x]}) THEN Max({a[x], b[x]}) ELSE p[x]]

Square(x, y, w) == <<<<x, y>>, <<x + w, y>>, <<x + w, y + w>>, <<x, y + w>>>>

PlaceWith(x, y, w, tags, line) ==
  [box |-> <<<<x, x + w>>, <<y, y + w>>>>, at |-> <<x + w \div 2, y + w \div 2>>,
   tags |-> tags, line |-> line]
Place(x, y, w, tags) == PlaceWith(x, y, w, tags, <<>>)

\* A way around its box.
Way(x, y, w, tags) == PlaceWith(x, y, w, tags, Square(x, y, w))

\* A street of boxes one after the other with a longer one among them, and a block
\* of scattered boxes, some of which overlap; some objects have the feature, and some
\* have a boundary.
Street == [o \in 0..9 |-> Way(7 * o + ((o * o) % 5), 2 * o, IF o = 4 THEN 16 ELSE 4 + ((o * 3) % 5),
                              IF o % 3 = 0 THEN {"cafe"} ELSE {})]
Block  == [o \in 0..9 |->
             LET x == (o * 37) % 61  y == (o * 23) % 47  w == 4 + ((o * 5) % 9)
             IN  IF o % 2 = 0 THEN Place(x, y, w, {"cafe"}) ELSE Way(x, y, w, {})]

\* Boxes of one size on a grid, as the tests insert them.
Grid == [o \in 1..6 |-> Place(4 * o, 4 * (o % 2), 2, {})]
MCGrid  == {Grid}
MCEmpty == {<<>>}

MCMaps == {Street, Block}

\* Nothing, the IDs in order, in reverse, and mixed, up to a tree of three levels.
MCSaved ==
  {<<>>, <<0, 1, 2, 3, 4, 5, 6, 7, 8, 9>>, <<9, 8, 7, 6, 5, 4, 3, 2, 1, 0>>,
   <<0, 5, 1, 6, 2, 7, 3, 8, 4, 9>>, <<3, 8, 0, 6, 1, 9, 4, 2, 7, 5>>, <<1, 2, 3, 4, 5>>}

MCBoxes  == {<<<<a, a + 20>>, <<b, b + 20>>>> : a \in {0, 18, 40}, b \in {0, 17}}
MCPoints == {<<25, 13>>, <<60, 12>>}
=============================================================================
