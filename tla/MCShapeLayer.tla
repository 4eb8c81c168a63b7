---------------------------- MODULE MCShapeLayer ----------------------------
(* Small layers: arcs of one, two and three vertices, polygons with a hole    *)
(* and an island, points and multipoints with measures, and a patch.          *)
EXTENDS ShapeLayer

\* A rectangle from its lower left corner, up first or right first.
Up(a, b)    == [x |-> <<a, a, b, b, a>>, y |-> <<a, b, b, a, a>>]
Right(a, b) == [x |-> <<a, b, b, a, a>>, y |-> <<a, a, b, b, a>>]
Count(n)    == [i \in 1 .. n |-> i]
Rings(t, rs) ==
  LET xs == FlattenSeq([i \in DOMAIN rs |-> rs[i].x])
  IN  SHPCreateObject(t, [i \in DOMAIN rs |-> 5 * (i - 1)], xs, FlattenSeq([i \in DOMAIN rs |-> rs[i].y]),
                      Count(Len(xs)), Count(Len(xs)))
Line(t, starts, x, y) == SHPCreateObject(t, starts, x, y, Count(Len(x)), Count(Len(x)))

MCShapes == [t \in {ARC, POLYGON, POLYGONZ, POINTZ, MULTIPOINTM, MULTIPATCH} |->
  CASE t = ARC -> {NullShape, Line(t, <<0>>, <<3, 0, 4>>, <<0, 2, 1>>),
                   Line(t, <<0, 2>>, <<1, 5, 3, 2>>, <<0, 7, 0, 0>>)}
    [] t = POLYGON -> {Rings(t, <<Right(0, 3)>>), Rings(t, <<Right(1, 2), Up(0, 3)>>)}
    [] t = POLYGONZ -> {Rings(t, <<Right(0, 5), Up(1, 4), Right(2, 3)>>), Rings(t, <<Up(1, 2)>>)}
    [] t = POINTZ -> {NullShape, Line(t, <<>>, <<0>>, <<0>>), Line(t, <<>>, <<2>>, <<1>>)}
    [] t = MULTIPOINTM -> {Line(t, <<>>, <<2>>, <<6>>), Line(t, <<>>, <<0, 1>>, <<3, 0>>)}
    [] t = MULTIPATCH -> {NullShape, Line(t, <<0>>, <<0, 1>>, <<3, 0>>)}]

MCFields == {[kind |-> "N", w |-> 1], [kind |-> "L", w |-> 1]}

\* Constraint: what follows on a torn layer is left out.
WhileWhole == harm # "torn"
===============================================================================
