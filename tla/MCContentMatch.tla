--------------------------- MODULE MCContentMatch ---------------------------
(***************************************************************************)
(* Bounded inputs for ContentMatch: an alphabet of two letters, one of     *)
(* them in both cases, payloads of up to four bytes, up to three contents. *)
(***************************************************************************)
EXTENDS ContentMatch

LowerAB == [x \in {"a", "A", "b"} |-> IF x = "A" THEN "a" ELSE x]

BoundedPayloads == UNION {[1..n -> {"a", "A", "b"}] : n \in 0..2} \cup UNION {[1..n -> {"a", "b"}] : n \in 3..4}

Pattern(p, nocase) ==
  [pattern |-> p, nocase |-> nocase, offset |-> None, depth |-> None,
   distance |-> None, within |-> None]

Absolute(p, offset, depth) == [Pattern(p, FALSE) EXCEPT !.offset = offset, !.depth = depth]
Relative(p, distance, within) == [Pattern(p, FALSE) EXCEPT !.distance = distance, !.within = within]

FirstContents ==
  {Pattern(<<"a">>, TRUE), Pattern(<<"a">>, FALSE), Pattern(<<"a", "a">>, FALSE),
   Absolute(<<"b">>, 1, 2), Relative(<<"b">>, 1, 2)}

SecondContents ==
  {Pattern(<<"b">>, FALSE), Absolute(<<"b", "a">>, 0, 3), Absolute(<<"A">>, 1, None),
   Relative(<<"a">>, 0, 1), Relative(<<"b">>, -2, None), Relative(<<"b", "a">>, None, 2)}

ThirdContents ==
  {Absolute(<<"b">>, 2, 1), Relative(<<"b">>, -1, 1), Relative(<<"a">>, 1, None)}

BoundedLists ==
  {<<>>} \cup {<<x>> : x \in FirstContents}
  \cup {<<x, y>> : x \in FirstContents, y \in SecondContents}
  \cup {<<x, y, z>> : x \in FirstContents, y \in SecondContents, z \in ThirdContents}
=============================================================================
