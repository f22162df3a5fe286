---------------------------- MODULE MCDotenvMerge ----------------------------
(* Documents of up to three lines over two keys and two texts. *)
EXTENDS DotenvMerge

OneLiners == {Comment} \cup {Line(k, <<t>>, FALSE) : k \in Keys, t \in Texts}
Fragments == OneLiners \cup {Line(k, <<t>>, TRUE) : k \in Keys \cup {None}, t \in Texts}

Documents(lines, n) == UNION {[1..m -> lines] : m \in 0..n}

MultiLine == Documents(Fragments, 3)
Payloads == Documents(OneLiners, 2)
=============================================================================
