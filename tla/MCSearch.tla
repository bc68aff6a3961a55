------------------------------ MODULE MCSearch ------------------------------
(* Instances of Search for TLC. *)
EXTENDS Search

Leaf(kind, attr, value) == [kind |-> kind, attr |-> attr, value |-> value]
MCEntry(path, m, n, column, member) ==
  [path |-> path, attrs |-> [a \in Attrs |-> IF a = "sn" THEN m ELSE n],
   column |-> column, member |-> member]

\* A tree of five entries: with one value, several or none of each attribute.
MCEntries ==
  <<MCEntry(<<"ou">>, {}, {}, Null, "none"),
    MCEntry(<<"ou", "a">>, {1}, {}, 1, "user"),
    MCEntry(<<"ou", "b">>, {1, 2}, {1}, Null, "group"),
    MCEntry(<<"ou", "a", "c">>, {}, {2}, 2, "none"),
    MCEntry(<<"ou", "c">>, {2}, {1, 2}, 1, "user")>>

MCItems ==
  {Leaf("equal", a, v) : a \in Attrs, v \in Values}
  \cup {Leaf("present", a, 1) : a \in Attrs}
  \cup {Leaf("column", "sn", 1), Leaf("columnAtLeast", "sn", 2),
        Leaf("columnPresent", "sn", 1), Leaf("member", "sn", 1)}
MCOthers ==
  {Leaf("atLeast", "sn", 2), Leaf("columnDiffers", "sn", 1), Leaf("notMember", "sn", 1)}
MCNested(left, right) ==
  {[kind |-> k, left |-> f, right |-> g] : k \in {"and", "or"}, f \in left, g \in right}
MCInner ==
  {Leaf("equal", "sn", 1), Leaf("equal", "title", 2), Leaf("present", "title", 1)}
MCInnerPairs == MCNested(MCInner, MCInner)
MCDeep == MCNested({Leaf("present", "sn", 1), Leaf("equal", "sn", 2)}, MCInnerPairs)
MCFilters ==
  MCItems \cup MCOthers \cup MCNested(MCItems, MCItems)
  \cup {[kind |-> "not", arg |-> f] : f \in MCItems}
  \cup MCDeep

MCUncastable ==
  {Leaf("memberAtLeast", "sn", 1)}
  \cup MCNested({Leaf("equal", "sn", 1)}, {Leaf("memberAtLeast", "sn", 1)})

MCQuery(f, base, scope, size, paged) ==
  [filter |-> f, base |-> base, scope |-> scope, size |-> size, paged |-> paged,
   user |-> TRUE]
MCQueries ==
  {MCQuery(f, <<"ou">>, "subtree", 1, FALSE) : f \in MCFilters}
  \cup {MCQuery(Leaf("member", "sn", 1), base, scope, 1, FALSE) :
          base \in {<<>>, <<"dc">>, <<"ou">>, <<"ou", "a">>, <<"c">>}, scope \in Scopes}
  \cup {MCQuery(f, <<"ou">>, "subtree", size, TRUE) :
          f \in {Leaf("present", "sn", 1), Leaf("notMember", "sn", 1),
                 [kind |-> "or", left |-> Leaf("equal", "sn", 1),
                  right |-> Leaf("equal", "title", 2)]},
          size \in {0, 1, 2}}
  \cup {[MCQuery(Leaf("present", "sn", 1), base, "base", 1, FALSE) EXCEPT !.user = FALSE] :
          base \in {<<>>, <<"ou">>}}
  \cup {MCQuery(f, <<"ou">>, "subtree", 1, FALSE) : f \in MCUncastable}
\* The filters of the queries with those within them.
MCAllFilters == MCFilters \cup MCInnerPairs \cup MCUncastable
MCDepth ==
  [f \in MCAllFilters |->
     IF f.kind \in ItemKinds THEN 0 ELSE IF f \in MCDeep THEN 2 ELSE 1]

MCRoot == <<"dc">>
=============================================================================
