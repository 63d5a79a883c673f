---------------------------- MODULE MCChainState ----------------------------
(***************************************************************************)
(* Two branches of two blocks, g - a - b and g - c - d; where the RPC      *)
(* thread takes part fewer blocks arrive.                                  *)
(***************************************************************************)
EXTENDS ChainState

Tree == {"g", "a", "b", "c", "d"}
SmallTree == Tree \ {"d"}
Below == [x \in Tree \ {"g"} |-> CASE x = "b" -> "a" [] x = "d" -> "c" [] OTHER -> "g"]
Path == [x \in Tree |-> CASE x = "g" -> {"g"} [] x \in {"a", "c"} -> {"g", x}
                          [] OTHER -> {"g", Below[x], x}]

MCParent == [x \in Block \ {"g"} |-> Below[x]]
MCAncestors == [x \in Block |-> Path[x]]
MCWork == [x \in Block |-> Cardinality(Path[x]) - 1]
MCAddress == [x \in Block |-> CASE x = "g" -> 1 [] x = "a" -> 4 [] x = "b" -> 3
                                [] x = "c" -> 2 [] OTHER -> 5]

World(bs, bad, cs, n) == [blocks |-> bs, bad |-> bad, calls |-> cs, queues |-> n]
AllWorlds ==
  {World({"a", "b", "c"}, {"b"}, {}, 1), World({"a", "b", "c", "d"}, {"d"}, {}, 2),
   World({"a", "c", "d"}, {"c"}, {}, 1),
   World({"a", "c"}, {}, {<<"invalidate", "a">>, <<"reconsider", "a">>}, 1),
   World({"a", "c"}, {}, {<<"precious", "a">>, <<"precious", "c">>}, 1)}
Invalidated == {World({"a", "b", "c"}, {}, {<<"invalidate", "a">>}, 1)}
HeaderReconsidered == {World({"a"}, {}, {<<"invalidate", "a">>, <<"reconsider", "b">>}, 1)}
=============================================================================
