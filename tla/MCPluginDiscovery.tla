------------------------- MODULE MCPluginDiscovery -------------------------
(* Values for TLC.  "zz" stands for files without the prefix.               *)
EXTENDS PluginDiscovery

MCPath == <<"bin", "home">>
NameOrder == <<"", "foo", "foo bar", "help", "show", "show x", "zz">>
MCNames == Range(NameOrder)
MCInOrder(S) == SelectSeq(NameOrder, LAMBDA n : n \in S)
MCFirstWord(n) == CASE n = "foo bar" -> "foo" [] n = "show x" -> "show" [] OTHER -> n
MCUnprefixed == {"zz"}
MCBuiltins == <<"inspect", "show">>
MCImplicit == <<"help", "completion">>

Files(foo1, foo2, others) ==
  [bin  |-> [n \in MCNames |-> CASE n \in {"", "zz"} -> "exec" [] n = "foo" -> foo1
               [] n = "show" -> others [] OTHER -> "none"],
   home |-> [n \in MCNames |-> CASE n = "foo" -> foo2
               [] n \in {"foo bar", "help", "show x"} -> others [] OTHER -> "none"]]

(* foo is anything in both directories; plugins that are named show and help,  *)
(* or have two words for a name, may be there.                               *)
MCFiles == {Files(x, y, z) : x \in Kinds, y \in Kinds, z \in {"none", "exec"}}
(* One plugin, or none.                                                      *)
MCOneFile == {Files(x, "none", "none") : x \in {"none", "exec"}}
=============================================================================
