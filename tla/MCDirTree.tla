------------------------------- MODULE MCDirTree -------------------------------
(* Two processes in a working directory w, with names and dots to put        *)
(* together, and three trees to begin with.                                  *)
EXTENDS DirTree

W == <<"w">>
SomeTrees ==
  {[dirs |-> {<< >>, W}, files |-> {}],
   [dirs |-> {<< >>, W, W \o <<"a">>, W \o <<"b">>, W \o <<"a", "b">>},
    files |-> {W \o <<"a", "c">>, W \o <<"a", "b", "c">>, W \o <<"b", "c">>}],
   [dirs |-> {<< >>, W, <<"d">>, W \o <<"b">>, <<"d", "b">>},
    files |-> {W \o <<"a">>, <<"d", "b", "c">>}]}

SomeParts ==
  {<<"a">>, <<"b", "/">>, <<"a", "/", "b">>, <<"/", "d">>, <<"/", "d", "/", "b">>,
   <<"a", "/", ".", ".", "/", ".", "/", "b">>, <<".", ".", "/", "b">>, <<".", ".">>}

AnyProcess == Permutations(Procs)
===============================================================================
