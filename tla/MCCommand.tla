----------------------------- MODULE MCCommand -----------------------------
(* Small instances of Command for TLC.                                     *)
EXTENDS Command

MCElf == <<7>>
MCImage == <<[arg |-> <<"u", "s", "e", "r", "/", "_", "d", "d">>, data |-> <<MCElf>>]>>
MCData == [k \in 1 .. 5 |-> <<10 + k>>]
MCWrites == {[off |-> 0, n |-> 5, good |-> 5], [off |-> 1, n |-> 5, good |-> 4],
             [off |-> 1, n |-> 1, good |-> 1]}
MCPaths == {<<"/", "d">>, <<"/", "d", "/", "d">>, <<"d", "d">>}
MCKeys == {<<"d">>, <<" ">>, <<"/">>, <<";">>, <<"\n">>, <<"c", "d", " ">>,
           <<"d", "d", "\n">>, <<"/", "d", "d", "\n">>, <<"c", "d", " ", "d", "\n">>}
=============================================================================
