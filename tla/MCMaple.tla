------------------------------ MODULE MCMaple -------------------------------
(***************************************************************************)
(* Two pairs on four tiles: the queues of data of both pairs are on tile   *)
(* 0, those of addresses on tile 3.  A load answered late is followed by   *)
(* a value that is there at once.                                          *)
(***************************************************************************)
EXTENDS DecoupleServer

MCThreads == 0 .. 2 * NumPairs - 1
MCScripts == {(0 :> <<"load", "data">> @@ 1 :> <<"ptr", "load">>),
              (0 :> <<"ptr">> @@ 1 :> <<"ptr", "ptr">>)}
MCDirtySets == {{}, {0}, Tiles}
=============================================================================
