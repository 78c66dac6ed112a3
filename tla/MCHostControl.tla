---------------------------- MODULE MCHostControl ----------------------------
(***************************************************************************)
(* Either the input of a session or the output of its children is used.    *)
(***************************************************************************)
EXTENDS HostControl

UsesMC == {{"write", "close", "signal", "setStdinWriter", "setKillFunction"},
           {"stdout", "exit", "setChildOutputHandlers", "requestSpawn"},
           {"unknown", "requestSpawn", "spawnControl"}}
=============================================================================
