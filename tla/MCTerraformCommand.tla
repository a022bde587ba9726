------------------------ MODULE MCTerraformCommand ------------------------
(***************************************************************************)
(* TLC instance of TerraformCommand: a child with one descendant.  The     *)
(* limit is one chunk per stream; stdout may exceed it and is pumped to    *)
(* the host, stderr stays empty but may fail to be read.                   *)
(***************************************************************************)
EXTENDS TerraformCommand

MCLimit     == [s \in Streams |-> 1]
MCMaxChunks == [s \in Streams |-> IF s = "out" THEN 2 ELSE 0]
MCSettings  == [pumps : {{"out"}}, timed : BOOLEAN]
=============================================================================
