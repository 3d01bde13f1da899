--------------------------- MODULE MCPipelineLogs ---------------------------
(* A small instance of PipelineLogs for TLC.                               *)
EXTENDS PipelineLogs, TLC

CONSTANTS step, error, web1, web2

(* Two requests in one worker process and one in another.                   *)
Processes == 1 :> web1 @@ 2 :> web1 @@ 3 :> web2
Bodies == {<<step, error>>, <<error, error>>}

(* The two requests of a process differ in nothing but their number; the   *)
(* one in the other process only searches.                                 *)
Arrivals == (pc[2] # "idle" => pc[1] # "idle") /\ batch[3] = <<>>
=============================================================================
