---------------------------- MODULE MCHttpServer ----------------------------
(* The paths for TLC: those of the routes, below them, and beside them.    *)
EXTENDS HttpServer

MCPathParts == {"/", "_ah/", "_ah", "debug", "warmup", "health", "stream", "rpc/", "x"}

MCPaths ==
  { <<"/", "_ah/", "debug">>, <<"/", "_ah/", "debug", "/">>, <<"/", "_ah/", "debug", "/", "x">>,
    <<"/", "_ah/", "warmup">>, <<"/", "_ah/", "health">>, <<"/", "stream">>,
    <<"/", "rpc/", "x">>, <<"/", "rpc/">>, <<"/">>, <<"/", "x">>, <<"/", "_ah/">>,
    <<"/", "_ah/", "x">>, <<"/", "_ah", "warmup">> }
=============================================================================
