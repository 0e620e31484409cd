---------------------------- MODULE MCPluginHost ----------------------------
(***************************************************************************)
(* Three modules, a command on any port that is free, a container and a    *)
(* server on configured ports, and two threads that use them.              *)
(***************************************************************************)
EXTENDS PluginHost, TLC

CONSTANTS cmd, box, srv, p2, p3, gin, api, web

\* One host of each kind, one host whose registrations and calls meet different
\* runtimes, and one on whose runtime every caller blocks.
MCHosts == {<<"trait", "workers">>, <<"grpc", "workers">>, <<"grpc", "none">>, <<"grpc", "here">>}

MCMode == cmd :> "command" @@ box :> "container" @@ srv :> "grpc"
MCConfigPort == cmd :> NoPort @@ box :> p2 @@ srv :> p3
MCRemoteId == cmd :> gin @@ box :> api @@ srv :> web
MCConfigId == cmd :> gin @@ box :> api @@ srv :> web
=============================================================================
