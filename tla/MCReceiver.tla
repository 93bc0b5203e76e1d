------------------------------ MODULE MCReceiver ------------------------------
(* Instances of Receiver for TLC. *)
EXTENDS Receiver, MCConfigFiles

\* An interface with two addresses of one network, and one in another network.
TwoNets == "eth0" :> [prefix |-> <<"1">>,
                      addresses |-> {<<"1", ":", "5">>, <<"1", ":", "0">>, <<"2", ":", "5">>}]
NetContents == [f \in Files |-> CASE f = "addr" -> TwoNets [] f = "route" -> Routes
                                     [] f = "ngh" -> Nothing]

NoInterfaces == {}

AllWhole == {[f \in Files |-> "whole"]}

\* routes.conf is not there, so that ensure_configs may create it.
MaybeNoRoutes == AllWhole \cup {[f \in Files |-> IF f = "route" THEN "missing" ELSE "whole"]}

EditCommands ==
  {Command("addr add", <<"~", ":", "7">>, <<>>, "eth0", 0),
   Command("addr delete", <<"1", ":", "5">>, <<>>, "eth0", 0),
   Command("addr delete", <<"2", ":", "5">>, <<>>, "eth0", 0),
   Command("route add", <<"~">>, <<"2", ":", "5">>, "eth0", 0),
   Command("route delete", Default, <<"2", ":", "5">>, "eth0", 1)}

PacketsOn(dev, nets, nodes, from) ==
  [dev : {dev}, net : nets, node : nodes, from : from, next : {"ping", "pong"},
   form : {"proper"}]

Improper == [dev : {"eth0"}, net : {<<"7">>}, node : {<<"5">>}, from : {<<"1">>},
             next : {"pong"}, form : {"short", "long"}]

\* To every network and node that the texts name, pings from network 1.
AnyPackets ==
  PacketsOn("eth0", {<<"1">>, <<"2">>}, {<<"5">>, <<"0">>, <<"7">>}, {<<"1">>})
    \cup Improper
=============================================================================
