---------------------------- MODULE MCConfigFiles ----------------------------
(* Instances of ConfigFiles for TLC. *)
EXTENDS ConfigFiles, TLC

TextTokens == {"~", ":", "1", "2", "5", "0", "7", "default", "none", "local"}
Nodes == {<<"5">>, <<"0">>, <<"7">>}
Interfaces == {"eth0", "eth1"}

Command(op, text, via, dev, number) ==
  [op |-> op, text |-> text, via |-> via, dev |-> dev, number |-> number]

\* addresses.conf has an address per interface, and one without a network.
Addresses == "eth0" :> [prefix |-> <<"1">>, addresses |-> {<<"1", ":", "5">>}]
          @@ "eth1" :> [prefix |-> NoPrefix, addresses |-> {<<"1", ":", "5">>, <<":", "5">>}]

Route(dest, via, dev, proto) ==
  [destination |-> dest, next_hop |-> via, dev |-> dev, proto |-> proto, priority |-> 0]

\* routes.conf has a connected route, and a default route of another protocol.
Routes == Route(<<"1">>, LocalHop, "eth0", "static") :> 1
       @@ Route(Default, <<"2", ":", "5">>, "eth1", "ospf") :> 1

Contents == [f \in Files |-> CASE f = "addr" -> Addresses [] f = "route" -> Routes
                                  [] f = "ngh" -> Nothing]
\* All files are there, static_ngh.conf or the addresses are not, or none is.
Existing == {[f \in Files |-> IF f \in gone THEN "missing" ELSE "whole"] :
               gone \in {{}, {"ngh"}, {"addr"}, Files}}

RouteCommands ==
  {Command("route add", <<"~">>, <<"2", ":", "5">>, "eth0", 0),
   Command("route add", Default, <<"2", ":", "5">>, "eth0", 1),
   Command("route delete", <<"1">>, <<"2", ":", "5">>, "eth0", 0),
   Command("route delete", Default, <<"2", ":", "5">>, "eth0", 1)}

\* One makes routes.conf longer, the other one shorter.
InsertAndRemove ==
  {Command("route add", <<"~">>, <<"2", ":", "5">>, "eth0", 0),
   Command("route delete", Default, <<"2", ":", "5">>, "eth1", 1)}

OtherCommands ==
  {Command("addr add", <<"~", ":", "0">>, <<>>, "eth0", 0),
   Command("addr add", <<"2", ":", "5">>, << <<"2">> >>, "eth1", 0),
   Command("addr delete", <<"1", ":", "5">>, <<>>, "eth0", 0),
   Command("neighbor add", <<>>, <<"5">>, "eth0", 5),
   Command("neighbor delete", <<>>, <<>>, "eth0", 5)}

\* Commands that find nothing to do, or are not accepted.
IdleCommands ==
  {Command("addr add", <<"~", ":", "0">>, <<>>, "eth1", 0),
   Command("addr delete", <<"1", ":", "5">>, <<>>, "eth2", 0),
   Command("neighbor add", <<>>, <<"5">>, "eth2", 5)}

AllCommands == RouteCommands \cup OtherCommands \cup IdleCommands
=============================================================================
