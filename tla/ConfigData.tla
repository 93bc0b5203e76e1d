----------------------------- MODULE ConfigData -----------------------------
(***************************************************************************)
(* What the commands of nhipctl, and check_connected of the daemon, do to  *)
(* the contents of the three files in /etc/nhip, once they are loaded.     *)
(*                                                                         *)
(* Texts are sequences of tokens.  The order of entries is left out:       *)
(*   addr   a function from interfaces to a prefix and a set of addresses  *)
(*   route  a bag of routes                                                *)
(*   ngh    a bag of static neighbours (the map from local MACs to lists)  *)
(***************************************************************************)
EXTENDS Naturals, Sequences, FiniteSets

CONSTANTS Tokens,     \* of which texts are made
          Devs,       \* interfaces in /sys/class/net
          NodeTexts,  \* texts that parse_node_id accepts
          Commands    \* command lines of nhipctl

Texts == Seq(Tokens)
Default == <<"default">>
NoPrefix == <<"none">>
LocalHop == <<"local", ":", "0">>

Files == {"addr", "route", "ngh"}
Ops == {"addr add", "addr delete", "route add", "route delete",
        "neighbor add", "neighbor delete"}

\* number: the priority of a route or a NodeID; via: next hop, --prefix (a
\* sequence of at most one text) or MAC.
ASSUME CommandAssumption ==
  \A c \in Commands : /\ c.op \in Ops /\ DOMAIN c = {"op", "text", "via", "dev", "number"}
                      /\ c.text \in Texts
                      /\ c.op = "addr add" => c.via \in Seq(Texts)

TargetOf(c) == CASE c.op \in {"addr add", "addr delete"} -> "addr"
                 [] c.op \in {"route add", "route delete"} -> "route"
                 [] c.op \in {"neighbor add", "neighbor delete"} -> "ngh"

\* A file that ensure_configs creates.
Nothing == [x \in {} |-> x]

-----------------------------------------------------------------------------
(* expand_tilde *)

HasTilde(text) == text # <<>> /\ text[1] = "~"

Expands(text, dev, cfg) ==
  HasTilde(text) => dev \in DOMAIN cfg /\ cfg[dev].prefix \notin {NoPrefix, <<>>}

Expand(text, dev, cfg) == IF HasTilde(text) THEN cfg[dev].prefix \o Tail(text) ELSE text

\* split(':'): the text before the first colon, or all of it.
Netpart(text) ==
  LET colons == {k \in DOMAIN text : text[k] = ":"}
  IN IF colons = {} THEN text
     ELSE SubSeq(text, 1, (CHOOSE k \in colons : \A j \in colons : k <= j) - 1)

\* An address has two parts, and the second one is a NodeID.
IsAddress(text) ==
  \E k \in DOMAIN text : /\ {j \in DOMAIN text : text[j] = ":"} = {k}
                         /\ SubSeq(text, k + 1, Len(text)) \in NodeTexts

-----------------------------------------------------------------------------
(* What files hold *)

\* Every address has two parts, and the second one is a NodeID.
AddrContent(x) ==
  \A d \in DOMAIN x : /\ x[d] \in [prefix : Texts \cup {NoPrefix}, addresses : SUBSET Texts]
                      /\ \A a \in x[d].addresses : IsAddress(a)

\* Every entry of a bag occurs.
BagContent(x) == \A e \in DOMAIN x : x[e] \in Nat \ {0}

Content(f, x) == IF f = "addr" THEN AddrContent(x) ELSE BagContent(x)

-----------------------------------------------------------------------------
(* Bags of entries: how often each of them occurs *)

Plus(bag, e) ==
  [x \in DOMAIN bag \cup {e} |->
     IF x \in DOMAIN bag THEN (IF x = e THEN bag[x] + 1 ELSE bag[x]) ELSE 1]

Without(bag, S) == [x \in DOMAIN bag \ S |-> bag[x]]

\* The text of x has every entry of y, so that it is not shorter.
Covers(x, y) == \A e \in DOMAIN y : e \in DOMAIN x /\ y[e] <= x[e]

CoversAddr(x, y) == \A d \in DOMAIN y : /\ d \in DOMAIN x
                                       /\ x[d].prefix = y[d].prefix
                                       /\ y[d].addresses \subseteq x[d].addresses

-----------------------------------------------------------------------------
(* addr add, addr delete *)

AddAddress(c, cfg) ==
  LET dev == c.dev
      new == Expand(c.text, dev, cfg)
      prefix == IF c.via # <<>> THEN c.via[1]
                ELSE IF dev \in DOMAIN cfg THEN cfg[dev].prefix ELSE NoPrefix
      old == IF dev \in DOMAIN cfg THEN cfg[dev].addresses ELSE {}
  IN [d \in DOMAIN cfg \cup {dev} |->
        IF d = dev THEN [prefix |-> prefix, addresses |-> old \cup {new}] ELSE cfg[d]]

DeleteAddress(c, cfg) ==
  [cfg EXCEPT ![c.dev] = [prefix |-> @.prefix,
                          addresses |-> @.addresses \ {Expand(c.text, c.dev, cfg)}]]

-----------------------------------------------------------------------------
(* insert_route, remove_route *)

RouteOf(c, cfg) ==
  [destination |-> Expand(c.text, c.dev, cfg), next_hop |-> Expand(c.via, c.dev, cfg),
   dev |-> c.dev, proto |-> "static", priority |-> c.number]

\* A faulty variant: the destination is compared as it was typed.
Exists_Typed(c, cfg, routes) ==
  [RouteOf(c, cfg) EXCEPT !.destination = c.text] \in DOMAIN routes

Exists(c, cfg, routes) == RouteOf(c, cfg) \in DOMAIN routes

HasDestination(c, cfg, routes) ==
  \E r \in DOMAIN routes : r.destination = Expand(c.text, c.dev, cfg)

\* The routes that a deletion removes: to "default", all of them.
Named(c, cfg, routes) ==
  {r \in DOMAIN routes :
     IF Expand(c.text, c.dev, cfg) = Default THEN r.destination = Default
                                             ELSE r = RouteOf(c, cfg)}

-----------------------------------------------------------------------------
(* The commands: cfg is the loaded address file, old the loaded content of *)
(* the file that the command changes.                                      *)

NeighbourOf(c) == [dev |-> c.dev, node |-> c.number, mac |-> c.via]

\* The command ends with an error after it has loaded its files.
Refused(c, cfg) ==
  CASE c.op = "addr add" -> ~(/\ Expands(c.text, c.dev, cfg)
                              /\ IsAddress(Expand(c.text, c.dev, cfg)))
    [] c.op = "addr delete" -> ~Expands(c.text, c.dev, cfg)
    [] TargetOf(c) = "route" -> ~(Expands(c.text, c.dev, cfg) /\ Expands(c.via, c.dev, cfg))
    [] TargetOf(c) = "ngh" -> c.dev \notin Devs

\* The command ends without writing.
Leaves(c, cfg, old) ==
  CASE c.op = "addr delete" -> c.dev \notin DOMAIN cfg
    [] c.op = "route add" -> Exists(c, cfg, old)
    [] c.op = "route delete" -> ~HasDestination(c, cfg, old)
    [] OTHER -> FALSE

\* What it writes otherwise.
Changed(c, cfg, old) ==
  CASE c.op = "addr add" -> AddAddress(c, cfg)
    [] c.op = "addr delete" -> DeleteAddress(c, cfg)
    [] c.op = "route add" -> Plus(old, RouteOf(c, cfg))
    [] c.op = "route delete" -> Without(old, Named(c, cfg, old))
    [] c.op = "neighbor add" -> Plus(old, NeighbourOf(c))
    [] c.op = "neighbor delete" ->
         Without(old, {n \in DOMAIN old : n.dev = c.dev /\ n.node = c.number})

-----------------------------------------------------------------------------
(* check_connected: a route for the network of each address. *)

ConnectedTo(dev, addr) ==
  [op |-> "route add", text |-> Netpart(addr), via |-> LocalHop, dev |-> dev, number |-> 0]

\* A faulty variant: addresses without a network are not left out.
LocalAddresses_All(cfg, ifaces) ==
  UNION {{<<dev, a>> : a \in cfg[dev].addresses} : dev \in ifaces \cap DOMAIN cfg}

\* Addresses of the daemon's interfaces that have a network.
LocalAddresses(cfg, ifaces) ==
  UNION {{<<dev, a>> : a \in {b \in cfg[dev].addresses : Netpart(b) # <<>>}} :
           dev \in ifaces \cap DOMAIN cfg}

Connected(cfg, ifaces) == {ConnectedTo(x[1], x[2]) : x \in LocalAddresses(cfg, ifaces)}
=============================================================================
