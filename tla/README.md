# NHIP in TLA+

This directory holds the formal model of NHIP: the daemon `nhipd`, its XDP program,
and the tools `nhipping` and `nhipctl`. Modules (`*.tla`) describe the code,
`MC*.tla` and `*.cfg` are the instances that TLC checks, `*_proofs.tla` hold
theorems that TLAPS checks for all values of the constants, and `PROJECT.json` lists
runs, mutants, source lines, findings and hazards. Paths below are relative to
`src/nhip/` unless they begin with `src/`.

    tlc -workers 2 -config ping_two_clients.cfg MCPingControl
    tlapm PingControl_proofs.tla

## 1. The system

A host runs one `nhipd`. It owns a raw packet socket on all interfaces, a Unix
socket for control, two pinned eBPF tables that the XDP program reads (FastPath:
label to next hop; IFACE_MAC), one that it shares with nobody in practice (NHARP:
neighbour to MAC), and reads text files in `/etc/nhip` that `nhipctl` edits.

| Component | State | Operations | Talks to |
|---|---|---|---|
| `nhipping` (`nhipping/src/main.rs`) | attempt, success count, response of the attempt | write PING line, read, time out, print loss | connection task, Unix socket |
| connection tasks (`nhipd/src/ctl.rs`) | one command at a time, one oneshot channel | read, register sender, send ping, clear, reply, time out | `pong_sender`, `pingpong` |
| `pong_sender` (`nhipd/src/daemon.rs:23-29`) | one slot for one sender | replace, clear, take | all connection tasks, receiver |
| receiver (`daemon.rs:197-359`) | none; ends on some errors | NHARP, local PING/PONG, forward | socket, files, slot, NHARP table |
| NHARP (`nhipd/src/nharp_ctl.rs`) | `nharp_table` (8192 entries, never aged) | lookup, request, handle, reply, insert | receiver, `pingpong`, slow path |
| slow path (`nhipd/src/forward.rs`) | none of its own | parse, select route, next hop, label, FastPath entry, send | `routes.conf`, NHARP, FastPath |
| fast path (`src/nhipd-ebpf/src/main.rs`) | reads FastPath, IFACE_MAC | drop, pass, rewrite and redirect | slow path through the table |
| configuration (`nhip-cfg`, `nhipctl`) | `addresses.conf`, `routes.conf`, `static_ngh.conf` | load, change, write; no lock | daemon at any time |
| MAC updater (`nhipd/src/main.rs:80-91`) | IFACE_MAC | every 15 s | fast path, for frames that it then drops |
| parsing (`nhip-core/src/addr.rs`) | none | networks, pointers, NodeIDs | everyone |

What is hard here:

- *Interleaving.* All tasks share one `pong_sender` slot and lock it only for one
  assignment; between registration, transmission, error and time-out any other task
  may replace, clear or consume the sender.
- *Two clocks.* `nhipping` and the task each wait two seconds, started at different
  moments. Commands and lines are left in the Unix socket.
- *Network.* Pings to an unresolved MAC are broadcast; frames are lost, delayed and
  duplicated; the TX buffer drops silently.
- *Stale state.* NHARP and FastPath entries are never removed; files and MACs change
  under the daemon; a restart empties the tables.
- *Partial failure.* Most steps may fail and be logged; some end the receiver, and a
  panic ends the whole daemon (`panic = "abort"`).
- *Bytes.* Byte orders (ether type, label), 8-bit pointer and TTL, 32-bit NodeID.

What makes each part correct: a PONG is counted once and by whom it answers, every
command ends (ping path); a table entry is what one station said on that link, the
table keeps its capacity, neighbours get resolved (NHARP); the best candidate wins,
a pointer inside the network advances (routes); what has a next hop is sent, and
nothing goes round (forwarding); one command at a time is atomic, what was inserted
stays unless a copy was outdated or a writer failed, no route is there twice
(configuration); a packet to an own address is taken, and a routes file that cannot be
read costs packets but not the task (receiver); what is accepted fits the packet and
means what the formatting rules say (parsing).

## 2. Modules

| Module | Models | Checked by | Proved in |
|---|---|---|---|
| `PingService` | what the ping path promises, abstractly | refinement target | |
| `PingControl` | `nhipping`, connection tasks, `pong_sender`, NHIPPONG arm | `ping_*` | `PingControl_proofs` |
| `Nharp` | NHARP of all daemons of a network | `nharp_*` | `Nharp_proofs` |
| `RouteSelection` | route lookup and pointer, router by router | `routes_*` | `RouteSelection_proofs` |
| `ConfigData` | what a command does to the content of the files | used by the next three | |
| `ConfigStore` | what the files promise: atomic commands, or the loss of a file | refinement target | |
| `ConfigFiles` | `nhipctl` and `check_connected` as processes on shared files | `config_*` | `ConfigFiles_proofs` |
| `Receiver` | the receiver task, composed with the processes of `ConfigFiles` | `receiver_*` | `Receiver_proofs` |
| `Forwarding` | slow path, XDP program, FastPath, several hosts | `forward_*` | `Forwarding_proofs` |
| `NetworkParsing`, `NodeIdParsing` | `validate_addr`, `parse_node_id` | through the next | as the next |
| `AddressParsing` | both, as `addr add` calls them | `address_*`, `network_*`, `nodeid_*` | `AddressParsing_proofs`, `NodeIdParsing_proofs` |

Operators named `X_Suffix` directly before `X` are faulty variants: each replaces
`X` once, to see that a property notices. They are not part of any specification.

### PingControl

One action per step of the three programs. `ClientSend` to `ClientFails` are the
body of the loop of `nhipping`; `TaskRead` to `TaskTimeout` are the stretches of a
connection task between two points where another task may run (each `await`);
`RecvPong` is the NHIPPONG arm; `DaemonExit` is the end of the process.

- A client always sends the same command line, so `inbox` counts the unread ones.
  One `try_read` returns all of them, and several lines do not have exactly five
  words: they are swallowed (`TaskRead`). Lines that do not fit the 1024-byte buffer
  (`--bytesize` beyond about 450) are not modelled.
- A PONG line is its index in the history variable `received`. A read returns all
  unread lines; only the first line of an attempt's response is compared.
- `mail[c]` is the oneshot channel. The sender lives in the slot, or has been used,
  or has been dropped (`dropped`); the receiver lives while the task is in `send`,
  `clear` or `await` (`Listening`). A sender without receiver stays in the slot
  after a time-out; a PONG that takes it is lost.
- `TaskSend` and `TaskSendFails` are the two outcomes of `pingpong` with oper 1. Its
  NHARP part is in `Nharp`.
- A client time-out needs an empty socket and a live daemon: after the daemon has
  gone, `read` returns 0 bytes for ever and the loop never reaches its time check.
  `nhipping` then spins; the model shows it as a client that stays in `wait`.
- External: the ping on its way, the station that answers, loss and duplication
  (`PeerAnswers`, `LosePing`, `LosePong`, `DuplicatePing`). A PONG is a pair of
  addresses; a station may answer any copy of a ping at any time, also long after
  the attempt.
- Address texts are values; `Canonical` is the text that the daemon prints for an
  address.

`PingService` forgets tasks, slot, channels and sockets: PONGs arrive; each of the
`Count` attempts fails or uses up a PONG of its own pair that no attempt has used.
The refinement maps `received` to its pairs and keeps the counters.

### Nharp

A port is an interface of a station on a link. A frame is one copy for one receiving
daemon; `wire` is a set, so a copy may wait for any time, be lost (`Lose`) or be
overtaken. `order` is the byte order of the ether type: `"le"` as `build_eth_header`
writes it, `"be"` as `recv_handler` expects it. A daemon ignores `"le"` frames
(`Ignore`); peers are stations with other software that put the type in network
order. Their frames may be requests or replies with any target, but name the
station's own NodeID and MAC.

`Request` is `nharp_lookup` that misses, followed by `nharp_send_request` (called by
`pingpong` and by the slow path); `Learn`, `LearnAndReply` and `Refuse` are the
outcomes of `handle_nharp`. Its insertion comes first and its error ends the
handler, so that a requester without an entry gets no reply. `Learn` also stands for
a reply that is due and cannot be built or sent. MAC changes, `nhipctl addr
add`/`delete` and restarts (which remove and re-create the pinned maps) happen at
any time, up to `MaxChanges`.

### RouteSelection

A packet visits one router after another, each with any table of `Tables`. The
pointer is a byte offset, and two of the findings are about single characters, so
texts are sequences of characters here. `Processed` is the set of texts that
`select_route` compares; the three `retain` calls of `filter_candidates` are
`NearestOf`, `PreferredOf` and `LongestOf`; `Rank` is the order of the list of
candidates, which decides between equals. `Discard` stands for everything between
the choice and the transmission that may fail, `Forward` for its success.

Nothing is assumed of the destinations of routes or of the networks of packets, since
the daemon checks neither and `nhipctl` takes any destination: blocks may be empty, and
a network may be longer than the 152 bytes that `get_link_hash` has room for, which
`Forward` excludes because the code panics there (`MaxHashed`).

### ConfigData, ConfigStore, ConfigFiles

`ConfigData` holds the pure part: `expand_tilde`, the split at colons, and, for each
command of `nhipctl` that changes a file, when it is refused, when it finds nothing
to do, and what it writes otherwise. Texts are sequences of tokens; a token stands
for any run of characters that no code looks into. The order of entries is left out:
`routes.conf` is a bag of routes, so that a duplicate is visible.

`ConfigFiles` runs any number of processes of `nhipctl` and the starting daemon on
the same three files. A file `is` missing, empty (truncated, not yet written), whole
or garbled, and `has` what it last held as a whole. A process of `nhipctl` looks for
each file and writes an empty list if it is missing (`ensure`), loads (`load addrs`,
`load`), opens (`File::create` truncates), and writes; these are the system calls of
`fs::read_to_string` and `fs::write`, between which any other process may take its
own. `check_connected` scans addresses and routes, then runs `insert_route` for one
address after another and goes on after a refusal. Two writers of texts of different
length leave what `Overwritten` says: the second text, or the second text followed
by the end of the first. A process may be killed between any two steps, and a disk
may be full when it writes. `Overlap = FALSE` lets a process start only when no
other one runs.

A process that ends between truncation and write leaves an empty file for good, and
two writers may leave a mixed one; no command can load such a file any more. The
history `inserted` is the set of routes that `routes.conf` owes its users: what was
there at first or was reported as inserted, less what was removed, less what an
outdated copy has overwritten (`Outdated`), and nothing at all once a writer has left
the file empty (`Abandons`) or mixed.

`ConfigStore` is the abstraction: each step carries out one command on what the store
holds, or loses one file with all that it held (`Lose`). In the refinement `lost` is
the set of files that are empty or mixed and that nobody is about to write (`Lost`);
they hold nothing. A file that its writer has truncated still counts with what it held
before, so that `Write` is the command. The end of a writer in between is `Lose`, and
all other steps stutter.

### Receiver

The receiver extends `ConfigFiles`: every step of `nhipctl` may come between two of its
own. For a packet it loads the addresses to compare the network (`CheckNet`), again to
compare the NodeID (`CheckNode`), and a third time to answer a ping of an unresolved
neighbour (`Ask`); `Forward` stands for the slow path, whose errors are only logged.
`ended` is the task after an error that it returns, or after a panic, which ends the
daemon with it. A packet may be shorter than its lengths promise (`ParsePanics`,
`daemon.rs:253-275`), or have a network of more than 152 bytes (`ForwardPanics`,
`label.rs:44`; in the dev build, TTL 0 does the same). A pong may fail at every step: a
NodeID that does not parse, a MAC that cannot be read, an error of `nharp_send_request`
or of `sendto` (`AnswerFails`). An interface may vanish. The histories `always` and
`ever` are the addresses that the interface had all the time, and at some time, since
the packet arrived. Who takes a PONG is `PingControl`'s matter, who is asked and
answered is `Nharp`'s.

### Forwarding

A host has ports on links. A frame is one copy for one port, with the byte order of its
ether type: `nhipd_xdp` looks only at `"le"` frames and passes others, the receiver
ignores `"le"` frames. So a `"be"` frame goes through the slow path, whose output is
`"le"` and meets the fast path of the next host. `Hits`, `XdpEnds`, `Redirect` are the
branches of `nhipd_xdp`. `RedirectAnswers` is what `bpf_redirect` answers an XDP
program: 4 (`XDP_REDIRECT`) when it has noted the port, 0 (`XDP_ABORTED`) when it has
not; the program takes 0 for success (`Leaves`), so that a frame that hits never
leaves. `dropped` keeps those frames. `TakeLocal` and `NoRouteFor` to `Transmit` are
`forward_slowpass` in the order of its early returns and panics: route, MAC of the
interface, next hop, label, entry, transmission. Between them other tasks learn
neighbours, `nhipctl` changes routes, MACs change and the daemon restarts. A panic ends
the daemon, and with it the XDP program that it has attached. Which route is chosen is
`RouteSelection`'s matter: here each host has one route per network, and it changes.

A label is a value, and `Hash` a constant operator on an unordered pair of MACs and
a network. `Swap` is `u64::from_be`. Nothing is assumed of either, nor of the labels
that other stations use. `hops` counts the daemons that have sent a frame on.

### NetworkParsing, NodeIdParsing, AddressParsing

Loops are modelled character by character, with the position and the counters of the
code as variables, so that its early returns, its missing reset of `block_len` and
its failure to advance are behaviours. Numbers are taken modulo `Word` (2^32 in the
release build, scaled in the runs). `Written` is the reference, translated from the
rules of NodeID formatting (`addr.rs:124-150`): a letter multiplies the run of digits in
front of it (rule 1), a dot right behind a letter makes the run behind it the next lower
group (rule 2.1), and all other digits count from right to left (rule 2.2). It goes
by the surroundings of a digit, without a loop or a state. Rule 3, which lets zeros be
left out, is what the code does not do: `1m12.36` becomes 1 000 048. So the comparison
is for texts that leave none out (`FullyWritten`: groups between dots have `GroupLen`
digits, and a run that counts from right to left is the last one); what happens to the
others is shown by `nodeid_spellings`.
`addr add` parses the NodeID first and then validates the network, whose verdict it
drops.

## 3. Runs

| Run | Question | Instance |
|---|---|---|
| `ping_two_clients` | safety and refinement of the ping path | 2 clients, different destinations, same source, 2 + 1 attempts, 1 duplicated ping; 393 000 states |
| `ping_liveness` | every command ends, every client finishes | same, no duplicate; 64 000 states |
| `nharp_full_table` | sound entries, capacity, no reply without entry | 2 daemons, one of them on 2 links, 2 peers with equal NodeIDs, room for one neighbour, 2 frames under way, 1 change; 288 000 states |
| `nharp_resolves` | neighbours get resolved, also after a restart | 1 daemon, 1 peer, 2 changes; 2 600 states |
| `nharp_daemon_pair` | the same between two daemons | violated |
| `routes_best` | best candidate, pointer | 6 networks, one of 153 bytes, pointers 0 to 5 and 0xFF, all tables of up to 2 of 28 routes, empty blocks included; 82 000 states |
| `routes_start` | does the documented match win at pointer 0? | violated |
| `config_exclusive` | are the files an atomic store for one process at a time? | 4 processes, 12 commands, 1 failure, 4 sets of existing files; 58 000 states |
| `receiver_edits` | who takes a packet, whose two halves it is, what ends the receiver, and which routes stay, while addresses and routes are edited? | 2 overlapping processes, 2 packets, also short and long ones, 1 failure, interfaces that vanish; 2 700 000 states |
| `forward_labels` | does a packet go round, with whatever labels, byte orders and TTLs? | stations a and c, hosts h1 and h2, 4 networks, one of them long, tables for one label, 2 packets, 1 change or restart; 65 000 states |
| `forward_hit` | does a packet that hits leave? | violated |
| `address_parts` | do accepted texts fit, mean what the rules say, does each step leave less to do, and does parsing end? | all networks of up to 6 of 3 characters, all NodeIDs of up to 5 of 6 characters, 12-bit numbers; 94 000 states |

Further configurations in this directory ask one question each of the same modules.
This one passes: `config_overlap` (three processes that overlap, one failure: types, no
route twice, inserted routes stay; 986 000 states). These are violated, and each
counterexample is a few steps of the code:

| Configuration | Property | What the code does |
|---|---|---|
| `ping_letter_address` | `AnswerCounts` | the answer to an address with letters is printed in plain digits and never counted (`nhipping/src/main.rs:159`) |
| `ping_hidden_answer` | `AnswerCounts` | only the first line of a response is compared: the PONG of another client in front hides the answer (`nhipping/src/main.rs:154-160`) |
| `routes_inner` | `InnerIsRouted` | behind a pointer into the network the dot is doubled, only default routes match (`nhipd/src/forward.rs:236`) |
| `routes_longest` | `LongestPrefixWins` | `default` counts as a prefix of seven characters (`nhipd/src/forward.rs:297`) |
| `config_lost_update` | `WritesAreCurrent` | of two commands that overlap, the second writes over the first (`nhip-cfg/src/lib.rs:349`) |
| `config_torn` | `TornOnlyWhileWritten` | of two writers, the shorter text keeps the end of the longer one (`nhip-cfg/src/lib.rs:294`) |
| `receiver_mixed` | `AcceptedIsLocal` | the network of one address and the NodeID of another make a packet local (`nhipd/src/daemon.rs:307`) |
| `forward_entry_size` | `ResolvedIsInstalled` | the map refuses the 24-byte entry of a 64-bit daemon, the packet is not sent (`nhipd/src/forward.rs:52`) |
| `forward_key` | `KeyIsLabel` | the entry is stored under the swapped label (`nhipd/src/forward.rs:448`, `src/nhipd-ebpf/src/main.rs:97`) |
| `forward_no_route` | `LocalIsDelivered` | without a route a packet to a connected network is dropped (`nhipd/src/forward.rs:389`) |
| `forward_miss` | `MissAsks` | the request is made in the network of the packet's source; if the port has none there, nobody is asked (`nhipd/src/forward.rs:417`) |
| `network_empty_block` | `NoEmptyBlock` | `a.` and `a..b` are accepted (`nhip-core/src/addr.rs:71`) |
| `network_long_block` | `OnlyLongBlocks` | two short blocks are rejected as one long block (`nhip-core/src/addr.rs:67`) |
| `nodeid_range` | `AcceptedInRange` | plain digits have no range check, and sums wrap before it (`nhip-core/src/addr.rs:181`) |
| `nodeid_hang` | `InvalidIsRejected` | with letters, any other character is an endless loop (`nhip-core/src/addr.rs:203`) |
| `nodeid_spellings` | `SpellingsAgree` | the documented spellings of one NodeID give different numbers (`nhip-core/src/addr.rs:142`) |
| `address_unchecked` | `OnlyValidAdded` | `addr add` drops the verdict on the network (`nhipctl/src/main.rs:226`) |

Bounds. Two clients are enough for every pair of steps on the single slot: the slot
names one task, and no step touches more than one other task. The second attempt of
one client is what a late PONG of the first can disturb; one duplicate is one PONG
more than there are pings. In `Nharp` a link with two daemons and a peer gives every
order of a request, a reply and an announcement with two of them under way; the
second link with an equal NodeID is what a wrong key would mix up; a table for one
entry makes the capacity bite for every second neighbour. Two routes are all that a
filter compares at a time. Four processes one after the other allow a command, a
failure, a repair and the start of the daemon; of processes that overlap, two
suffice for each lost update or torn file, and the third of `config_overlap` meets
what they leave. A packet is handled in one pass, so that two are enough to see what
the first leaves behind; two overlapping processes give each load of the receiver a
different file. Two hosts in a row are one that writes a label and one that reads
it, and what two daemons would send on is what could go round; one change or restart is
what can make an entry stale. In `address_parts` the
limits are two blocks of two characters, and the texts go one character beyond the
longest that is accepted. The theorems lift most of these bounds (section 5).

Deadlock is not checked where the system stops: clients finish (`ping_*`), packets
are dropped (`routes_*`, `forward_*`), processes end (`config_*`), the receiver may
end (`receiver_*`), a text has been parsed (`address_*`). It is checked in the
`nharp_*` runs.

Fairness. In `PingControl`, weak fairness of the steps of each client and each task:
the operating system schedules the processes, tokio polls woken tasks, and both wait
with timers of two seconds. Nothing is assumed of the network or of the receiver; it
may be silent for ever. In `Nharp` (for resolution only): a program keeps asking for
a NodeID that is not resolved (weak fairness of `Request`: each ping repeats it), a
peer keeps announcing itself, and a frame that is sent again and again is handled at
last (strong fairness, as is usual for a lossy link). This assumption is about the
network and the peers, not about the code; `nharp_daemon_pair` shows that even so
two daemons resolve nothing. The promise of resolution is for a table with room for
all neighbours. In `AddressParsing`, weak fairness of the
program: a command that runs goes on.

## 4. What the checks show

Holds:

- A PONG is counted at most once, only by a client that waits for its destination
  and source, although the slot hands it to whoever registered last (`CreditOnce`,
  `ImplementsService`).
- Neither stale senders, duplicates nor replaced registrations produce a second line
  for a command, or a line out of order (`OneLinePerCommand`, `LinesInOrder`); the
  loss count does not wrap (`NoLossUnderflow`).
- A task whose sender was replaced or cleared is not left waiting (`SenderKept`,
  `CommandEnds`), every client finishes while the daemon runs (`ClientFinishes`).
- NHARP entries never mix stations or links (`CacheSound`), and whoever is answered
  can be reached (`AnsweredAreKnown`).
- The filters choose an unbeaten candidate (`BestRoute`). A pointer inside the network
  only moves forward, by two characters at least, and ends at 0xFF at the latest; any
  other pointer (0, 0xFF, behind the end) is moved by a route to `.` alone, and then
  possibly backwards (`PointerForward`, for any routes and networks).
- One process at a time, a command does all of its work or nothing, or the process is
  killed or finds the disk full between truncation and write, and the file is lost with
  all that it held; nothing is left half changed (`AtomicStore`). Only a failure leaves
  an unreadable file (`TornOnlyWhileWritten`); the daemon's start leaves a route for
  each local address (`ConnectedAfterStart`).
- Even when processes overlap, no route gets into the file twice (`RoutesUnique`): each
  text is made of one loaded list, whichever list that was. What was inserted stays
  (`InsertedStay`), with three exceptions that the code does nothing about: the outdated
  copy of another process overwrites it (`config_lost_update`), a writer fails, or
  two texts are mixed (`config_torn`).
- A packet to an address that is there all the time is not forwarded, although its
  two halves are looked up in two loads (`MineIsAccepted`). A torn `routes.conf`
  costs packets, a torn `addresses.conf` the task, and so do a short packet, a long
  network and any failure of a pong (`EndsForAddresses`). What is taken
  as local has its network and its NodeID from addresses of the interface, though
  perhaps from two (`HalvesAreLocal`; `receiver_mixed`).
- No packet is sent on by two daemons (`NoCirculation`). That no TTL is needed for it is
  due to two of the faults below: what a daemon sends has the ether type that receivers
  ignore, and the XDP program drops what hits. Who mends them needs the TTL, which the
  XDP program does not write back and the slow path lets wrap.
- Accepted networks fit the packet although the lengths of blocks add up
  (`AcceptedFits`); accepted NodeIDs in which no zeros are left out are, modulo 2^32,
  what the rules of formatting give (`NodeIdMeans`). On a text of digits, letters and
  dots every step of the loops leaves less to do (`ParsingShrinks`), so that parsing
  ends.

Does not hold. Three runs are expected to be violated and listed as findings; a
theorem states each in general:

1. Two daemons never resolve each other: the ether type is written little-endian and
   read big-endian (`nhip-cfg/src/lib.rs:159`, `nhipd/src/daemon.rs:222`). Whatever a
   daemon learns, it learns from other software (`DaemonsLearnFromPeersOnly`); daemons
   alone resolve nobody (`DaemonsAloneResolveNothing`).
2. With pointer 0, the pointer of every ping that the daemon sends, only default
   routes are found (`nhipd/src/forward.rs:375`, `addr.rs:96`). So it is at every pointer
   that `validate_pointer` accepts, for all tables without empty blocks
   (`BlocksTakeDefaultsOnly`), and such a pointer never moves (`ValidPointersRest`).
3. The XDP program drops every packet whose label it finds: it takes the answer 0 of
   `bpf_redirect` for success (`src/nhipd-ebpf/src/main.rs:130`). Whatever the table
   holds and the helper answers, a packet that hits does not leave (`HitsNeverLeave`).

The others are the violated configurations of section 3. Two of them have a theorem
too: with entries of different sizes no daemon ever forwards anything
(`WideEntriesForwardNothing`), and a client whose addresses are printed in another way
than they are typed never counts an answer (`UnprintedAddressesLose`). Together, the
size of an entry, its key and the byte order of the ether type mean that a daemon on a
64-bit host never forwards a packet, and that on a little-endian one the fast path
never finds what the slow path stored for the same label. `NoCirculation` and
`HitIsForwarded` are therefore checked where the sizes agree, and with packets of other
stations in both byte orders and with labels in both, so that the fast path is taken.

## 5. What is proved

TLAPS proves the following for any number of clients, stations, links, routes,
hosts, processes, texts and any bounds, from the named assumptions on the constants.

- `PingControl_proofs`. `TypeInv` adds to the types that a client that is not done
  has an attempt left; without it `EndAttempt` could pass `Count`.
  `LossNeverUnderflows` is inductive with the types: only `ClientRead` counts, and
  it ends the attempt. `LinesStayInOrder` and `PongsCountedOnce` share the invariant
  `PongInv`: every line belongs to the task that its PONG was handed to, and moves
  from channel to socket to response in the order of arrival; so what arrives is
  newer than what is counted, and what is counted was never counted before, by
  anybody, since a PONG is handed to one task. `UnprintedAddressesLose` follows for
  clients whose addresses are not typed as they are printed: a counted line would be a
  pair that the daemon prints.
  `LinesNeverOutnumberCommands` rests on `BalanceInv`: lines, unread commands and
  the line that a running command still owes are together at most the attempts
  begun. `SenderNeverLost` is inductive with the types. `ControlImplementsService`
  proves that each step maps to a step of `PingService` or to a stutter.
- `Nharp_proofs`. The invariant `NharpInv` adds to the types that every frame under
  way carries a claim of a station on its link that was announced, that claims are
  about a port's own NodeIDs and MACs, and that each entry of a table is such a
  claim. `NharpTypeCorrect` contains the capacity, `NharpCacheSound` and
  `NharpAnsweredAreKnown` follow. `PeerInv` says that a frame in the byte order that
  daemons understand, an entry and a reply are all of a peer's claims:
  `DaemonsLearnFromPeersOnly`, and without peers `DaemonsAloneResolveNothing`.
- `RouteSelection_proofs`. Non-empty sets of numbers have a least element (`WFMin`
  of the library), so each filter leaves a candidate (`ChoiceExists`) that nothing
  beats (`FilteredIsBest`): `SelectionIsBest`. `SpecificRoute` bounds the length of
  a chosen destination from both sides, whatever texts routes and packets carry; with
  the panic of `get_link_hash` for more than 152 bytes this gives `PointerMovesForward`
  (no wrap-around in 8 bits). At a pointer on a block boundary it leaves only default
  routes and destinations with an empty block: `BlocksTakeDefaultsOnly`,
  `ValidPointersRest`.
- `ConfigFiles_proofs`. `NoRouteTwice` holds for processes that overlap and fail:
  `RouteInv` says that `has` is free of duplicates, and so is what each process has
  loaded and will write. `FilesTypeCorrect` holds for the same processes: what a file
  holds, what a process has loaded and the command it executes are of the types that
  the next step reads, whoever wrote them (`TypeInv`; `Changed` has a value only
  where the command is not refused, which the invariant carries from the load to the
  write). Both assume a proper beginning (`StartAssumption`: no route twice, addresses
  and neighbours that `nhipctl` could have written) and command lines of texts
  (`CommandAssumption`). `InsertedRoutesStay` is for the same processes: `StayInv` says
  that `has` contains what is owed, and that routes.conf is readable or has a writer.
  The other theorems assume `Exclusive`: `Overlap = FALSE`, and
  files that are missing or whole at first. `StoreInv` says that at most one process
  is at work, and that what it has loaded is what the files hold, so that `Write` is
  the command, and that a file without writer is whole or lost, so that a process that
  ends after truncation is `Lose` (`FilesAreAtomicStore`). `FullInv` adds that only a
  file that is being written is empty while nothing has failed (`NothingStaysTorn`),
  and that the addresses that the daemon is through with have their routes
  (`EveryNetworkConnected`).
- `Receiver_proofs`. `ReceiverKeepsFiles` proves that every behaviour of the receiver
  is one of `ConfigFiles`, so that `FilesTypeCorrect`, `NoRouteTwice` and
  `InsertedRoutesStay` hold beside it (`RoutesUniqueForReceiver`,
  `RoutesStayForReceiver`). With the types of the addresses, `DecisionInv` relates
  the histories to the file and to the first decision: what is in `always` is in the
  file now, and was there when the first decision was made; what is there now is in
  `ever`. `MineIsAlwaysAccepted` and `HalvesAreAlwaysLocal` follow, the first because
  an address in the file has exactly one colon, whatever the packet says.
  `ReceiverEndsForAddresses` goes through all steps, the panics and failures of a pong
  included. Of packets only that they carry texts is assumed (`PacketAssumption`).
- `Forwarding_proofs`. `ForwardInv` says that a frame under way which a daemon has sent
  is `"le"` and has one hop, and that a packet in a slow path has none, with the types
  of tables and programs. `ForwardingTypeCorrect` contains the capacity;
  `NothingCirculates` follows, because only `"be"` frames get into a slow path and
  `Redirect` adds no frame. `HitsNeverLeave` is the general form of finding 3.
  `WideEntriesForwardNothing` (for `EntrySize # ValueSize`) shows that the tables stay
  empty, no packet reaches the transmission, nothing hits, and the wires carry only what
  other stations have sent. Nothing is assumed of hashes, labels or foreign frames but
  their types.
- `AddressParsing_proofs`. `ParseInv` says that what has been read fits: `block_len`
  is at least the length of the block being read and `block_count` one more than the
  dots. `AcceptedNetworksFit` holds for all texts, characters and limits.
- `NodeIdParsing_proofs`. `AcceptedNodeIdsMean` is about all texts in which no zeros
  are left out, multipliers and widths. The proof first shows that the loops add up
  `LoopWritten`, a sum over positions in which a run of digits is multiplied by what
  its surroundings say, for every text; and then that in a text with all its zeros this
  is `Written`, the number that the rules give (`WrittenAgree`). `NodeIdInv` says, for
  plain digits, that the result is `v % Word` for a number `v` to which only the rest
  has to be appended (`DigitState`); with letters, that the result is what the
  positions up to `i` add up to, that `i` does not split a run of digits, and that
  `next_multiplier` belongs to the letter whose digits continue at `i` (`Counted`,
  `Announced`) - or that the loop stands at a character that it can never pass.
  `RunAdds` proves that a run of digits adds its number times its weight, modulo
  `Word`. Induction is over sets of natural numbers (`NatSet`): the set of positions up
  to which an equation holds has 0 and each successor. The recursive functions of the
  model are shown to have solutions in the same way (`NatRecursion`).
  `ParsingAlwaysShrinks` is the safety half of `ParsingEnds`: a number of steps that is
  left, and that decreases with each step.

Assumptions of the model that the theorems use, all checked on every run: `Word` and
the multipliers are positive (`NumberAssumption`), the two halves of an address are
texts (`AddressAssumption`), `CommandAssumption`, `StartAssumption`,
`PacketAssumption`, `LabelAssumption` and the typing of the other constants.

Only model-checked: everything under fairness (`CommandEnds`, `ClientFinishes`,
`NeighboursResolved`, `ParsingEnds`), since TLAPS does not handle
`ENABLED` here, and the violated configurations, whose counterexamples need no proof.
Every invariant and action property that a passing run checks is also a theorem. The
library's theorems about induction take an operator as a parameter, which no prover
here can instantiate; `NatSet` stands in for them where the model computes over
positions. The modules avoid recursive operators.

## 6. Not modelled

- `nhipctl ... show` and its colours print a loaded configuration and change
  nothing. `static_ngh.conf` is written by `nhipctl` and read by no code of the
  daemon, so that its entries have no effect beyond the file.
- Of `nhip-core/src/header.rs` only the fields that a handler reads or writes are
  there; version, flags and payload length are not read by any handler, and the
  accessors are assignments.
- Opening and binding sockets, waiting for readiness, loading, attaching and pinning
  eBPF programs and the logger are calls of the operating system and of aya. What a
  restart does to the pinned maps is modelled (`Nharp`, `Forwarding`).
- The arithmetic of the hash: `Hash` is any function, so that two networks may share a
  label, as 64-bit FNV values can.
- IFACE_MAC and the task that fills it every 15 seconds: the XDP program writes the
  MAC into frames that it then drops, so that no frame that leaves depends on it.
- TTL: both paths compute it in 8 bits with wrap-around, as the release build does (the
  dev build panics, `TtlPanics`), and the fast path does not write it back.
  `NoCirculation` is what a TTL is for; what value it is to have is not documented.
- A connected route outlives its address, since `check_connected` only adds; no doc
  promises otherwise, and there is no property.
- A `nhipping` whose daemon has gone spins. `ClientFinishes` promises an end only
  while the daemon runs.

External, and modelled from how the code uses them: the network, peers and stations;
`bpf_redirect`, with the two answers that it gives an XDP program; the kernel's hash
maps, with their capacity and the size of their values; the file system, where
truncation and writing are separate and atomic each.

What could come next: one model of `Receiver`, `Nharp` and `Forwarding` together,
with the tables shared and not changed from outside; the arithmetic of labels; a
store with overlapping commands for files that are replaced by renaming, should the
code come to do so.
