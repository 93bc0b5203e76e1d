----------------------------- MODULE ConfigFiles -----------------------------
(***************************************************************************)
(* The files in /etc/nhip as processes load and write them, without a      *)
(* lock: nhipctl (ensure_configs, then one command) and the daemon that    *)
(* starts (check_connected).  fs::write truncates the file and then writes *)
(* it; in between it is empty, and whoever reads it gets an error.         *)
(***************************************************************************)
EXTENDS ConfigData

CONSTANTS Tools,       \* processes of nhipctl
          Daemon,      \* the process of nhipd
          Ifaces,      \* interfaces of the daemon
          StartFiles,  \* what files that exist hold at first
          StartStates, \* which of them exist: functions from Files to States
          Overlap,     \* whether a process may start while another one runs
          MaxStarts,   \* bound on starts of processes
          MaxFailures  \* bound on killed processes and full disks

ASSUME ProcessAssumption == /\ Daemon \notin Tools
                            /\ Overlap \in BOOLEAN
                            /\ MaxStarts \in Nat
                            /\ MaxFailures \in Nat

States == {"missing", "empty", "whole", "garbled"}

\* To begin with no route is in routes.conf twice.
ASSUME StartAssumption ==
  /\ StartStates \subseteq [Files -> States]
  /\ \A r \in DOMAIN StartFiles["route"] : StartFiles["route"][r] = 1
  /\ AddrContent(StartFiles["addr"]) /\ BagContent(StartFiles["ngh"])

VARIABLES
  files,    \* each file: its state, and what it holds or last held as a whole
  pc,       \* each process: the step it is about to take
  at,       \* which file ensure_configs looks at; 4 after it
  cur,      \* the command that it executes
  seen,     \* the addresses it has loaded
  base,     \* what it has loaded of the file that it changes
  todo,     \* addresses that check_connected has not come to
  starts, failures,
  inserted  \* history: the routes that routes.conf is to have

vars == <<files, pc, at, cur, seen, base, todo, starts, failures, inserted>>

Steps == {"idle", "ensure", "load addrs", "load", "open", "write",
          "scan addrs", "scan routes", "pick"}
Order == <<"addr", "route", "ngh">>
Procs == Tools \cup {Daemon}

NoCommand == [op |-> "none"]

Init ==
  /\ \E s \in StartStates :
       /\ files = [f \in Files |-> [is |-> s[f],
                                    has |-> IF s[f] = "missing" THEN Nothing ELSE StartFiles[f]]]
       /\ inserted = IF s["route"] = "whole" THEN DOMAIN StartFiles["route"] ELSE {}
  /\ pc = [p \in Procs |-> "idle"]
  /\ at = [p \in Procs |-> 4]
  /\ cur = [p \in Procs |-> NoCommand]
  /\ seen = [p \in Procs |-> Nothing]
  /\ base = [p \in Procs |-> Nothing]
  /\ todo = {}
  /\ starts = 0
  /\ failures = 0

-----------------------------------------------------------------------------
(* Start and end *)

MayStart(p) == /\ pc[p] = "idle"
               /\ starts < MaxStarts
               /\ Overlap \/ \A q \in Procs : pc[q] = "idle"

\* nhipctl begins with ensure_configs.
Start(p, c) ==
  /\ MayStart(p)
  /\ pc' = [pc EXCEPT ![p] = "ensure"]
  /\ at' = [at EXCEPT ![p] = 1]
  /\ cur' = [cur EXCEPT ![p] = c]
  /\ starts' = starts + 1
  /\ UNCHANGED <<files, seen, base, todo, failures, inserted>>

StartDaemon ==
  /\ MayStart(Daemon)
  /\ pc' = [pc EXCEPT ![Daemon] = "scan addrs"]
  /\ starts' = starts + 1
  /\ UNCHANGED <<files, at, cur, seen, base, todo, failures, inserted>>

\* What p had loaded is gone.
Forgets(p) ==
  /\ at' = [at EXCEPT ![p] = 4]
  /\ cur' = [cur EXCEPT ![p] = NoCommand]
  /\ seen' = [seen EXCEPT ![p] = Nothing]
  /\ base' = [base EXCEPT ![p] = Nothing]

\* A faulty variant: a command that finds nothing to do ends the whole check.
Ends_First(p) == Forgets(p) /\ todo' = {} /\ pc' = [pc EXCEPT ![p] = "idle"]

\* The end of a command: of nhipctl, or of one address of check_connected,
\* which goes on to the next one whatever has happened.
Ends(p) ==
  /\ Forgets(p)
  /\ UNCHANGED todo
  /\ pc' = [pc EXCEPT ![p] = IF p = Daemon /\ todo # {} THEN "pick" ELSE "idle"]

Stops(p) ==
  /\ Forgets(p)
  /\ todo' = IF p = Daemon THEN {} ELSE todo
  /\ pc' = [pc EXCEPT ![p] = "idle"]

-----------------------------------------------------------------------------
(* Reading *)

Readable(f) == files[f].is = "whole"

\* insert_route and remove_route load the addresses first.
FirstLoad(c) == IF TargetOf(c) = "route" THEN "load addrs" ELSE "load"

AfterEnsure(p) == IF at[p] = 3 THEN FirstLoad(cur[p]) ELSE "ensure"

\* The file is there.
EnsureExists(p) ==
  /\ pc[p] = "ensure"
  /\ files[Order[at[p]]].is # "missing"
  /\ pc' = [pc EXCEPT ![p] = AfterEnsure(p)]
  /\ at' = [at EXCEPT ![p] = @ + 1]
  /\ UNCHANGED <<files, cur, seen, base, todo, starts, failures, inserted>>

\* It is not; from now on it may be, but p does not look again.
EnsureMissing(p) ==
  /\ pc[p] = "ensure"
  /\ files[Order[at[p]]].is = "missing"
  /\ pc' = [pc EXCEPT ![p] = "open"]
  /\ UNCHANGED <<files, at, cur, seen, base, todo, starts, failures, inserted>>

LoadAddrs(p) ==
  /\ pc[p] = "load addrs"
  /\ Readable("addr")
  /\ seen' = [seen EXCEPT ![p] = files["addr"].has]
  /\ pc' = [pc EXCEPT ![p] = "load"]
  /\ UNCHANGED <<files, at, cur, base, todo, starts, failures, inserted>>

\* A faulty variant: addr add goes by addresses that it has not loaded.
ConfigWith_Seen(p, old) == seen[p]

\* The addresses that a command goes by, old being what it loads to change.
ConfigWith(p, old) == IF TargetOf(cur[p]) = "addr" THEN old ELSE seen[p]

HasNothingToDo(p, old) ==
  ~Refused(cur[p], ConfigWith(p, old)) => Leaves(cur[p], ConfigWith(p, old), old)

Load(p) ==
  LET f == TargetOf(cur[p])
  IN /\ pc[p] = "load"
     /\ Readable(f)
     /\ ~HasNothingToDo(p, files[f].has)
     /\ base' = [base EXCEPT ![p] = files[f].has]
     /\ pc' = [pc EXCEPT ![p] = "open"]
     /\ UNCHANGED <<files, at, cur, seen, todo, starts, failures, inserted>>

\* A file is not readable, or there is nothing to write.
GiveUp(p) ==
  /\ \/ pc[p] = "load addrs" /\ ~Readable("addr")
     \/ pc[p] = "load" /\ LET f == TargetOf(cur[p])
                          IN ~Readable(f) \/ HasNothingToDo(p, files[f].has)
  /\ Ends(p)
  /\ UNCHANGED <<files, starts, failures, inserted>>

-----------------------------------------------------------------------------
(* Writing *)

Target(p) == IF at[p] < 4 THEN Order[at[p]] ELSE TargetOf(cur[p])

\* Processes that have truncated a file and not written it yet.
Writers(f) == {q \in Procs : pc[q] = "write" /\ Target(q) = f}

Text(p) == IF at[p] < 4 THEN Nothing
           ELSE Changed(cur[p], ConfigWith(p, base[p]), base[p])

\* A faulty variant: the file is opened without truncating it.
Open_Keeps(p) ==
  /\ pc[p] = "open"
  /\ pc' = [pc EXCEPT ![p] = "write"]
  /\ UNCHANGED <<files, at, cur, seen, base, todo, starts, failures, inserted>>

\* File::create
Open(p) ==
  /\ pc[p] = "open"
  /\ files' = [files EXCEPT ![Target(p)].is = "empty"]
  /\ pc' = [pc EXCEPT ![p] = "write"]
  /\ UNCHANGED <<at, cur, seen, base, todo, starts, failures, inserted>>

\* write_all puts the text over what is there: if somebody else has written
\* since p truncated the file and that text is longer, its end remains.
Longer(f, x, y) == IF f = "addr" THEN CoversAddr(x, y) ELSE Covers(x, y)

Overwritten(f, text) ==
  LET old == files[f]
      whole == [is |-> "whole", has |-> text]
      garbled == [is |-> "garbled", has |-> old.has]
      covers == \/ old.is \in {"missing", "empty"}
                \/ old.is = "whole" /\ Longer(f, text, old.has)
      sticksOut == old.is = "whole" /\ Longer(f, old.has, text)
  IN IF covers THEN {whole} ELSE IF sticksOut THEN {garbled} ELSE {whole, garbled}

\* Somebody has changed the file since p loaded it, or found it missing.
Outdated(p) == base[p] # files[Target(p)].has

\* What routes.conf is to have after the command of p.
Recorded(p) ==
  CASE at[p] = 4 /\ cur[p].op = "route add" -> inserted \cup {RouteOf(cur[p], seen[p])}
    [] at[p] = 4 /\ cur[p].op = "route delete" -> inserted \ Named(cur[p], seen[p], base[p])
    [] OTHER -> inserted

\* Nothing is promised of a routes.conf that two texts are mixed in, and nothing
\* of what somebody else inserted before an outdated copy overwrites it.
Owed(p) ==
  CASE Target(p) # "route" -> inserted
    [] Target(p) = "route" /\ files'["route"].is # "whole" -> {}
    [] Target(p) = "route" /\ files'["route"].is = "whole" ->
         IF Outdated(p) THEN Recorded(p) \cap DOMAIN files'["route"].has ELSE Recorded(p)

\* p ends between truncating routes.conf and writing it, and nobody else is about
\* to write it: what it held is lost.
Abandons(p) == pc[p] = "write" /\ Target(p) = "route" /\ ~Readable("route")
                 /\ Writers("route") = {p}

OwedWithout(p) == IF Abandons(p) THEN {} ELSE inserted

\* ensure_configs writes an empty list and goes on.
WriteNew(p) ==
  /\ pc[p] = "write"
  /\ at[p] < 4
  /\ \E new \in Overwritten(Target(p), Text(p)) : files' = [files EXCEPT ![Target(p)] = new]
  /\ pc' = [pc EXCEPT ![p] = AfterEnsure(p)]
  /\ at' = [at EXCEPT ![p] = @ + 1]
  /\ inserted' = Owed(p)
  /\ UNCHANGED <<cur, seen, base, todo, starts, failures>>

\* A faulty variant: what is written is what was loaded.
Write_Unchanged(p) ==
  /\ pc[p] = "write"
  /\ at[p] = 4
  /\ files' = [files EXCEPT ![Target(p)] = [is |-> "whole", has |-> base[p]]]
  /\ inserted' = Owed(p)
  /\ Ends(p)
  /\ UNCHANGED <<starts, failures>>

\* write_addrs, write_routes, write_static_ngh
Write(p) ==
  /\ pc[p] = "write"
  /\ at[p] = 4
  /\ \E new \in Overwritten(Target(p), Text(p)) : files' = [files EXCEPT ![Target(p)] = new]
  /\ inserted' = Owed(p)
  /\ Ends(p)
  /\ UNCHANGED <<starts, failures>>

\* The disk is full: the file stays as it is, and the command fails.
WriteFails(p) ==
  /\ pc[p] = "write"
  /\ failures < MaxFailures
  /\ failures' = failures + 1
  /\ inserted' = OwedWithout(p)
  /\ Ends(p)
  /\ UNCHANGED <<files, starts>>

\* A signal ends p between two steps.
Kill(p) ==
  /\ pc[p] # "idle"
  /\ failures < MaxFailures
  /\ failures' = failures + 1
  /\ inserted' = OwedWithout(p)
  /\ Stops(p)
  /\ UNCHANGED <<files, starts>>

-----------------------------------------------------------------------------
(* check_connected *)

ScanAddrs ==
  /\ pc[Daemon] = "scan addrs"
  /\ Readable("addr")
  /\ seen' = [seen EXCEPT ![Daemon] = files["addr"].has]
  /\ pc' = [pc EXCEPT ![Daemon] = "scan routes"]
  /\ UNCHANGED <<files, at, cur, base, todo, starts, failures, inserted>>

\* Only that the routes are readable matters; insert_route loads them again.
ScanRoutes ==
  LET all == LocalAddresses(seen[Daemon], Ifaces)
  IN /\ pc[Daemon] = "scan routes"
     /\ Readable("route")
     /\ todo' = all
     /\ seen' = [seen EXCEPT ![Daemon] = Nothing]
     /\ pc' = [pc EXCEPT ![Daemon] = IF all = {} THEN "idle" ELSE "pick"]
     /\ UNCHANGED <<files, at, cur, base, starts, failures, inserted>>

ScanFails ==
  /\ \/ pc[Daemon] = "scan addrs" /\ ~Readable("addr")
     \/ pc[Daemon] = "scan routes" /\ ~Readable("route")
  /\ Stops(Daemon)
  /\ UNCHANGED <<files, starts, failures, inserted>>

\* insert_route for the next address.
Pick ==
  /\ pc[Daemon] = "pick"
  /\ \E x \in todo : /\ todo' = todo \ {x}
                     /\ cur' = [cur EXCEPT ![Daemon] = ConnectedTo(x[1], x[2])]
  /\ pc' = [pc EXCEPT ![Daemon] = "load addrs"]
  /\ UNCHANGED <<files, at, seen, base, starts, failures, inserted>>

-----------------------------------------------------------------------------
ToolStep(p) == \/ \E c \in Commands : Start(p, c)
               \/ EnsureExists(p)
               \/ EnsureMissing(p)
               \/ WriteNew(p)

CommandStep(p) == \/ LoadAddrs(p)
                  \/ Load(p)
                  \/ GiveUp(p)
                  \/ Open(p)
                  \/ Write(p)
                  \/ WriteFails(p)
                  \/ Kill(p)

DaemonStep == StartDaemon \/ ScanAddrs \/ ScanRoutes \/ ScanFails \/ Pick

Next == \/ \E p \in Tools : ToolStep(p)
        \/ \E p \in Procs : CommandStep(p)
        \/ DaemonStep

Spec == Init /\ [][Next]_vars

-----------------------------------------------------------------------------
(* Properties *)

\* Types, and that a file that the daemon or a command writes was loaded before
\* (nhip-cfg/src/lib.rs:312, 360: load, then change, then write): whatever writes
\* addresses.conf, its addresses have two parts, and the second one is a NodeID.
TypeOK ==
  /\ \A f \in Files : files[f].is \in States /\ Content(f, files[f].has)
  /\ \A p \in Procs : pc[p] \in Steps /\ at[p] \in 1..4
  /\ \A p \in Procs : (pc[p] \in {"ensure", "load addrs", "load", "open", "write"})
                        => cur[p] # NoCommand
  /\ \A x \in todo : Netpart(x[2]) # <<>>
  /\ starts \in 0..MaxStarts /\ failures \in 0..MaxFailures

Unique(x) == \A e \in DOMAIN x : x[e] = 1

\* insert_route inserts a route only if routes.conf has it not
\* (nhip-cfg/src/lib.rs:324): however processes overlap, fail and write over each
\* other, no readable routes.conf, and nothing that a process has loaded
\* of it, has a route twice.
RoutesUnique ==
  /\ Readable("route") => Unique(files["route"].has)
  /\ \A p \in Procs : (pc[p] \in {"open", "write"} /\ Target(p) = "route") => Unique(base[p])

\* One process at a time, and none has failed: a file that cannot be read is a file
\* that a process is about to write (nhip-cfg/src/lib.rs:261, 294, 405), so that
\* whoever starts next can read everything.
TornOnlyWhileWritten ==
  failures = 0 =>
    \A f \in Files : files[f].is \in {"empty", "garbled"} => Writers(f) # {}

\* However processes overlap and fail, routes.conf has every route that it had at
\* first or that insert_route has reported as inserted, and that remove_route has
\* not removed since (nhip-cfg/src/lib.rs:299: "Inserts route into routes config
\* file"), and it can be read or somebody is about to write it: unless a process
\* wrote a copy that was outdated (lib.rs:312-343), a process ended between
\* truncating the file and writing it, or two texts were mixed (lib.rs:294).
InsertedStay ==
  inserted # {} => /\ inserted \subseteq DOMAIN files["route"].has
                   /\ Readable("route") \/ Writers("route") # {}

\* What would have to hold for no route to be lost: who writes routes.conf has
\* loaded what it holds.  Nothing in the code sees to it.
WritesAreCurrent ==
  [][\A p \in Procs : (pc[p] = "write" /\ Target(p) = "route" /\ files' # files) => ~Outdated(p)]_vars

\* One process at a time, and none fails: when check_connected is through
\* (nhipd/src/forward.rs:107), routes.conf has a route of the network of every
\* address of the daemon's interfaces, whichever of them it had before.
ConnectedAfterStart ==
  [][(/\ pc[Daemon] \in {"load", "write", "scan routes"}
      /\ pc'[Daemon] = "idle"
      /\ failures = 0 /\ failures' = 0
      /\ files'["addr"].is = "whole" /\ files'["route"].is = "whole")
        => \A c \in Connected(files["addr"].has, Ifaces) :
             ~Refused(c, files["addr"].has) => Exists(c, files["addr"].has, files'["route"].has)]_vars

\* Files that processes have emptied or mixed up, for good.
Lost == {f \in Files : files[f].is \in {"empty", "garbled"} /\ Writers(f) = {}}

\* One process at a time: what the files hold, or held before the process that is
\* at work truncated them, is a store of commands that do all of their work or
\* nothing, or lose the file that they change (nhipctl/src/main.rs:173-396,
\* nhipd/src/forward.rs:107-125, nhip-cfg/src/lib.rs:261, 294, 405).
Store == INSTANCE ConfigStore
           WITH store <- [f \in Files |-> IF f \in Lost THEN Nothing ELSE files[f].has],
                lost <- Lost
AtomicStore == Store!Spec
=============================================================================
