-------------------------- MODULE ConfigFiles_proofs --------------------------
(***************************************************************************)
(* Proofs about ConfigFiles for any commands, processes and bounds.  The   *)
(* first part is about processes in any order, with failures: no route is  *)
(* ever twice in routes.conf, and routes stay in it.  The second part is   *)
(* about one process at a time: the files are a store of atomic commands.  *)
(***************************************************************************)
EXTENDS ConfigFiles, SequenceTheorems, TLAPS

Busy == {"ensure", "load addrs", "load", "open", "write"}
Writing == {"open", "write"}

FileShape == /\ DOMAIN files = Files
             /\ \A f \in Files : files[f] = [is |-> files[f].is, has |-> files[f].has]

Shape ==
  /\ FileShape
  /\ pc \in [Procs -> Steps]
  /\ at \in [Procs -> 1..4]
  /\ DOMAIN cur = Procs /\ DOMAIN seen = Procs /\ DOMAIN base = Procs

\* ensure_configs is not through.
Ensuring(p) == at[p] < 4

\* The order in which a process goes through its steps.
Phases(p) ==
  /\ Ensuring(p) => pc[p] \in {"ensure", "open", "write"} /\ base[p] = Nothing
  /\ pc[p] = "ensure" => Ensuring(p)
  /\ pc[p] \notin Writing => base[p] = Nothing
  /\ pc[p] \in Busy => cur[p].op \in Ops

PhaseInv == Shape /\ \A p \in Procs : Phases(p)

LEMMA EnsuringAt ==
  ASSUME Shape, NEW p \in Procs
  PROVE  (Ensuring(p) <=> at[p] \in 1..3) /\ (~Ensuring(p) <=> at[p] = 4)
<1>1. at[p] \in 1..4
  BY DEF Shape
<1>2. QED BY <1>1 DEF Ensuring

LEMMA Numbers == 1 \in 1..4 /\ 4 \in 1..4 /\ ~(4 < 4) /\ \A k \in 1..3 : k < 4 /\ k \in 1..4
OBVIOUS

LEMMA ConnectedOp == \A dev, addr : ConnectedTo(dev, addr).op = "route add"
BY DEF ConnectedTo

LEMMA OrderInFiles == \A k \in 1..3 : Order[k] \in Files
BY DEF Order, Files

LEMMA TargetInFiles ==
  ASSUME PhaseInv, NEW p \in Procs, pc[p] \in Writing
  PROVE  Target(p) \in Files
<1>1. CASE Ensuring(p)
  <2>1. at[p] \in 1..3
    BY <1>1, EnsuringAt DEF PhaseInv
  <2>2. Target(p) = Order[at[p]]
    BY <1>1 DEF Target, Ensuring
  <2>3. QED BY <2>1, <2>2, OrderInFiles
<1>2. CASE ~Ensuring(p)
  <2>1. Target(p) = TargetOf(cur[p])
    BY <1>2 DEF Target, Ensuring
  <2>2. cur[p].op \in Ops
    BY DEF PhaseInv, Phases, Busy, Writing
  <2>3. QED BY <2>1, <2>2 DEF TargetOf, Ops, Files
<1>3. QED BY <1>1, <1>2

LEMMA AnyCommandHasOp == \A c \in Commands : c.op \in Ops
BY CommandAssumption, Zenon

-----------------------------------------------------------------------------
(* The phases, in any order of processes *)

LEMMA PhasesInit == Init => PhaseInv
<1> SUFFICES ASSUME Init PROVE PhaseInv
  OBVIOUS
<1>1. Shape
  BY DEF Init, Shape, FileShape, Steps
<1>2. ASSUME NEW p \in Procs PROVE Phases(p)
  <2>1. at[p] = 4 /\ pc[p] = "idle" /\ base[p] = Nothing
    BY <1>2 DEF Init
  <2>2. ~Ensuring(p)
    BY <2>1, Numbers DEF Ensuring
  <2>3. QED BY <2>1, <2>2 DEF Phases, Writing, Busy
<1>3. QED BY <1>1, <1>2 DEF PhaseInv

LEMMA ShapeKept ==
  ASSUME Shape, FileShape', NEW p \in Procs, NEW s \in Steps, NEW k \in 1..4,
         pc' = [pc EXCEPT ![p] = s], at' = at \/ at' = [at EXCEPT ![p] = k],
         DOMAIN cur' = Procs, DOMAIN seen' = Procs, DOMAIN base' = Procs
  PROVE  Shape'
<1>1. pc' \in [Procs -> Steps]
  BY DEF Shape
<1>2. at' \in [Procs -> 1..4]
  BY DEF Shape
<1>3. QED BY <1>1, <1>2 DEF Shape

LEMMA FileShapeKept == ASSUME FileShape, files' = files PROVE FileShape'
BY DEF FileShape

\* One process takes a step.
LEMMA StepKeepsPhases ==
  ASSUME PhaseInv, Shape', NEW p \in Procs, Phases(p)',
         \A q \in Procs \ {p} : /\ pc'[q] = pc[q] /\ at'[q] = at[q]
                                /\ cur'[q] = cur[q] /\ base'[q] = base[q]
  PROVE  PhaseInv'
<1>1. ASSUME NEW q \in Procs \ {p} PROVE Phases(q)'
  <2>1. Ensuring(q)' = Ensuring(q)
    BY DEF Ensuring
  <2>2. QED BY <2>1 DEF PhaseInv, Phases
<1>2. QED BY <1>1 DEF PhaseInv

LEMMA ForgetsKeepsPhases ==
  ASSUME PhaseInv, NEW p \in Procs, NEW s \in {"idle", "pick"}, Forgets(p),
         pc' = [pc EXCEPT ![p] = s], FileShape'
  PROVE  PhaseInv'
<1>1. Shape'
  <2>1. at' = [at EXCEPT ![p] = 4]
    BY DEF Forgets
  <2>2. s \in Steps
    BY DEF Steps
  <2>3. DOMAIN cur' = Procs /\ DOMAIN seen' = Procs /\ DOMAIN base' = Procs
    BY DEF PhaseInv, Shape, Forgets
  <2>4. QED BY <2>1, <2>2, <2>3, Numbers, ShapeKept DEF PhaseInv
<1>2. Phases(p)'
  <2>1. at'[p] = 4 /\ base'[p] = Nothing /\ pc'[p] = s
    BY DEF PhaseInv, Shape, Forgets
  <2>2. ~Ensuring(p)'
    BY <2>1, Numbers DEF Ensuring
  <2>3. QED BY <2>1, <2>2 DEF Phases, Writing, Busy
<1>3. QED BY <1>1, <1>2, StepKeepsPhases DEF PhaseInv, Shape, Forgets

LEMMA EndsGoes ==
  ASSUME NEW p, Ends(p) \/ Stops(p)
  PROVE  Forgets(p) /\ \E s \in {"idle", "pick"} : pc' = [pc EXCEPT ![p] = s]
BY DEF Ends, Stops

LEMMA StartKeepsPhases ==
  ASSUME PhaseInv, NEW p \in Tools, NEW c \in Commands, Start(p, c)
  PROVE  PhaseInv'
<1>1. p \in Procs /\ pc[p] = "idle" /\ base[p] = Nothing
  BY DEF Procs, Start, MayStart, PhaseInv, Phases, Writing
<1>2. /\ pc' = [pc EXCEPT ![p] = "ensure"] /\ at' = [at EXCEPT ![p] = 1]
      /\ cur' = [cur EXCEPT ![p] = c] /\ UNCHANGED <<files, seen, base>>
  BY DEF Start
<1>3. Shape'
  <2>1. "ensure" \in Steps
    BY DEF Steps
  <2>2. DOMAIN cur' = Procs
    BY <1>2 DEF PhaseInv, Shape
  <2>3. FileShape' /\ DOMAIN seen' = Procs /\ DOMAIN base' = Procs
    BY <1>2, FileShapeKept DEF PhaseInv, Shape
  <2>4. QED BY <1>1, <1>2, <2>1, <2>2, <2>3, Numbers, ShapeKept DEF PhaseInv
<1>4. Phases(p)'
  <2>1. pc'[p] = "ensure" /\ at'[p] = 1 /\ cur'[p] = c /\ base'[p] = Nothing
    BY <1>1, <1>2 DEF PhaseInv, Shape
  <2>2. Ensuring(p)'
    BY <2>1, Numbers DEF Ensuring
  <2>3. QED BY <2>1, <2>2, AnyCommandHasOp DEF Phases, Writing, Busy
<1>5. QED BY <1>1, <1>2, <1>3, <1>4, StepKeepsPhases DEF PhaseInv, Shape

LEMMA EnsureKeepsPhases ==
  ASSUME PhaseInv, NEW p \in Procs, EnsureExists(p) \/ WriteNew(p), FileShape'
  PROVE  PhaseInv'
<1>1. at[p] \in 1..3 /\ base[p] = Nothing /\ cur[p].op \in Ops
  <2>1. pc[p] = "ensure" \/ (pc[p] = "write" /\ Ensuring(p))
    BY DEF EnsureExists, WriteNew, Ensuring
  <2>2. Ensuring(p) /\ base[p] = Nothing /\ cur[p].op \in Ops
    BY <2>1 DEF PhaseInv, Phases, Busy
  <2>3. QED BY <2>2, EnsuringAt DEF PhaseInv
<1>2. pc' = [pc EXCEPT ![p] = AfterEnsure(p)] /\ at' = [at EXCEPT ![p] = at[p] + 1]
      /\ UNCHANGED <<cur, seen, base>>
  BY DEF EnsureExists, WriteNew
<1>3. AfterEnsure(p) \in (IF at[p] = 3 THEN {"load addrs", "load"} ELSE {"ensure"})
  BY DEF AfterEnsure, FirstLoad
<1>4. Shape'
  <2>1. AfterEnsure(p) \in Steps
    BY <1>3 DEF Steps
  <2>2. at[p] + 1 \in 1..4
    BY <1>1
  <2>3. DOMAIN cur' = Procs /\ DOMAIN seen' = Procs /\ DOMAIN base' = Procs
    BY <1>2 DEF PhaseInv, Shape
  <2>4. QED BY <1>2, <2>1, <2>2, <2>3, ShapeKept DEF PhaseInv
<1>5. Phases(p)'
  <2>1. pc'[p] = AfterEnsure(p) /\ at'[p] = at[p] + 1
    BY <1>2 DEF PhaseInv, Shape
  <2>2. base'[p] = Nothing /\ cur'[p].op \in Ops
    BY <1>1, <1>2
  <2>3. CASE at[p] = 3
    <3>1. pc'[p] \in {"load addrs", "load"} /\ at'[p] = 4
      <4>1. AfterEnsure(p) \in {"load addrs", "load"}
        BY <1>3, <2>3
      <4>2. at[p] + 1 = 4
        BY <2>3
      <4>3. QED BY <2>1, <4>1, <4>2
    <3>2. ~Ensuring(p)'
      BY <3>1, Numbers DEF Ensuring
    <3>3. QED BY <2>2, <3>1, <3>2 DEF Phases, Writing, Busy
  <2>4. CASE at[p] # 3
    <3>1. pc'[p] = "ensure" /\ at'[p] \in 1..3
      BY <1>1, <1>3, <2>1, <2>4
    <3>2. Ensuring(p)'
      BY <3>1, Numbers DEF Ensuring
    <3>3. QED BY <2>2, <3>1, <3>2 DEF Phases, Writing, Busy
  <2>5. QED BY <2>3, <2>4
<1>6. QED BY <1>2, <1>4, <1>5, StepKeepsPhases DEF PhaseInv, Shape

LEMMA ReadKeepsPhases ==
  ASSUME PhaseInv, NEW p \in Procs, EnsureMissing(p) \/ LoadAddrs(p) \/ Load(p)
  PROVE  PhaseInv'
<1>1. pc[p] \in Busy /\ at' = at /\ cur' = cur /\ files' = files /\ cur[p].op \in Ops
  BY DEF EnsureMissing, LoadAddrs, Load, PhaseInv, Phases, Busy
<1>2. Shape'
  BY <1>1 DEF PhaseInv, Shape, FileShape, EnsureMissing, LoadAddrs, Load, Steps
<1>3. Phases(p)'
  <2>1. Ensuring(p)' = Ensuring(p)
    BY <1>1 DEF Ensuring
  <2>2. Phases(p) /\ p \in DOMAIN pc /\ p \in DOMAIN base
    BY DEF PhaseInv, Shape
  <2>3. QED BY <1>1, <2>1, <2>2 DEF Phases, EnsureMissing, LoadAddrs, Load, Writing, Busy
<1>4. QED BY <1>1, <1>2, <1>3, StepKeepsPhases DEF PhaseInv, Shape, EnsureMissing, LoadAddrs, Load

LEMMA OpenKeepsPhases ==
  ASSUME PhaseInv, NEW p \in Procs, Open(p)
  PROVE  PhaseInv'
<1>1. Target(p) \in Files /\ pc[p] = "open"
  BY TargetInFiles DEF Open, Writing
<1>2. Shape'
  BY <1>1 DEF PhaseInv, Shape, FileShape, Open, Steps
<1>3. Phases(p)'
  <2>1. Ensuring(p)' = Ensuring(p)
    BY DEF Open, Ensuring
  <2>2. Phases(p) /\ p \in DOMAIN pc
    BY DEF PhaseInv, Shape
  <2>3. QED BY <1>1, <2>1, <2>2 DEF Phases, Open, Writing, Busy
<1>4. QED BY <1>1, <1>2, <1>3, StepKeepsPhases DEF PhaseInv, Shape, Open

\* The text that is written, or what was there.
LEMMA OverwrittenHas ==
  ASSUME NEW f, NEW text, NEW new \in Overwritten(f, text)
  PROVE  /\ new = [is |-> new.is, has |-> new.has]
         /\ new.is \in {"whole", "garbled"}
         /\ new.has \in {text, files[f].has}
         /\ files[f].is \in {"missing", "empty"} => new.is = "whole" /\ new.has = text
         /\ new.is = "whole" => new.has = text
<1> DEFINE whole == [is |-> "whole", has |-> text]
           garbled == [is |-> "garbled", has |-> files[f].has]
<1>1. new \in {whole, garbled}
  BY DEF Overwritten
<1>2. files[f].is \in {"missing", "empty"} => new = whole
  BY DEF Overwritten
<1>3. QED BY <1>1, <1>2

LEMMA WrittenFile ==
  ASSUME PhaseInv, NEW p \in Procs, WriteNew(p) \/ Write(p)
  PROVE  /\ Target(p) \in Files
         /\ \E new \in Overwritten(Target(p), Text(p)) :
              files' = [files EXCEPT ![Target(p)] = new]
         /\ FileShape'
<1>1. pc[p] = "write"
  BY DEF WriteNew, Write
<1>2. Target(p) \in Files
  BY <1>1, TargetInFiles DEF Writing
<1>3. PICK new \in Overwritten(Target(p), Text(p)) : files' = [files EXCEPT ![Target(p)] = new]
  BY DEF WriteNew, Write
<1>4. new = [is |-> new.is, has |-> new.has]
  BY OverwrittenHas
<1>5. DOMAIN files' = Files /\ files'[Target(p)] = new
      /\ \A f \in Files \ {Target(p)} : files'[f] = files[f]
  BY <1>2, <1>3 DEF PhaseInv, Shape, FileShape
<1>6. FileShape'
  BY <1>2, <1>4, <1>5 DEF PhaseInv, Shape, FileShape
<1>7. QED BY <1>2, <1>3, <1>6

LEMMA EndKeepsPhases ==
  ASSUME PhaseInv, NEW p \in Procs,
         GiveUp(p) \/ Write(p) \/ WriteFails(p) \/ Kill(p) \/ (p = Daemon /\ ScanFails)
  PROVE  PhaseInv'
<1>1. Ends(p) \/ Stops(p)
  BY DEF GiveUp, Write, WriteFails, Kill, ScanFails
<1>2. FileShape'
  BY WrittenFile, FileShapeKept DEF GiveUp, Write, WriteFails, Kill, ScanFails, PhaseInv, Shape
<1>3. QED BY <1>1, <1>2, EndsGoes, ForgetsKeepsPhases

LEMMA DaemonKeepsPhases ==
  ASSUME PhaseInv, StartDaemon \/ ScanAddrs \/ ScanRoutes \/ Pick
  PROVE  PhaseInv'
<1>1. Daemon \in Procs
  BY DEF Procs
<1>2. pc[Daemon] \in {"idle", "scan addrs", "scan routes", "pick"}
  BY DEF StartDaemon, MayStart, ScanAddrs, ScanRoutes, Pick
<1>3. base[Daemon] = Nothing /\ at[Daemon] = 4
  <2>1. Phases(Daemon)
    BY <1>1 DEF PhaseInv
  <2>2. ~Ensuring(Daemon) /\ base[Daemon] = Nothing
    BY <1>2, <2>1 DEF Phases, Writing
  <2>3. QED BY <1>1, <2>2, EnsuringAt DEF PhaseInv
<1>4. /\ UNCHANGED <<files, at, base>>
      /\ \E s \in {"scan addrs", "scan routes", "idle", "pick", "load addrs"} :
           /\ pc' = [pc EXCEPT ![Daemon] = s]
           /\ s = "load addrs" => \E x \in todo : cur' = [cur EXCEPT ![Daemon] = ConnectedTo(x[1], x[2])]
           /\ s # "load addrs" => cur' = cur
      /\ DOMAIN seen' = DOMAIN seen
  BY DEF StartDaemon, ScanAddrs, ScanRoutes, Pick
<1>5. Shape'
  <2>1. DOMAIN cur' = Procs /\ DOMAIN seen' = Procs /\ DOMAIN base' = Procs /\ FileShape'
    BY <1>4, FileShapeKept DEF PhaseInv, Shape
  <2>2. PICK s \in {"scan addrs", "scan routes", "idle", "pick", "load addrs"} :
               pc' = [pc EXCEPT ![Daemon] = s]
    BY <1>4
  <2>3. s \in Steps
    BY DEF Steps
  <2>4. QED BY <1>1, <1>4, <2>1, <2>2, <2>3, Numbers, ShapeKept DEF PhaseInv
<1>6. Phases(Daemon)'
  <2>1. base'[Daemon] = Nothing /\ at'[Daemon] = 4
    BY <1>3, <1>4
  <2>2. /\ pc'[Daemon] \in {"scan addrs", "scan routes", "idle", "pick", "load addrs"}
        /\ pc'[Daemon] = "load addrs" => cur'[Daemon].op = "route add"
    <3>1. PICK s \in {"scan addrs", "scan routes", "idle", "pick", "load addrs"} :
             /\ pc' = [pc EXCEPT ![Daemon] = s]
             /\ s = "load addrs" => \E x \in todo : cur' = [cur EXCEPT ![Daemon] = ConnectedTo(x[1], x[2])]
      BY <1>4
    <3>2. pc'[Daemon] = s
      BY <1>1, <3>1 DEF PhaseInv, Shape
    <3>3. s = "load addrs" => \E x \in todo : cur'[Daemon] = ConnectedTo(x[1], x[2])
      BY <1>1, <3>1 DEF PhaseInv, Shape
    <3>4. s = "load addrs" => cur'[Daemon].op = "route add"
      BY <3>3, ConnectedOp
    <3>5. QED BY <3>2, <3>4
  <2>3. ~Ensuring(Daemon)'
    BY <2>1, Numbers DEF Ensuring
  <2>4. QED BY <2>1, <2>2, <2>3 DEF Phases, Writing, Busy, Ops
<1>7. QED BY <1>1, <1>4, <1>5, <1>6, StepKeepsPhases DEF PhaseInv, Shape

LEMMA PhasesInductive ==
  ASSUME PhaseInv, [Next]_vars
  PROVE  PhaseInv'
<1>1. CASE UNCHANGED vars
  BY <1>1 DEF vars, PhaseInv, Shape, FileShape, Phases, Ensuring
<1>2. ASSUME NEW p \in Tools, ToolStep(p) PROVE PhaseInv'
  <2>1. p \in Procs
    BY DEF Procs
  <2>2. CASE EnsureExists(p)
    BY <2>1, <2>2, EnsureKeepsPhases, FileShapeKept DEF EnsureExists, PhaseInv, Shape
  <2>3. CASE WriteNew(p)
    BY <2>1, <2>3, EnsureKeepsPhases, WrittenFile
  <2>4. QED BY <1>2, <2>1, <2>2, <2>3, StartKeepsPhases, ReadKeepsPhases DEF ToolStep
<1>3. ASSUME NEW p \in Procs, CommandStep(p) PROVE PhaseInv'
  BY <1>3, ReadKeepsPhases, OpenKeepsPhases, EndKeepsPhases DEF CommandStep
<1>4. CASE DaemonStep
  BY <1>4, DaemonKeepsPhases, EndKeepsPhases DEF DaemonStep, Procs
<1>5. QED BY <1>1, <1>2, <1>3, <1>4 DEF Next

-----------------------------------------------------------------------------
(* Routes, in any order of processes *)

StepOf(p) == \/ p \in Tools /\ ToolStep(p)
             \/ CommandStep(p)
             \/ p = Daemon /\ DaemonStep

LEMMA NextIsStepOf == Next => \E p \in Procs : StepOf(p)
BY DEF Next, StepOf, Procs

LEMMA OthersStay ==
  ASSUME PhaseInv, NEW p \in Procs, StepOf(p), NEW q \in Procs \ {p}
  PROVE  /\ pc'[q] = pc[q] /\ at'[q] = at[q] /\ cur'[q] = cur[q]
         /\ seen'[q] = seen[q] /\ base'[q] = base[q]
<1>1. CASE Forgets(p) /\ \E s \in {"idle", "pick"} : pc' = [pc EXCEPT ![p] = s]
  BY <1>1 DEF Forgets, PhaseInv, Shape
<1>2. CASE GiveUp(p) \/ Write(p) \/ WriteFails(p) \/ Kill(p) \/ (p = Daemon /\ ScanFails)
  <2>1. Ends(p) \/ Stops(p)
    BY <1>2 DEF GiveUp, Write, WriteFails, Kill, ScanFails
  <2>2. QED BY <1>1, <2>1, EndsGoes
<1>3. CASE (\E c \in Commands : Start(p, c)) \/ EnsureExists(p) \/ EnsureMissing(p) \/ WriteNew(p)
  BY <1>3 DEF PhaseInv, Shape, Start, EnsureExists, EnsureMissing, WriteNew
<1>4. CASE LoadAddrs(p) \/ Load(p) \/ Open(p)
  BY <1>4 DEF PhaseInv, Shape, LoadAddrs, Load, Open
<1>5. CASE p = Daemon /\ (StartDaemon \/ ScanAddrs \/ ScanRoutes \/ Pick)
  BY <1>5 DEF PhaseInv, Shape, StartDaemon, ScanAddrs, ScanRoutes, Pick
<1>6. QED BY <1>2, <1>3, <1>4, <1>5 DEF StepOf, ToolStep, CommandStep, DaemonStep

\* What p is about to write has no route twice.
RoutesSafe(p) ==
  (pc[p] \in Writing /\ ~Ensuring(p) /\ TargetOf(cur[p]) = "route")
    => /\ Unique(base[p])
       /\ cur[p].op = "route add" => RouteOf(cur[p], seen[p]) \notin DOMAIN base[p]

RouteInv == /\ PhaseInv
            /\ Unique(files["route"].has)
            /\ \A p \in Procs : RoutesSafe(p)

LEMMA NothingUnique == Unique(Nothing) /\ DOMAIN Nothing = {}
BY DEF Unique, Nothing

LEMMA PlusUnique ==
  ASSUME NEW bag, Unique(bag), NEW e, e \notin DOMAIN bag
  PROVE  Unique(Plus(bag, e))
BY DEF Unique, Plus

LEMMA WithoutUnique ==
  ASSUME NEW bag, Unique(bag), NEW S
  PROVE  Unique(Without(bag, S))
BY DEF Unique, Without

LEMMA TextUnique ==
  ASSUME RouteInv, NEW p \in Procs, pc[p] \in Writing, Target(p) = "route"
  PROVE  Unique(Text(p))
<1>1. CASE Ensuring(p)
  <2>1. Text(p) = Nothing
    BY <1>1 DEF Text, Ensuring
  <2>2. QED BY <2>1, NothingUnique
<1>2. CASE ~Ensuring(p)
  <2>1. TargetOf(cur[p]) = "route" /\ cur[p].op \in Ops
    BY <1>2 DEF Target, Ensuring, RouteInv, PhaseInv, Phases, Writing, Busy
  <2>2. Unique(base[p]) /\ (cur[p].op = "route add" => RouteOf(cur[p], seen[p]) \notin DOMAIN base[p])
    BY <1>2, <2>1 DEF RouteInv, RoutesSafe
  <2>3. Text(p) = Changed(cur[p], seen[p], base[p])
    BY <1>2, <2>1 DEF Text, Ensuring, ConfigWith
  <2>4. cur[p].op \in {"route add", "route delete"}
    BY <2>1 DEF TargetOf, Ops
  <2>5. CASE cur[p].op = "route add"
    <3>1. Text(p) = Plus(base[p], RouteOf(cur[p], seen[p]))
      BY <2>3, <2>5 DEF Changed
    <3>2. QED BY <2>2, <2>5, <3>1, PlusUnique
  <2>6. CASE cur[p].op = "route delete"
    <3>1. Text(p) = Without(base[p], Named(cur[p], seen[p], base[p]))
      BY <2>3, <2>6 DEF Changed
    <3>2. QED BY <2>2, <3>1, WithoutUnique
  <2>7. QED BY <2>4, <2>5, <2>6
<1>3. QED BY <1>1, <1>2

LEMMA FilesStayUnique ==
  ASSUME RouteInv, NEW p \in Procs, StepOf(p)
  PROVE  Unique(files'["route"].has)
<1>1. CASE Open(p)
  <2>1. Target(p) \in Files /\ "route" \in Files
    BY <1>1, TargetInFiles DEF Open, Writing, RouteInv, Files
  <2>2. files'["route"].has = files["route"].has
    BY <1>1, <2>1 DEF Open, RouteInv, PhaseInv, Shape, FileShape
  <2>3. QED BY <2>2 DEF RouteInv
<1>2. CASE WriteNew(p) \/ Write(p)
  <2>1. PICK new \in Overwritten(Target(p), Text(p)) :
               files' = [files EXCEPT ![Target(p)] = new]
    BY <1>2, WrittenFile DEF RouteInv
  <2>2. new.has \in {Text(p), files[Target(p)].has}
    BY OverwrittenHas
  <2>3. CASE Target(p) = "route"
    <3>1. Unique(Text(p)) /\ Unique(files["route"].has)
      BY <1>2, <2>3, TextUnique DEF WriteNew, Write, Writing, RouteInv
    <3>2. files'["route"] = new
      BY <2>1, <2>3 DEF RouteInv, PhaseInv, Shape, FileShape, Files
    <3>3. QED BY <2>2, <2>3, <3>1, <3>2
  <2>4. CASE Target(p) # "route"
    <3>1. files'["route"] = files["route"]
      BY <2>1, <2>4 DEF RouteInv, PhaseInv, Shape, FileShape, Files
    <3>2. QED BY <3>1 DEF RouteInv
  <2>5. QED BY <2>3, <2>4
<1>3. CASE files' = files
  BY <1>3 DEF RouteInv
<1>4. CASE ~Open(p) /\ ~WriteNew(p) /\ ~Write(p)
  <2>1. files' = files
    BY <1>4 DEF StepOf, ToolStep, CommandStep, DaemonStep, Start, EnsureExists, EnsureMissing,
                LoadAddrs, Load, GiveUp, WriteFails, Kill, StartDaemon, ScanAddrs, ScanRoutes,
                ScanFails, Pick
  <2>2. QED BY <1>3, <2>1
<1>5. QED BY <1>1, <1>2, <1>4

LEMMA LoadIsSafe ==
  ASSUME RouteInv, NEW p \in Procs, Load(p)
  PROVE  RoutesSafe(p)'
<1> SUFFICES ASSUME TargetOf(cur[p])' = "route"
             PROVE  (/\ Unique(base[p])
                     /\ cur[p].op = "route add" => RouteOf(cur[p], seen[p]) \notin DOMAIN base[p])'
  BY DEF RoutesSafe
<1>1. cur' = cur /\ seen' = seen /\ TargetOf(cur[p]) = "route"
  BY DEF Load
<1>2. base'[p] = files["route"].has
  BY <1>1 DEF Load, RouteInv, PhaseInv, Shape
<1>3. Unique(base'[p])
  BY <1>2 DEF RouteInv
<1>4. cur[p].op = "route add" => RouteOf(cur[p], seen[p]) \notin DOMAIN files["route"].has
  <2>1. ~Leaves(cur[p], seen[p], files["route"].has)
    BY <1>1 DEF Load, HasNothingToDo, ConfigWith
  <2>2. QED BY <2>1 DEF Leaves, Exists
<1>5. QED BY <1>1, <1>2, <1>3, <1>4

\* Nobody but Load gets to writing a command.
LEMMA StepIsSafe ==
  ASSUME RouteInv, NEW p \in Procs, StepOf(p)
  PROVE  RoutesSafe(p)'
<1>1. CASE Load(p)
  BY <1>1, LoadIsSafe
<1>2. CASE EnsureMissing(p)
  <2>1. Ensuring(p)
    BY <1>2 DEF EnsureMissing, RouteInv, PhaseInv, Phases
  <2>2. Ensuring(p)'
    BY <1>2, <2>1 DEF EnsureMissing, Ensuring
  <2>3. QED BY <2>2 DEF RoutesSafe
<1>3. CASE Open(p)
  <2>1. Ensuring(p)' = Ensuring(p) /\ pc[p] \in Writing
    BY <1>3 DEF Open, Ensuring, Writing
  <2>2. QED BY <1>3, <2>1 DEF Open, RouteInv, RoutesSafe
<1>4. CASE pc'[p] \notin Writing
  BY <1>4 DEF RoutesSafe
<1>5. CASE GiveUp(p) \/ Write(p) \/ WriteFails(p) \/ Kill(p) \/ (p = Daemon /\ ScanFails)
  <2>1. Ends(p) \/ Stops(p)
    BY <1>5 DEF GiveUp, Write, WriteFails, Kill, ScanFails
  <2>2. PICK s \in {"idle", "pick"} : pc' = [pc EXCEPT ![p] = s]
    BY <2>1, EndsGoes
  <2>3. pc'[p] = s
    BY <2>2 DEF RouteInv, PhaseInv, Shape
  <2>4. QED BY <1>4, <2>3 DEF Writing
<1>6. CASE EnsureExists(p) \/ WriteNew(p)
  <2>1. pc'[p] = AfterEnsure(p)
    BY <1>6 DEF EnsureExists, WriteNew, RouteInv, PhaseInv, Shape
  <2>2. AfterEnsure(p) \notin Writing
    BY DEF AfterEnsure, FirstLoad, Writing
  <2>3. QED BY <1>4, <2>1, <2>2
<1>7. CASE (\E c \in Commands : Start(p, c)) \/ LoadAddrs(p)
  BY <1>4, <1>7 DEF Start, LoadAddrs, Writing, RouteInv, PhaseInv, Shape
<1>8. CASE p = Daemon /\ (StartDaemon \/ ScanAddrs \/ ScanRoutes \/ Pick)
  BY <1>4, <1>8 DEF StartDaemon, ScanAddrs, ScanRoutes, Pick, Writing, RouteInv, PhaseInv, Shape
<1>9. QED BY <1>1, <1>2, <1>3, <1>5, <1>6, <1>7, <1>8 DEF StepOf, ToolStep, CommandStep, DaemonStep

LEMMA RoutesInductive ==
  ASSUME RouteInv, [Next]_vars
  PROVE  RouteInv'
<1>1. PhaseInv'
  BY PhasesInductive DEF RouteInv
<1>2. CASE UNCHANGED vars
  BY <1>1, <1>2 DEF vars, RouteInv, RoutesSafe, Ensuring
<1>3. CASE Next
  <2>1. PICK p \in Procs : StepOf(p)
    BY <1>3, NextIsStepOf
  <2>2. ASSUME NEW q \in Procs \ {p} PROVE RoutesSafe(q)'
    <3>1. Ensuring(q)' = Ensuring(q)
      BY <2>1, OthersStay DEF Ensuring, RouteInv
    <3>2. QED BY <2>1, <3>1, OthersStay DEF RouteInv, RoutesSafe
  <2>3. QED BY <1>1, <2>1, <2>2, FilesStayUnique, StepIsSafe DEF RouteInv
<1>4. QED BY <1>2, <1>3

LEMMA RoutesInit == Init => RouteInv
<1> SUFFICES ASSUME Init PROVE RouteInv
  OBVIOUS
<1>1. Unique(files["route"].has)
  <2>1. files["route"].has \in {Nothing, StartFiles["route"]}
    BY DEF Init, Files
  <2>2. QED BY <2>1, StartAssumption, NothingUnique DEF Unique
<1>2. ASSUME NEW p \in Procs PROVE RoutesSafe(p)
  BY DEF Init, RoutesSafe, Writing
<1>3. QED BY <1>1, <1>2, PhasesInit DEF RouteInv

\* Whatever processes overlap, fail or write over each other: no readable
\* routes.conf, and nothing that a process has loaded of it, has a route twice
\* (nhip-cfg/src/lib.rs:324).
THEOREM NoRouteTwice == Spec => []RoutesUnique
<1>1. RouteInv => RoutesUnique
  <2> SUFFICES ASSUME RouteInv PROVE RoutesUnique
    OBVIOUS
  <2>1. ASSUME NEW p \in Procs, pc[p] \in {"open", "write"}, Target(p) = "route"
        PROVE  Unique(base[p])
    <3>1. CASE Ensuring(p)
      BY <3>1, NothingUnique DEF RouteInv, PhaseInv, Phases
    <3>2. CASE ~Ensuring(p)
      <4>1. TargetOf(cur[p]) = "route"
        BY <2>1, <3>2 DEF Target, Ensuring
      <4>2. QED BY <2>1, <3>2, <4>1 DEF RouteInv, RoutesSafe, Writing
    <3>3. QED BY <3>1, <3>2
  <2>2. QED BY <2>1 DEF RoutesUnique, RouteInv
<1>2. QED BY <1>1, RoutesInit, RoutesInductive, PTL DEF Spec

-----------------------------------------------------------------------------
(* Types, in any order of processes *)

\* What p changes is what it has loaded, and it has found something to do.
TypedProcess(p) ==
  /\ pc[p] \in Busy => cur[p] \in Commands \/ cur[p].op = "route add"
  /\ (pc[p] \in Writing /\ ~Ensuring(p))
       => /\ Content(TargetOf(cur[p]), base[p])
          /\ ~Refused(cur[p], ConfigWith(p, base[p]))
          /\ ~Leaves(cur[p], ConfigWith(p, base[p]), base[p])

ContentInv == \A f \in Files : files[f].is \in States /\ Content(f, files[f].has)

TypeInv ==
  /\ PhaseInv
  /\ ContentInv
  /\ \A p \in Procs : TypedProcess(p)
  /\ \A x \in todo : Netpart(x[2]) # <<>>
  /\ starts \in 0..MaxStarts /\ failures \in 0..MaxFailures

LEMMA NothingIsContent == \A f : Content(f, Nothing)
BY DEF Content, AddrContent, BagContent, Nothing

LEMMA ExpandIsText ==
  ASSUME NEW text \in Texts, NEW dev, NEW cfg, AddrContent(cfg), Expands(text, dev, cfg)
  PROVE  Expand(text, dev, cfg) \in Texts
<1>1. CASE HasTilde(text)
  <2>1. cfg[dev].prefix \in Texts
    BY <1>1 DEF Expands, AddrContent
  <2>2. Tail(text) \in Texts
    BY <1>1, HeadTailProperties DEF HasTilde, Texts
  <2>3. cfg[dev].prefix \o Tail(text) \in Texts
    BY <2>1, <2>2, ConcatProperties DEF Texts
  <2>4. QED BY <1>1, <2>3 DEF Expand
<1>2. CASE ~HasTilde(text)
  BY <1>2 DEF Expand
<1>3. QED BY <1>1, <1>2

LEMMA FirstOfSeq ==
  ASSUME NEW S, NEW seq, seq \in Seq(S), seq # <<>>
  PROVE  seq[1] \in S
<1>1. Len(seq) \in Nat \ {0}
  BY EmptySeq
<1>2. 1 \in 1..Len(seq)
  BY <1>1
<1>3. QED BY <1>2, ElementOfSeq

\* addr add is not refused.
LEMMA AcceptedAddress ==
  ASSUME NEW c, c.op = "addr add", NEW cfg, ~Refused(c, cfg)
  PROVE  /\ Expands(c.text, c.dev, cfg)
         /\ IsAddress(Expand(c.text, c.dev, cfg))
BY DEF Refused, TargetOf

LEMMA AddAddressContent ==
  ASSUME NEW c \in Commands, c.op = "addr add", NEW cfg, AddrContent(cfg), ~Refused(c, cfg)
  PROVE  AddrContent(AddAddress(c, cfg))
<1> DEFINE dev == c.dev
           new == Expand(c.text, dev, cfg)
           prefix == IF c.via # <<>> THEN c.via[1]
                     ELSE IF dev \in DOMAIN cfg THEN cfg[dev].prefix ELSE NoPrefix
           old == IF dev \in DOMAIN cfg THEN cfg[dev].addresses ELSE {}
           entry == [prefix |-> prefix, addresses |-> old \cup {new}]
<1>1. Expands(c.text, dev, cfg) /\ IsAddress(new)
  <2> HIDE DEF new, dev
  <2>1. QED BY AcceptedAddress DEF new, dev
<1>2. new \in Texts
  <2>1. c.text \in Texts
    BY CommandAssumption, Zenon
  <2> HIDE DEF dev
  <2>2. QED BY <1>1, <2>1, ExpandIsText
<1>3. prefix \in Texts \cup {NoPrefix}
  <2>1. CASE c.via # <<>>
    <3>1. c.via \in Seq(Texts)
      BY CommandAssumption, Zenon
    <3>2. c.via[1] \in Texts
      BY <2>1, <3>1, FirstOfSeq
    <3>3. QED BY <2>1, <3>2
  <2>2. CASE ~(c.via # <<>>)
    BY <2>2 DEF AddrContent
  <2>3. QED BY <2>1, <2>2
<1>4. old \in SUBSET Texts /\ \A a \in old : IsAddress(a)
  BY DEF AddrContent
<1>5. AddAddress(c, cfg) = [d \in DOMAIN cfg \cup {dev} |-> IF d = dev THEN entry ELSE cfg[d]]
  BY DEF AddAddress
<1>6. entry \in [prefix : Texts \cup {NoPrefix}, addresses : SUBSET Texts]
      /\ \A a \in entry.addresses : IsAddress(a)
  <2> HIDE DEF new, prefix, old
  <2>1. QED BY <1>1, <1>2, <1>3, <1>4
<1> HIDE DEF entry, dev
<1>7. QED BY <1>5, <1>6 DEF AddrContent

LEMMA DeleteAddressContent ==
  ASSUME NEW c, NEW cfg, AddrContent(cfg)
  PROVE  AddrContent(DeleteAddress(c, cfg))
BY DEF AddrContent, DeleteAddress

LEMMA BagsStayBags ==
  ASSUME NEW bag, BagContent(bag)
  PROVE  /\ \A e : BagContent(Plus(bag, e))
         /\ \A S : BagContent(Without(bag, S))
BY DEF BagContent, Plus, Without

LEMMA ChangedContent ==
  ASSUME NEW c, c.op \in Ops, c \in Commands \/ c.op = "route add",
         NEW cfg, NEW old, Content(TargetOf(c), old), TargetOf(c) = "addr" => cfg = old,
         ~Refused(c, cfg)
  PROVE  Content(TargetOf(c), Changed(c, cfg, old))
<1>1. CASE c.op = "addr add"
  <2>1. TargetOf(c) = "addr" /\ Changed(c, cfg, old) = AddAddress(c, old)
    BY <1>1 DEF TargetOf, Changed
  <2>2. QED BY <1>1, <2>1, AddAddressContent DEF Content
<1>2. CASE c.op = "addr delete"
  <2>1. TargetOf(c) = "addr" /\ Changed(c, cfg, old) = DeleteAddress(c, old)
    BY <1>2 DEF TargetOf, Changed
  <2>2. QED BY <2>1, DeleteAddressContent DEF Content
<1>3. CASE c.op \in {"route add", "route delete", "neighbor add", "neighbor delete"}
  <2>1. TargetOf(c) # "addr"
    BY <1>3 DEF TargetOf
  <2>2. (\E e : Changed(c, cfg, old) = Plus(old, e))
        \/ (\E S : Changed(c, cfg, old) = Without(old, S))
    BY <1>3 DEF Changed
  <2>3. QED BY <2>1, <2>2, BagsStayBags DEF Content
<1>4. QED BY <1>1, <1>2, <1>3 DEF Ops

LEMMA TextContent ==
  ASSUME TypeInv, NEW p \in Procs, pc[p] \in Writing
  PROVE  Content(Target(p), Text(p))
<1>1. CASE Ensuring(p)
  <2>1. Text(p) = Nothing
    BY <1>1 DEF Text, Ensuring
  <2>2. QED BY <2>1, NothingIsContent
<1>2. CASE ~Ensuring(p)
  <2>1. /\ Target(p) = TargetOf(cur[p])
        /\ Text(p) = Changed(cur[p], ConfigWith(p, base[p]), base[p])
    BY <1>2 DEF Target, Text, Ensuring
  <2>2. TypedProcess(p) /\ cur[p].op \in Ops /\ pc[p] \in Busy
    BY DEF TypeInv, PhaseInv, Phases, Writing, Busy
  <2>3. TargetOf(cur[p]) = "addr" => ConfigWith(p, base[p]) = base[p]
    BY DEF ConfigWith
  <2>4. QED BY <1>2, <2>1, <2>2, <2>3, ChangedContent DEF TypedProcess
<1>3. QED BY <1>1, <1>2

LEMMA ContentKept ==
  ASSUME TypeInv, NEW p \in Procs, StepOf(p)
  PROVE  ContentInv'
<1>1. CASE Open(p)
  <2>1. Target(p) \in Files
    BY <1>1, TargetInFiles DEF Open, Writing, TypeInv
  <2>2. \A f \in Files : files'[f].has = files[f].has /\ files'[f].is \in {files[f].is, "empty"}
    BY <1>1, <2>1 DEF Open, TypeInv, PhaseInv, Shape, FileShape
  <2>3. QED BY <2>2 DEF TypeInv, ContentInv, States
<1>2. CASE WriteNew(p) \/ Write(p)
  <2>1. PICK new \in Overwritten(Target(p), Text(p)) :
               files' = [files EXCEPT ![Target(p)] = new]
    BY <1>2, WrittenFile DEF TypeInv
  <2>2. Target(p) \in Files /\ Content(Target(p), Text(p))
    BY <1>2, TextContent, TargetInFiles DEF WriteNew, Write, Writing, TypeInv
  <2>3. new.is \in States /\ Content(Target(p), new.has)
    <3>1. new.has \in {Text(p), files[Target(p)].has} /\ new.is \in {"whole", "garbled"}
      BY OverwrittenHas
    <3>2. QED BY <2>2, <3>1 DEF TypeInv, ContentInv, States
  <2>4. \A f \in Files : files'[f] = IF f = Target(p) THEN new ELSE files[f]
    BY <2>1, <2>2 DEF TypeInv, PhaseInv, Shape, FileShape
  <2>5. QED BY <2>3, <2>4 DEF TypeInv, ContentInv
<1>3. CASE ~Open(p) /\ ~WriteNew(p) /\ ~Write(p)
  <2>1. files' = files
    BY <1>3 DEF StepOf, ToolStep, CommandStep, DaemonStep, Start, EnsureExists, EnsureMissing,
                LoadAddrs, Load, GiveUp, WriteFails, Kill, StartDaemon, ScanAddrs, ScanRoutes,
                ScanFails, Pick
  <2>2. QED BY <2>1 DEF TypeInv, ContentInv
<1>4. QED BY <1>1, <1>2, <1>3

\* Nobody but Load gets to writing a command.
LEMMA LoadIsTyped ==
  ASSUME TypeInv, NEW p \in Procs, Load(p)
  PROVE  TypedProcess(p)'
<1>1. /\ cur' = cur /\ seen' = seen /\ pc[p] = "load"
      /\ base'[p] = files[TargetOf(cur[p])].has
      /\ ~HasNothingToDo(p, base'[p])
  BY DEF Load, TypeInv, PhaseInv, Shape
<1>2. TypedProcess(p) /\ cur[p].op \in Ops /\ pc[p] \in Busy
  BY <1>1 DEF TypeInv, PhaseInv, Phases, Busy
<1>3. TargetOf(cur[p]) \in Files
  BY <1>2 DEF TargetOf, Ops, Files
<1>4. Content(TargetOf(cur[p]), base'[p])
  BY <1>1, <1>3 DEF TypeInv, ContentInv
<1>5. ConfigWith(p, base[p])' = ConfigWith(p, base'[p])
  BY <1>1 DEF ConfigWith
<1>6. ~Refused(cur[p], ConfigWith(p, base'[p])) /\ ~Leaves(cur[p], ConfigWith(p, base'[p]), base'[p])
  BY <1>1 DEF HasNothingToDo
<1>7. QED BY <1>1, <1>2, <1>4, <1>5, <1>6 DEF TypedProcess

LEMMA StepIsTyped ==
  ASSUME TypeInv, NEW p \in Procs, StepOf(p)
  PROVE  TypedProcess(p)'
<1>0. TypedProcess(p) /\ p \in DOMAIN pc /\ p \in DOMAIN cur
  BY DEF TypeInv, PhaseInv, Shape
<1>1. CASE Load(p)
  BY <1>1, LoadIsTyped
<1>2. CASE EnsureMissing(p)
  <2>1. Ensuring(p)' /\ cur' = cur /\ pc[p] \in Busy
    BY <1>2 DEF EnsureMissing, Ensuring, TypeInv, PhaseInv, Phases, Busy
  <2>2. QED BY <1>0, <2>1 DEF TypedProcess
<1>3. CASE Open(p)
  <2>1. /\ Ensuring(p)' = Ensuring(p) /\ pc[p] \in Writing /\ pc[p] \in Busy
        /\ cur' = cur /\ base' = base /\ seen' = seen
    BY <1>3 DEF Open, Ensuring, Writing, Busy
  <2>2. ConfigWith(p, base[p])' = ConfigWith(p, base[p])
    BY <2>1 DEF ConfigWith
  <2>3. QED BY <1>0, <2>1, <2>2 DEF TypedProcess
<1>4. CASE GiveUp(p) \/ Write(p) \/ WriteFails(p) \/ Kill(p) \/ (p = Daemon /\ ScanFails)
  <2>1. Ends(p) \/ Stops(p)
    BY <1>4 DEF GiveUp, Write, WriteFails, Kill, ScanFails
  <2>2. PICK s \in {"idle", "pick"} : pc' = [pc EXCEPT ![p] = s]
    BY <2>1, EndsGoes
  <2>3. pc'[p] \notin Busy \cup Writing
    BY <1>0, <2>2 DEF Busy, Writing
  <2>4. QED BY <2>3 DEF TypedProcess
<1>5. CASE EnsureExists(p) \/ WriteNew(p)
  <2>1. pc'[p] = AfterEnsure(p) /\ cur' = cur /\ pc[p] \in Busy
    BY <1>0, <1>5 DEF EnsureExists, WriteNew, Busy
  <2>2. AfterEnsure(p) \notin Writing
    BY DEF AfterEnsure, FirstLoad, Writing
  <2>3. QED BY <1>0, <2>1, <2>2 DEF TypedProcess
<1>6. ASSUME NEW c \in Commands, Start(p, c) PROVE TypedProcess(p)'
  <2>1. pc'[p] = "ensure" /\ cur'[p] = c
    BY <1>0, <1>6 DEF Start
  <2>2. QED BY <2>1 DEF TypedProcess, Writing
<1>7. CASE LoadAddrs(p)
  <2>1. pc'[p] = "load" /\ cur' = cur /\ pc[p] \in Busy
    BY <1>0, <1>7 DEF LoadAddrs, Busy
  <2>2. QED BY <1>0, <2>1 DEF TypedProcess, Writing
<1>8. CASE p = Daemon /\ (StartDaemon \/ ScanAddrs \/ ScanRoutes)
  <2>1. pc'[p] \notin Busy \cup Writing
    BY <1>0, <1>8 DEF StartDaemon, ScanAddrs, ScanRoutes, Busy, Writing
  <2>2. QED BY <2>1 DEF TypedProcess
<1>9. CASE p = Daemon /\ Pick
  <2>1. pc'[p] = "load addrs" /\ cur'[p].op = "route add"
    <3>1. PICK x \in todo : cur' = [cur EXCEPT ![Daemon] = ConnectedTo(x[1], x[2])]
      BY <1>9 DEF Pick
    <3>2. pc'[p] = "load addrs" /\ cur'[p] = ConnectedTo(x[1], x[2])
      BY <1>0, <1>9, <3>1 DEF Pick
    <3>3. QED BY <3>2, ConnectedOp
  <2>2. QED BY <2>1 DEF TypedProcess, Writing
<1>10. QED BY <1>1, <1>2, <1>3, <1>4, <1>5, <1>6, <1>7, <1>8, <1>9
       DEF StepOf, ToolStep, CommandStep, DaemonStep

\* The bounds, and what check_connected goes through.
LEMMA CountersKept ==
  ASSUME TypeInv, NEW p \in Procs, StepOf(p)
  PROVE  /\ \A x \in todo' : Netpart(x[2]) # <<>>
         /\ starts' \in 0..MaxStarts /\ failures' \in 0..MaxFailures
<1>1. starts' \in 0..MaxStarts
  <2>1. starts' = starts \/ (starts < MaxStarts /\ starts' = starts + 1)
    BY DEF StepOf, ToolStep, CommandStep, DaemonStep, Start, MayStart, EnsureExists,
           EnsureMissing, WriteNew, LoadAddrs, Load, GiveUp, Open, Write, WriteFails, Kill,
           StartDaemon, ScanAddrs, ScanRoutes, ScanFails, Pick
  <2>2. QED BY <2>1, ProcessAssumption DEF TypeInv
<1>2. failures' \in 0..MaxFailures
  <2>1. failures' = failures \/ (failures < MaxFailures /\ failures' = failures + 1)
    BY DEF StepOf, ToolStep, CommandStep, DaemonStep, Start, EnsureExists,
           EnsureMissing, WriteNew, LoadAddrs, Load, GiveUp, Open, Write, WriteFails, Kill,
           StartDaemon, ScanAddrs, ScanRoutes, ScanFails, Pick
  <2>2. QED BY <2>1, ProcessAssumption DEF TypeInv
<1>3. todo' \subseteq todo \cup LocalAddresses(seen[Daemon], Ifaces)
  BY DEF StepOf, ToolStep, CommandStep, DaemonStep, Start, EnsureExists, Ends, Stops,
         EnsureMissing, WriteNew, LoadAddrs, Load, GiveUp, Open, Write, WriteFails, Kill,
         StartDaemon, ScanAddrs, ScanRoutes, ScanFails, Pick
<1>4. \A x \in LocalAddresses(seen[Daemon], Ifaces) : Netpart(x[2]) # <<>>
  BY DEF LocalAddresses
<1>5. QED BY <1>1, <1>2, <1>3, <1>4 DEF TypeInv

LEMMA TypesInductive ==
  ASSUME TypeInv, [Next]_vars
  PROVE  TypeInv'
<1>1. PhaseInv'
  BY PhasesInductive DEF TypeInv
<1>2. CASE UNCHANGED vars
  BY <1>1, <1>2 DEF vars, TypeInv, ContentInv, TypedProcess, Ensuring, ConfigWith
<1>3. CASE Next
  <2>1. PICK p \in Procs : StepOf(p)
    BY <1>3, NextIsStepOf
  <2>2. ASSUME NEW q \in Procs \ {p} PROVE TypedProcess(q)'
    <3>1. /\ pc'[q] = pc[q] /\ at'[q] = at[q] /\ cur'[q] = cur[q]
          /\ seen'[q] = seen[q] /\ base'[q] = base[q]
      BY <2>1, OthersStay DEF TypeInv
    <3>2. Ensuring(q)' = Ensuring(q) /\ ConfigWith(q, base[q])' = ConfigWith(q, base[q])
      BY <3>1 DEF Ensuring, ConfigWith
    <3>3. QED BY <3>1, <3>2 DEF TypeInv, TypedProcess
  <2>3. QED BY <1>1, <2>1, <2>2, ContentKept, StepIsTyped, CountersKept DEF TypeInv
<1>4. QED BY <1>2, <1>3

LEMMA TypesInit == Init => TypeInv
<1> SUFFICES ASSUME Init PROVE TypeInv
  OBVIOUS
<1>1. ContentInv
  <2>1. PICK s \in StartStates :
          files = [f \in Files |-> [is |-> s[f],
                                    has |-> IF s[f] = "missing" THEN Nothing ELSE StartFiles[f]]]
    BY DEF Init
  <2>2. \A f \in Files : s[f] \in States
    BY StartAssumption
  <2>3. \A f \in Files : Content(f, StartFiles[f])
    <3>1. BagContent(StartFiles["route"])
      BY StartAssumption DEF BagContent
    <3>2. QED BY <3>1, StartAssumption DEF Content, Files
  <2>4. QED BY <2>1, <2>2, <2>3, NothingIsContent DEF ContentInv
<1>2. ASSUME NEW p \in Procs PROVE TypedProcess(p)
  BY DEF Init, TypedProcess, Writing, Busy
<1>3. todo = {} /\ starts \in 0..MaxStarts /\ failures \in 0..MaxFailures
  BY ProcessAssumption DEF Init
<1>4. QED BY <1>1, <1>2, <1>3, PhasesInit DEF TypeInv

\* Types, for any commands, files and order of processes: in particular every address
\* that addresses.conf ever holds has two parts, and the second one is a NodeID.
THEOREM FilesTypeCorrect == Spec => []TypeOK
<1>1. TypeInv => TypeOK
  <2> SUFFICES ASSUME TypeInv PROVE TypeOK
    OBVIOUS
  <2>1. ASSUME NEW p \in Procs PROVE pc[p] \in Steps /\ at[p] \in 1..4
    BY DEF TypeInv, PhaseInv, Shape
  <2>2. ASSUME NEW p \in Procs, pc[p] \in Busy PROVE cur[p] # NoCommand
    <3>1. cur[p].op \in Ops
      BY <2>2 DEF TypeInv, PhaseInv, Phases
    <3>2. NoCommand.op \notin Ops
      BY DEF NoCommand, Ops
    <3>3. QED BY <3>1, <3>2
  <2>3. QED BY <2>1, <2>2 DEF TypeInv, TypeOK, ContentInv, Busy
<1>2. QED BY <1>1, TypesInit, TypesInductive, PTL DEF Spec

-----------------------------------------------------------------------------
(* Routes stay, in any order of processes *)

StayInv == /\ PhaseInv
           /\ inserted \subseteq DOMAIN files["route"].has
           /\ inserted = {} \/ Readable("route") \/ Writers("route") # {}

\* The writers of routes.conf are the same, but for the process that takes a step.
LEMMA OtherWriters ==
  ASSUME PhaseInv, NEW p \in Procs, StepOf(p)
  PROVE  \A q \in Procs \ {p} : q \in Writers("route") <=> q \in Writers("route")'
<1> TAKE q \in Procs \ {p}
<1>1. pc'[q] = pc[q] /\ at'[q] = at[q] /\ cur'[q] = cur[q]
  BY OthersStay
<1>2. Target(q)' = Target(q)
  BY <1>1 DEF Target
<1>3. QED BY <1>1, <1>2 DEF Writers

\* A text that is made from what routes.conf holds has what it is to have.
LEMMA TextHasRecorded ==
  ASSUME StayInv, NEW p \in Procs, pc[p] = "write", Target(p) = "route", ~Outdated(p)
  PROVE  Recorded(p) \subseteq DOMAIN Text(p)
<1> DEFINE old == files["route"].has
<1>1. base[p] = old /\ inserted \subseteq DOMAIN old
  BY DEF Outdated, StayInv
<1>2. CASE Ensuring(p)
  <2>1. base[p] = Nothing /\ Text(p) = Nothing /\ at[p] # 4
    BY <1>2, Numbers DEF StayInv, PhaseInv, Phases, Text, Ensuring
  <2>2. Recorded(p) = inserted
    BY <2>1 DEF Recorded
  <2>3. QED BY <1>1, <2>1, <2>2
<1>3. CASE ~Ensuring(p)
  <2>0. at[p] = 4
    BY <1>3, EnsuringAt DEF StayInv, PhaseInv
  <2>1. TargetOf(cur[p]) = "route" /\ cur[p].op \in Ops
    BY <1>3 DEF Target, Ensuring, StayInv, PhaseInv, Phases, Busy
  <2>2. Text(p) = Changed(cur[p], seen[p], old)
    BY <1>1, <1>3, <2>1 DEF Text, ConfigWith, Ensuring
  <2>3. cur[p].op \in {"route add", "route delete"}
    BY <2>1 DEF TargetOf, Ops
  <2> HIDE DEF old
  <2>4. CASE cur[p].op = "route add"
    <3>1. Recorded(p) = inserted \cup {RouteOf(cur[p], seen[p])}
      BY <2>0, <2>4 DEF Recorded
    <3>2. Text(p) = Plus(old, RouteOf(cur[p], seen[p]))
      BY <2>2, <2>4 DEF Changed
    <3>3. DOMAIN Text(p) = DOMAIN old \cup {RouteOf(cur[p], seen[p])}
      BY <3>2 DEF Plus
    <3>4. QED BY <1>1, <3>1, <3>3
  <2>5. CASE cur[p].op = "route delete"
    <3>1. Recorded(p) = inserted \ Named(cur[p], seen[p], old)
      BY <1>1, <2>0, <2>5 DEF Recorded
    <3>2. Text(p) = Without(old, Named(cur[p], seen[p], old))
      BY <2>2, <2>5 DEF Changed
    <3>3. DOMAIN Text(p) = DOMAIN old \ Named(cur[p], seen[p], old)
      BY <3>2 DEF Without
    <3>4. QED BY <1>1, <3>1, <3>3
  <2>6. QED BY <2>3, <2>4, <2>5
<1>4. QED BY <1>2, <1>3

LEMMA WriteKeepsRoutes ==
  ASSUME StayInv, NEW p \in Procs, StepOf(p), Write(p) \/ WriteNew(p)
  PROVE  /\ inserted' \subseteq DOMAIN files'["route"].has
         /\ inserted' = {} \/ Readable("route")' \/ Writers("route")' # {}
<1>1. pc[p] = "write" /\ inserted' = Owed(p)
  BY DEF Write, WriteNew
<1>2. PICK new \in Overwritten(Target(p), Text(p)) : files' = [files EXCEPT ![Target(p)] = new]
  BY WrittenFile DEF StayInv
<1>3. /\ Target(p) \in Files /\ "route" \in Files
      /\ files'[Target(p)] = new
      /\ \A f \in Files \ {Target(p)} : files'[f] = files[f]
  BY <1>2, WrittenFile DEF StayInv, PhaseInv, Shape, FileShape, Files
<1>4. CASE Target(p) # "route"
  <2>1. inserted' = inserted /\ files'["route"] = files["route"]
    BY <1>1, <1>3, <1>4 DEF Owed
  <2>2. p \notin Writers("route")
    BY <1>4 DEF Writers
  <2>3. Writers("route") # {} => Writers("route")' # {}
    <3>1. Writers("route") \subseteq Procs
      BY DEF Writers
    <3>2. QED BY <2>2, <3>1, OtherWriters DEF StayInv
  <2>4. QED BY <2>1, <2>3 DEF StayInv, Readable
<1>5. CASE Target(p) = "route" /\ new.is # "whole"
  <2>1. inserted' = {}
    BY <1>1, <1>3, <1>5 DEF Owed
  <2>2. QED BY <2>1
<1>6. CASE Target(p) = "route" /\ new.is = "whole"
  <2>1. files'["route"].has = Text(p) /\ Readable("route")'
    BY <1>3, <1>6, OverwrittenHas DEF Readable
  <2>2. inserted' = IF Outdated(p) THEN Recorded(p) \cap DOMAIN files'["route"].has ELSE Recorded(p)
    BY <1>1, <1>3, <1>6 DEF Owed
  <2>3. ~Outdated(p) => Recorded(p) \subseteq DOMAIN Text(p)
    BY <1>1, <1>6, TextHasRecorded
  <2>4. QED BY <2>1, <2>2, <2>3
<1>7. QED BY <1>4, <1>5, <1>6

LEMMA EndKeepsRoutes ==
  ASSUME StayInv, NEW p \in Procs, StepOf(p), WriteFails(p) \/ Kill(p)
  PROVE  /\ inserted' \subseteq DOMAIN files'["route"].has
         /\ inserted' = {} \/ Readable("route")' \/ Writers("route")' # {}
<1>1. files' = files /\ inserted' = OwedWithout(p)
  BY DEF WriteFails, Kill
<1>2. CASE Abandons(p)
  BY <1>1, <1>2 DEF OwedWithout
<1>3. CASE ~Abandons(p)
  <2>1. inserted' = inserted
    BY <1>1, <1>3 DEF OwedWithout
  <2>2. Writers("route") \subseteq Procs /\ (p \in Writers("route") <=> pc[p] = "write" /\ Target(p) = "route")
    BY DEF Writers
  <2>3. Readable("route") \/ Writers("route") = {} \/ \E q \in Procs \ {p} : q \in Writers("route")
    BY <1>3, <2>2 DEF Abandons
  <2>4. QED BY <1>1, <2>1, <2>3, OtherWriters DEF StayInv, Readable
<1>4. QED BY <1>2, <1>3

LEMMA OpenKeepsRoutes ==
  ASSUME StayInv, NEW p \in Procs, StepOf(p), Open(p)
  PROVE  /\ inserted' \subseteq DOMAIN files'["route"].has
         /\ inserted' = {} \/ Readable("route")' \/ Writers("route")' # {}
<1>1. /\ pc[p] = "open" /\ pc'[p] = "write" /\ Target(p)' = Target(p) /\ inserted' = inserted
      /\ Target(p) \in Files /\ "route" \in Files
  BY TargetInFiles DEF Open, Writing, Target, StayInv, PhaseInv, Shape, Files
<1>2. /\ files'["route"].has = files["route"].has
      /\ Target(p) # "route" => files'["route"] = files["route"]
  BY <1>1 DEF Open, StayInv, PhaseInv, Shape, FileShape
<1>3. CASE Target(p) = "route"
  BY <1>1, <1>2, <1>3 DEF StayInv, Writers
<1>4. CASE Target(p) # "route"
  <2>1. Writers("route") \subseteq Procs \ {p}
    BY <1>1 DEF Writers
  <2>2. QED BY <1>1, <1>2, <1>4, <2>1, OtherWriters DEF StayInv, Readable
<1>5. QED BY <1>3, <1>4

LEMMA RestKeepsRoutes ==
  ASSUME StayInv, NEW p \in Procs, StepOf(p),
         ~Write(p), ~WriteNew(p), ~WriteFails(p), ~Kill(p), ~Open(p)
  PROVE  /\ inserted' \subseteq DOMAIN files'["route"].has
         /\ inserted' = {} \/ Readable("route")' \/ Writers("route")' # {}
<1>1. files' = files /\ inserted' = inserted /\ pc[p] # "write"
  BY DEF StepOf, ToolStep, CommandStep, DaemonStep, Start, MayStart, EnsureExists, EnsureMissing,
         LoadAddrs, Load, GiveUp, StartDaemon, ScanAddrs, ScanRoutes, ScanFails, Pick
<1>2. Writers("route") \subseteq Procs \ {p}
  BY <1>1 DEF Writers
<1>3. QED BY <1>1, <1>2, OtherWriters DEF StayInv, Readable

LEMMA StayInductive ==
  ASSUME StayInv, [Next]_vars
  PROVE  StayInv'
<1>1. PhaseInv'
  BY PhasesInductive DEF StayInv
<1>2. CASE UNCHANGED vars
  BY <1>1, <1>2 DEF vars, StayInv, Readable, Writers, Target
<1>3. CASE Next
  <2>1. PICK p \in Procs : StepOf(p)
    BY <1>3, NextIsStepOf
  <2>2. QED BY <1>1, <2>1, WriteKeepsRoutes, EndKeepsRoutes, OpenKeepsRoutes, RestKeepsRoutes
            DEF StayInv
<1>4. QED BY <1>2, <1>3

\* However processes overlap and fail, routes.conf has every route that it had at
\* first or that insert_route has reported, and that remove_route has not removed,
\* and it can be read or is about to be written: unless a process wrote an outdated
\* copy, ended between truncating and writing, or mixed its text with another one
\* (nhip-cfg/src/lib.rs:294, 299, 312-343).  For any commands, files, processes and
\* bounds.
THEOREM InsertedRoutesStay == Spec => []InsertedStay
<1>1. Init => StayInv
  <2> SUFFICES ASSUME Init PROVE StayInv
    OBVIOUS
  <2>1. PICK s \in StartStates :
          /\ files = [f \in Files |-> [is |-> s[f], has |-> IF s[f] = "missing" THEN Nothing ELSE StartFiles[f]]]
          /\ inserted = IF s["route"] = "whole" THEN DOMAIN StartFiles["route"] ELSE {}
    BY DEF Init
  <2>2. files["route"].is = s["route"]
        /\ files["route"].has = IF s["route"] = "missing" THEN Nothing ELSE StartFiles["route"]
    BY <2>1 DEF Files
  <2>3. QED BY <2>1, <2>2, PhasesInit DEF StayInv, Readable
<1>2. StayInv => InsertedStay
  BY DEF StayInv, InsertedStay
<1>3. QED BY <1>1, <1>2, StayInductive, PTL DEF Spec

-----------------------------------------------------------------------------
(* One process at a time, and all files are whole or missing at first *)

Exclusive == /\ Overlap = FALSE
             /\ \A s \in StartStates : \A f \in Files : s[f] \in {"missing", "whole"}

Alone == \A p, q \in Procs : (pc[p] # "idle" /\ pc[q] # "idle") => p = q

FilesIntact == \A f \in Files : /\ files[f].is \in {"missing", "empty", "whole"}
                                /\ files[f].is = "missing" => files[f].has = Nothing

\* What a process has loaded is what the files hold.
OwnFiles(p) ==
  /\ pc[p] = "write" => files[Target(p)].is = "empty"
  /\ pc[p] = "open" => files[Target(p)].is = IF Ensuring(p) THEN "missing" ELSE "whole"
  /\ (pc[p] \in Writing /\ Ensuring(p)) => files[Target(p)].has = Nothing
  /\ (pc[p] \in Writing /\ ~Ensuring(p))
       => /\ files[TargetOf(cur[p])].is # "missing"
          /\ base[p] = files[TargetOf(cur[p])].has
          /\ ~Refused(cur[p], files["addr"].has)
          /\ ~Leaves(cur[p], files["addr"].has, base[p])
  /\ (pc[p] \in {"load", "open", "write"} /\ ~Ensuring(p) /\ TargetOf(cur[p]) = "route")
       => seen[p] = files["addr"].has /\ files["addr"].is = "whole"

OwnCommand(p) ==
  pc[p] \in Busy => /\ p \in Tools => cur[p] \in Commands
                    /\ p = Daemon => /\ ~Ensuring(p)
                                     /\ cur[p] \in Connected(files["addr"].has, Ifaces)

DaemonList ==
  /\ todo \subseteq LocalAddresses(files["addr"].has, Ifaces)
  /\ pc[Daemon] \in {"idle", "scan addrs", "scan routes"} => todo = {}
  /\ pc[Daemon] = "scan routes" => seen[Daemon] = files["addr"].has

EmptyOnlyWritten ==
  \A f \in Files : (failures = 0 /\ files[f].is = "empty")
                     => \E p \in Procs : pc[p] = "write" /\ Target(p) = f

StoreInv == /\ PhaseInv /\ Alone /\ FilesIntact /\ DaemonList
            /\ \A p \in Procs : OwnFiles(p) /\ OwnCommand(p)

LEMMA FilesNamed == "addr" \in Files /\ "route" \in Files /\ "ngh" \in Files
BY DEF Files

LEMMA ConnectedInserts ==
  \A cfg, ifaces : \A c \in Connected(cfg, ifaces) : c.op = "route add" /\ TargetOf(c) = "route"
BY ConnectedOp DEF Connected, TargetOf

LEMMA TargetOfInFiles == \A c : c.op \in Ops => TargetOf(c) \in Files
BY DEF TargetOf, Ops, Files

LEMMA ActiveNotIdle ==
  ASSUME Exclusive, StoreInv, NEW p \in Procs, StepOf(p), NEW q \in Procs \ {p}
  PROVE  pc[q] = "idle" /\ pc'[q] = "idle"
<1>1. pc[q] = "idle"
  <2>1. CASE pc[p] # "idle"
    BY <2>1 DEF StoreInv, Alone
  <2>2. CASE pc[p] = "idle"
    <3>1. MayStart(p)
      BY <2>2 DEF StepOf, ToolStep, CommandStep, DaemonStep, Start, EnsureExists, EnsureMissing,
                  WriteNew, LoadAddrs, Load, GiveUp, Open, Write, WriteFails, Kill,
                  StartDaemon, ScanAddrs, ScanRoutes, ScanFails, Pick
    <3>2. QED BY <3>1 DEF MayStart, Exclusive
  <2>3. QED BY <2>1, <2>2
<1>2. QED BY <1>1, OthersStay DEF StoreInv

\* The commands for neighbours do not look at the addresses.
LEMMA NeighboursIgnoreAddresses ==
  ASSUME NEW c, TargetOf(c) = "ngh", c.op \in Ops, NEW x, NEW y, NEW old
  PROVE  /\ Refused(c, x) = Refused(c, y)
         /\ Leaves(c, x, old) = Leaves(c, y, old)
         /\ Changed(c, x, old) = Changed(c, y, old)
<1>1. c.op \in {"neighbor add", "neighbor delete"}
  BY DEF TargetOf, Ops
<1>2. Refused(c, x) = Refused(c, y)
  BY <1>1 DEF Refused
<1>3. Leaves(c, x, old) = Leaves(c, y, old)
  BY <1>1 DEF Leaves
<1>4. Changed(c, x, old) = Changed(c, y, old)
  BY <1>1 DEF Changed
<1>5. QED BY <1>2, <1>3, <1>4

LEMMA GoesByTheFile ==
  ASSUME NEW p \in Procs, cur[p].op \in Ops, NEW old,
         TargetOf(cur[p]) = "addr" => old = files["addr"].has,
         TargetOf(cur[p]) = "route" => seen[p] = files["addr"].has
  PROVE  /\ Refused(cur[p], ConfigWith(p, old)) = Refused(cur[p], files["addr"].has)
         /\ Leaves(cur[p], ConfigWith(p, old), old) = Leaves(cur[p], files["addr"].has, old)
         /\ Changed(cur[p], ConfigWith(p, old), old) = Changed(cur[p], files["addr"].has, old)
<1>1. CASE TargetOf(cur[p]) = "ngh"
  BY <1>1, NeighboursIgnoreAddresses
<1>2. CASE TargetOf(cur[p]) \in {"addr", "route"}
  <2>1. ConfigWith(p, old) = files["addr"].has
    BY <1>2 DEF ConfigWith
  <2>2. QED BY <2>1
<1>3. QED BY <1>1, <1>2, TargetOfInFiles DEF Files

LEMMA CommandTarget ==
  ASSUME StoreInv, NEW p \in Procs, pc[p] \in Writing, ~Ensuring(p)
  PROVE  Target(p) = TargetOf(cur[p]) /\ cur[p].op \in Ops /\ Target(p) \in Files
BY TargetInFiles DEF Target, Ensuring, StoreInv, PhaseInv, Phases, Writing, Busy

\* What Write leaves behind.
LEMMA WriteSets ==
  ASSUME StoreInv, NEW p \in Procs, Write(p)
  PROVE  /\ Target(p) = TargetOf(cur[p]) /\ Target(p) \in Files /\ cur[p].op \in Ops
         /\ ~Ensuring(p) /\ pc[p] = "write"
         /\ files' = [files EXCEPT ![Target(p)] =
                        [is |-> "whole",
                         has |-> Changed(cur[p], files["addr"].has, files[Target(p)].has)]]
<1>1. pc[p] = "write" /\ pc[p] \in Writing /\ ~Ensuring(p)
  BY Numbers DEF Write, Writing, Ensuring
<1>2. Target(p) = TargetOf(cur[p]) /\ cur[p].op \in Ops /\ Target(p) \in Files
  BY <1>1, CommandTarget
<1>3. files[Target(p)].is = "empty" /\ base[p] = files[Target(p)].has
      /\ (TargetOf(cur[p]) = "route" => seen[p] = files["addr"].has)
  BY <1>1, <1>2 DEF StoreInv, OwnFiles
<1>4. Text(p) = Changed(cur[p], files["addr"].has, files[Target(p)].has)
  <2>1. Text(p) = Changed(cur[p], ConfigWith(p, base[p]), base[p])
    BY <1>1 DEF Text, Ensuring
  <2>2. QED BY <1>2, <1>3, <2>1, GoesByTheFile
<1>5. PICK new \in Overwritten(Target(p), Text(p)) : files' = [files EXCEPT ![Target(p)] = new]
  BY DEF Write
<1>6. new = [is |-> "whole", has |-> Text(p)]
  BY <1>3, OverwrittenHas
<1>7. QED BY <1>1, <1>2, <1>4, <1>5, <1>6

LEMMA WriteNewSets ==
  ASSUME StoreInv, NEW p \in Procs, WriteNew(p)
  PROVE  /\ Target(p) \in Files /\ Ensuring(p)
         /\ files[Target(p)].has = Nothing
         /\ files' = [files EXCEPT ![Target(p)] = [is |-> "whole", has |-> Nothing]]
<1>1. pc[p] = "write" /\ pc[p] \in Writing /\ Ensuring(p)
  BY DEF WriteNew, Writing, Ensuring
<1>2. Target(p) \in Files
  BY <1>1, TargetInFiles DEF StoreInv
<1>3. files[Target(p)].is = "empty" /\ files[Target(p)].has = Nothing
  BY <1>1 DEF StoreInv, OwnFiles
<1>4. Text(p) = Nothing
  BY <1>1 DEF Text, Ensuring
<1>5. PICK new \in Overwritten(Target(p), Text(p)) : files' = [files EXCEPT ![Target(p)] = new]
  BY DEF WriteNew
<1>6. new = [is |-> "whole", has |-> Text(p)]
  BY <1>3, OverwrittenHas
<1>7. QED BY <1>1, <1>2, <1>3, <1>4, <1>5, <1>6

\* Only Write changes what a file holds.
LEMMA OnlyWriteChanges ==
  ASSUME StoreInv, NEW p \in Procs, StepOf(p), ~Write(p)
  PROVE  \A f \in Files : files'[f].has = files[f].has
<1>1. CASE Open(p)
  <2>1. Target(p) \in Files
    BY <1>1, TargetInFiles DEF Open, Writing, StoreInv
  <2>2. QED BY <1>1, <2>1 DEF Open, StoreInv, PhaseInv, Shape, FileShape
<1>2. CASE WriteNew(p)
  BY <1>2, WriteNewSets DEF StoreInv, PhaseInv, Shape, FileShape
<1>3. CASE ~Open(p) /\ ~WriteNew(p)
  BY <1>3 DEF StepOf, ToolStep, CommandStep, DaemonStep, Start, EnsureExists, EnsureMissing,
              LoadAddrs, Load, GiveUp, WriteFails, Kill, StartDaemon, ScanAddrs, ScanRoutes,
              ScanFails, Pick
<1>4. QED BY <1>1, <1>2, <1>3

\* The daemon writes routes.conf only.
LEMMA DaemonLeavesAddresses ==
  ASSUME StoreInv, NEW p \in Procs, StepOf(p), p = Daemon
  PROVE  files'["addr"].has = files["addr"].has
<1>1. CASE Write(p)
  <2>1. pc[p] \in Busy /\ Target(p) = TargetOf(cur[p])
    BY <1>1, WriteSets DEF Busy
  <2>2. Target(p) = "route"
    BY <2>1, ConnectedInserts DEF StoreInv, OwnCommand
  <2>3. QED BY <1>1, <2>2, WriteSets, FilesNamed DEF StoreInv, PhaseInv, Shape, FileShape
<1>2. CASE ~Write(p)
  BY <1>2, OnlyWriteChanges, FilesNamed
<1>3. QED BY <1>1, <1>2

LEMMA AtRest == ASSUME NEW p, pc[p] \in {"idle", "pick"} PROVE OwnFiles(p) /\ OwnCommand(p)
BY DEF OwnFiles, OwnCommand, Writing, Busy

LEMMA EndsAtRest ==
  ASSUME PhaseInv, NEW p \in Procs,
         GiveUp(p) \/ Write(p) \/ WriteFails(p) \/ Kill(p) \/ (p = Daemon /\ ScanFails)
  PROVE  pc'[p] \in {"idle", "pick"}
<1>1. Ends(p) \/ Stops(p)
  BY DEF GiveUp, Write, WriteFails, Kill, ScanFails
<1>2. PICK s \in {"idle", "pick"} : pc' = [pc EXCEPT ![p] = s]
  BY <1>1, EndsGoes
<1>3. QED BY <1>2 DEF PhaseInv, Shape

LEMMA FilesStayIntact ==
  ASSUME StoreInv, NEW p \in Procs, StepOf(p)
  PROVE  FilesIntact'
<1>1. CASE Open(p)
  <2>1. Target(p) \in Files
    BY <1>1, TargetInFiles DEF Open, Writing, StoreInv
  <2>2. QED BY <1>1, <2>1 DEF Open, StoreInv, PhaseInv, Shape, FileShape, FilesIntact
<1>2. CASE WriteNew(p)
  BY <1>2, WriteNewSets DEF StoreInv, PhaseInv, Shape, FileShape, FilesIntact
<1>3. CASE Write(p)
  BY <1>3, WriteSets DEF StoreInv, PhaseInv, Shape, FileShape, FilesIntact
<1>4. CASE files' = files
  BY <1>4 DEF StoreInv, FilesIntact
<1>5. CASE ~Open(p) /\ ~WriteNew(p) /\ ~Write(p)
  BY <1>4, <1>5 DEF StepOf, ToolStep, CommandStep, DaemonStep, Start, EnsureExists, EnsureMissing,
                    LoadAddrs, Load, GiveUp, WriteFails, Kill, StartDaemon, ScanAddrs, ScanRoutes,
                    ScanFails, Pick
<1>6. QED BY <1>1, <1>2, <1>3, <1>5

LEMMA StepOwnFiles ==
  ASSUME StoreInv, NEW p \in Procs, StepOf(p)
  PROVE  OwnFiles(p)'
<1> USE DEF StoreInv
<1>1. CASE GiveUp(p) \/ Write(p) \/ WriteFails(p) \/ Kill(p) \/ (p = Daemon /\ ScanFails)
  <2>1. pc'[p] \in {"idle", "pick"}
    BY <1>1, EndsAtRest
  <2>2. QED BY <2>1 DEF OwnFiles, Writing
<1>2. CASE p = Daemon /\ (StartDaemon \/ ScanAddrs \/ ScanRoutes \/ Pick)
  <2>1. pc'[p] \notin {"load", "open", "write"}
    BY <1>2 DEF StartDaemon, ScanAddrs, ScanRoutes, Pick, PhaseInv, Shape
  <2>2. QED BY <2>1 DEF OwnFiles, Writing
<1>3. CASE \E c \in Commands : Start(p, c)
  <2>1. pc'[p] = "ensure"
    BY <1>3 DEF Start, PhaseInv, Shape
  <2>2. QED BY <2>1 DEF OwnFiles, Writing
<1>4. CASE EnsureExists(p) \/ WriteNew(p)
  <2>1. pc'[p] = AfterEnsure(p) /\ cur' = cur
    BY <1>4 DEF EnsureExists, WriteNew, PhaseInv, Shape
  <2>2. AfterEnsure(p) \in {"ensure", "load addrs"} \/ (AfterEnsure(p) = "load" /\ TargetOf(cur[p]) # "route")
    BY DEF AfterEnsure, FirstLoad
  <2>3. QED BY <2>1, <2>2 DEF OwnFiles, Writing
<1>5. CASE EnsureMissing(p)
  <2>1. Ensuring(p) /\ at[p] \in 1..3
    BY <1>5, EnsuringAt DEF EnsureMissing, PhaseInv, Phases
  <2>2. Target(p) = Order[at[p]] /\ Order[at[p]] \in Files
    BY <2>1, OrderInFiles DEF Target, Ensuring
  <2>3. files[Target(p)].has = Nothing /\ files[Target(p)].is = "missing" /\ files' = files
    BY <1>5, <2>2 DEF EnsureMissing, FilesIntact
  <2>4. pc'[p] = "open" /\ Target(p)' = Target(p) /\ Ensuring(p)'
    BY <1>5, <2>1 DEF EnsureMissing, PhaseInv, Shape, Target, Ensuring
  <2>5. QED BY <1>5, <2>3, <2>4 DEF EnsureMissing, OwnFiles
<1>6. CASE LoadAddrs(p)
  <2>1. /\ pc'[p] = "load" /\ seen'[p] = files["addr"].has /\ files' = files
        /\ files["addr"].is = "whole"
    BY <1>6 DEF LoadAddrs, Readable, PhaseInv, Shape
  <2>2. QED BY <2>1 DEF OwnFiles, Writing
<1>7. CASE Load(p)
  <2> DEFINE f == TargetOf(cur[p])
  <2>1. /\ pc[p] = "load" /\ pc'[p] = "open" /\ UNCHANGED <<files, at, cur, seen>>
        /\ base'[p] = files[f].has /\ files[f].is = "whole"
    BY <1>7 DEF Load, Readable, PhaseInv, Shape
  <2>2. ~Ensuring(p) /\ cur[p].op \in Ops
    BY <2>1 DEF PhaseInv, Phases, Busy
  <2>3. ~Ensuring(p)'
    BY <2>1, <2>2 DEF Ensuring
  <2>4. f = "route" => seen[p] = files["addr"].has /\ files["addr"].is = "whole"
    BY <2>1, <2>2 DEF OwnFiles
  <2>5. /\ ~Refused(cur[p], ConfigWith(p, files[f].has))
        /\ ~Leaves(cur[p], ConfigWith(p, files[f].has), files[f].has)
    BY <1>7 DEF Load, HasNothingToDo
  <2>6. ~Refused(cur[p], files["addr"].has) /\ ~Leaves(cur[p], files["addr"].has, files[f].has)
    BY <2>2, <2>4, <2>5, GoesByTheFile
  <2>7. Target(p)' = f
    BY <2>1, <2>2 DEF Target, Ensuring
  <2>8. QED BY <2>1, <2>3, <2>4, <2>6, <2>7 DEF OwnFiles
<1>8. CASE Open(p)
  <2>1. pc[p] \in Writing /\ pc[p] = "open" /\ pc'[p] = "write" /\ UNCHANGED <<at, cur, seen, base>>
    BY <1>8 DEF Open, Writing, PhaseInv, Shape
  <2>2. Target(p) \in Files /\ Target(p)' = Target(p) /\ Ensuring(p)' = Ensuring(p)
    BY <2>1, TargetInFiles DEF Target, Ensuring
  <2>3. /\ files'[Target(p)].is = "empty"
        /\ \A f \in Files : files[f].is # "missing" => files'[f].is # "missing"
        /\ \A f \in Files : files'[f].has = files[f].has
    BY <1>8, <2>2 DEF Open, PhaseInv, Shape, FileShape
  <2>4. /\ ~Ensuring(p) => TargetOf(cur[p]) = Target(p)
        /\ Target(p) = "route" => files'["addr"] = files["addr"]
    BY <1>8, <2>1, <2>2, CommandTarget, FilesNamed DEF Open, PhaseInv, Shape, FileShape
  <2>5. QED BY <2>1, <2>2, <2>3, <2>4, FilesNamed DEF OwnFiles, Writing
<1>9. QED BY <1>1, <1>2, <1>3, <1>4, <1>5, <1>6, <1>7, <1>8 DEF StepOf, ToolStep, CommandStep, DaemonStep

LEMMA StepOwnCommand ==
  ASSUME StoreInv, NEW p \in Procs, StepOf(p)
  PROVE  OwnCommand(p)'
<1> USE DEF StoreInv
<1>1. CASE GiveUp(p) \/ Write(p) \/ WriteFails(p) \/ Kill(p) \/ (p = Daemon /\ ScanFails)
  <2>1. pc'[p] \in {"idle", "pick"}
    BY <1>1, EndsAtRest
  <2>2. QED BY <2>1 DEF OwnCommand, Busy
<1>2. CASE p = Daemon /\ (StartDaemon \/ ScanAddrs \/ ScanRoutes)
  <2>1. pc'[p] \in {"idle", "scan addrs", "scan routes", "pick"}
    BY <1>2 DEF StartDaemon, ScanAddrs, ScanRoutes, PhaseInv, Shape
  <2>2. QED BY <2>1 DEF OwnCommand, Busy
<1>3. CASE p = Daemon /\ Pick
  <2>1. PICK x \in todo : cur' = [cur EXCEPT ![Daemon] = ConnectedTo(x[1], x[2])] /\ files' = files
    BY <1>3 DEF Pick
  <2>2. x \in LocalAddresses(files["addr"].has, Ifaces)
    BY <2>1 DEF DaemonList
  <2>3. ConnectedTo(x[1], x[2]) \in Connected(files["addr"].has, Ifaces)
    BY <2>2 DEF Connected
  <2>4. cur'[p] = ConnectedTo(x[1], x[2])
    BY <1>3, <2>1 DEF PhaseInv, Shape
  <2>5. p \notin Tools
    BY <1>3, ProcessAssumption
  <2>6. ~Ensuring(Daemon) /\ Ensuring(Daemon)' = Ensuring(Daemon)
    BY <1>3 DEF Pick, PhaseInv, Phases, Ensuring
  <2>7. QED BY <1>3, <2>1, <2>3, <2>4, <2>5, <2>6 DEF OwnCommand
<1>4. CASE p \in Tools /\ \E c \in Commands : Start(p, c)
  <2>1. PICK c \in Commands : Start(p, c)
    BY <1>4
  <2>2. cur'[p] = c /\ p # Daemon
    BY <1>4, <2>1, ProcessAssumption DEF Start, PhaseInv, Shape
  <2>3. QED BY <2>2 DEF OwnCommand
<1>5. CASE p \in Tools /\ (EnsureExists(p) \/ EnsureMissing(p) \/ WriteNew(p))
  <2>1. cur' = cur /\ pc[p] \in Busy
    BY <1>5 DEF EnsureExists, EnsureMissing, WriteNew, Busy
  <2>2. p # Daemon
    BY <1>5, ProcessAssumption
  <2>3. QED BY <2>1, <2>2 DEF OwnCommand
<1>6. CASE LoadAddrs(p) \/ Load(p) \/ (Open(p) /\ ~Write(p))
  <2>1. cur' = cur /\ pc[p] \in Busy /\ Ensuring(p)' = Ensuring(p)
    BY <1>6 DEF LoadAddrs, Load, Open, Busy, Ensuring
  <2>2. files'["addr"].has = files["addr"].has
    BY <1>6, OnlyWriteChanges, FilesNamed DEF LoadAddrs, Load
  <2>3. QED BY <2>1, <2>2 DEF OwnCommand
<1>7. QED BY <1>1, <1>2, <1>3, <1>4, <1>5, <1>6 DEF StepOf, ToolStep, CommandStep, DaemonStep

LEMMA StepDaemonList ==
  ASSUME Exclusive, StoreInv, NEW p \in Procs, StepOf(p)
  PROVE  DaemonList'
<1>1. Daemon \in Procs
  BY DEF Procs
<1>2. CASE p # Daemon
  <2>1. pc[Daemon] = "idle" /\ pc'[Daemon] = "idle"
    BY <1>1, <1>2, ActiveNotIdle
  <2>2. todo = {}
    BY <2>1 DEF StoreInv, DaemonList
  <2>3. todo' = todo
    BY <1>2 DEF StepOf, ToolStep, CommandStep, Start, EnsureExists, EnsureMissing, WriteNew,
                LoadAddrs, Load, GiveUp, Open, Write, WriteFails, Kill, Ends, Stops
  <2>4. QED BY <2>1, <2>2, <2>3 DEF DaemonList
<1>3. CASE p = Daemon
  <2>1. files'["addr"].has = files["addr"].has
    BY <1>3, DaemonLeavesAddresses
  <2>2. p \notin Tools
    BY <1>3, ProcessAssumption
  <2>3. CASE GiveUp(p) \/ Write(p) \/ WriteFails(p)
    <3>1. Ends(p)
      BY <2>3 DEF GiveUp, Write, WriteFails
    <3>2. todo' = todo /\ pc'[p] = IF todo # {} THEN "pick" ELSE "idle"
      BY <1>3, <3>1 DEF Ends, StoreInv, PhaseInv, Shape
    <3>3. QED BY <1>3, <2>1, <3>2 DEF StoreInv, DaemonList
  <2>4. CASE Kill(p) \/ ScanFails
    <3>1. Stops(p)
      BY <1>3, <2>4 DEF Kill, ScanFails
    <3>2. todo' = {} /\ pc'[p] = "idle"
      BY <1>3, <3>1 DEF Stops, StoreInv, PhaseInv, Shape
    <3>3. QED BY <1>3, <3>2 DEF DaemonList
  <2>5. CASE LoadAddrs(p) \/ Load(p) \/ Open(p)
    <3>1. todo' = todo /\ pc'[p] \in {"load", "open", "write"}
      BY <2>5 DEF LoadAddrs, Load, Open, StoreInv, PhaseInv, Shape
    <3>2. QED BY <1>3, <2>1, <3>1 DEF StoreInv, DaemonList
  <2>6. CASE StartDaemon
    <3>1. todo' = todo /\ todo = {} /\ pc'[Daemon] = "scan addrs"
      BY <1>1, <2>6 DEF StartDaemon, MayStart, StoreInv, DaemonList, PhaseInv, Shape
    <3>2. QED BY <3>1 DEF DaemonList
  <2>7. CASE ScanAddrs
    <3>1. /\ todo' = todo /\ todo = {} /\ pc'[Daemon] = "scan routes"
          /\ seen'[Daemon] = files["addr"].has
      BY <1>1, <2>7 DEF ScanAddrs, StoreInv, DaemonList, PhaseInv, Shape
    <3>2. QED BY <2>1, <3>1 DEF DaemonList
  <2>8. CASE ScanRoutes
    <3>1. todo' = LocalAddresses(files["addr"].has, Ifaces)
      BY <2>8 DEF ScanRoutes, StoreInv, DaemonList
    <3>2. pc'[Daemon] = IF todo' = {} THEN "idle" ELSE "pick"
      BY <1>1, <2>8 DEF ScanRoutes, StoreInv, PhaseInv, Shape
    <3>3. QED BY <2>1, <3>1, <3>2 DEF DaemonList
  <2>9. CASE Pick
    <3>1. todo' \subseteq todo /\ pc'[Daemon] = "load addrs"
      BY <1>1, <2>9 DEF Pick, StoreInv, PhaseInv, Shape
    <3>2. QED BY <2>1, <3>1 DEF StoreInv, DaemonList
  <2>10. QED BY <1>3, <2>2, <2>3, <2>4, <2>5, <2>6, <2>7, <2>8, <2>9
             DEF StepOf, CommandStep, DaemonStep
<1>4. QED BY <1>2, <1>3

LEMMA StoreInductive ==
  ASSUME Exclusive, StoreInv, [Next]_vars
  PROVE  StoreInv'
<1>1. PhaseInv'
  BY PhasesInductive DEF StoreInv
<1>2. CASE UNCHANGED vars
  <2>1. \A p \in Procs : Ensuring(p)' = Ensuring(p) /\ Target(p)' = Target(p)
    BY <1>2 DEF vars, Ensuring, Target
  <2>2. QED BY <1>1, <1>2, <2>1 DEF vars, StoreInv, Alone, FilesIntact, DaemonList, OwnFiles, OwnCommand
<1>3. CASE Next
  <2>1. PICK p \in Procs : StepOf(p)
    BY <1>3, NextIsStepOf
  <2>2. Alone'
    BY <2>1, ActiveNotIdle DEF Alone
  <2>3. ASSUME NEW q \in Procs PROVE OwnFiles(q)' /\ OwnCommand(q)'
    <3>1. CASE q = p
      BY <2>1, <3>1, StepOwnFiles, StepOwnCommand
    <3>2. CASE q # p
      <4>1. pc'[q] = "idle"
        BY <2>1, <3>2, ActiveNotIdle
      <4>2. QED BY <4>1 DEF OwnFiles, OwnCommand, Writing, Busy
    <3>3. QED BY <3>1, <3>2
  <2>4. QED BY <1>1, <2>1, <2>2, <2>3, FilesStayIntact, StepDaemonList DEF StoreInv
<1>4. QED BY <1>2, <1>3

LEMMA StoreInit == ASSUME Exclusive PROVE Init => StoreInv
<1> SUFFICES ASSUME Init PROVE StoreInv
  OBVIOUS
<1>1. PICK s \in StartStates :
        files = [f \in Files |-> [is |-> s[f], has |-> IF s[f] = "missing" THEN Nothing ELSE StartFiles[f]]]
  BY DEF Init
<1>2. FilesIntact
  BY <1>1 DEF FilesIntact, Exclusive
<1>3. \A p \in Procs : pc[p] = "idle"
  BY DEF Init
<1>4. DaemonList
  BY <1>3 DEF Init, DaemonList, Procs
<1>5. \A p \in Procs : OwnFiles(p) /\ OwnCommand(p)
  BY <1>3, AtRest
<1>6. QED BY <1>2, <1>3, <1>4, <1>5, PhasesInit DEF StoreInv, Alone

-----------------------------------------------------------------------------
(* What follows from it *)

\* The store carries out commands as the processes do: its operators are the same.
LEMMA SameTexts ==
  \A text, dev, cfg : /\ Store!Expands(text, dev, cfg) = Expands(text, dev, cfg)
                      /\ Store!Expand(text, dev, cfg) = Expand(text, dev, cfg)
                      /\ Store!IsAddress(text) = IsAddress(text)
                      /\ Store!Netpart(text) = Netpart(text)
<1> TAKE text, dev, cfg
<1>1. Store!HasTilde(text) = HasTilde(text)
  BY DEF Store!HasTilde, HasTilde
<1>2. Store!Expands(text, dev, cfg) = Expands(text, dev, cfg)
  BY <1>1 DEF Store!Expands, Expands, Store!NoPrefix, NoPrefix
<1>3. Store!Expand(text, dev, cfg) = Expand(text, dev, cfg)
  BY <1>1 DEF Store!Expand, Expand
<1>4. Store!IsAddress(text) = IsAddress(text)
  BY DEF Store!IsAddress, IsAddress
<1>5. Store!Netpart(text) = Netpart(text)
  BY DEF Store!Netpart, Netpart
<1>6. QED BY <1>2, <1>3, <1>4, <1>5

LEMMA SameTarget == Store!Files = Files /\ Store!Nothing = Nothing
                    /\ \A c : Store!TargetOf(c) = TargetOf(c)
BY DEF Store!Files, Files, Store!Nothing, Nothing, Store!TargetOf, TargetOf

LEMMA SameRoutes ==
  \A c, cfg, old : /\ Store!RouteOf(c, cfg) = RouteOf(c, cfg)
                   /\ Store!Exists(c, cfg, old) = Exists(c, cfg, old)
                   /\ Store!HasDestination(c, cfg, old) = HasDestination(c, cfg, old)
                   /\ Store!Named(c, cfg, old) = Named(c, cfg, old)
<1> TAKE c, cfg, old
<1>1. Store!RouteOf(c, cfg) = RouteOf(c, cfg)
  BY SameTexts DEF Store!RouteOf, RouteOf
<1>2. Store!Exists(c, cfg, old) = Exists(c, cfg, old)
  BY <1>1 DEF Store!Exists, Exists
<1>3. Store!HasDestination(c, cfg, old) = HasDestination(c, cfg, old)
  BY SameTexts DEF Store!HasDestination, HasDestination
<1>4. Store!Named(c, cfg, old) = Named(c, cfg, old)
  BY <1>1, SameTexts DEF Store!Named, Named, Store!Default, Default
<1>5. QED BY <1>1, <1>2, <1>3, <1>4

LEMMA SameRefused == \A c, cfg : Store!Refused(c, cfg) = Refused(c, cfg)
BY SameTexts, SameTarget DEF Store!Refused, Refused

LEMMA SameLeaves == \A c, cfg, old : Store!Leaves(c, cfg, old) = Leaves(c, cfg, old)
BY SameRoutes DEF Store!Leaves, Leaves

LEMMA SameChanged == \A c, cfg, old : Store!Changed(c, cfg, old) = Changed(c, cfg, old)
<1> TAKE c, cfg, old
<1>1. Store!AddAddress(c, cfg) = AddAddress(c, cfg)
  BY SameTexts DEF Store!AddAddress, AddAddress, Store!NoPrefix, NoPrefix
<1>2. Store!DeleteAddress(c, cfg) = DeleteAddress(c, cfg)
  BY SameTexts DEF Store!DeleteAddress, DeleteAddress
<1>3. \A e : Store!Plus(old, e) = Plus(old, e)
  BY DEF Store!Plus, Plus
<1>4. \A S : Store!Without(old, S) = Without(old, S)
  BY DEF Store!Without, Without
<1>5. Store!NeighbourOf(c) = NeighbourOf(c)
  BY DEF Store!NeighbourOf, NeighbourOf
<1>6. QED BY <1>1, <1>2, <1>3, <1>4, <1>5, SameRoutes DEF Store!Changed, Changed

LEMMA SameConnected == \A cfg, ifaces : Store!Connected(cfg, ifaces) = Connected(cfg, ifaces)
<1> TAKE cfg, ifaces
<1>1. Store!LocalAddresses(cfg, ifaces) = LocalAddresses(cfg, ifaces)
  BY SameTexts DEF Store!LocalAddresses, LocalAddresses
<1>2. \A dev, addr : Store!ConnectedTo(dev, addr) = ConnectedTo(dev, addr)
  BY SameTexts DEF Store!ConnectedTo, ConnectedTo, Store!LocalHop, LocalHop
<1>3. QED BY <1>1, <1>2 DEF Store!Connected, Connected

\* The process that takes a step is the only one that may be writing.
LEMMA OneWriter ==
  ASSUME Exclusive, StoreInv, NEW p \in Procs, StepOf(p)
  PROVE  \A f : /\ Writers(f) = IF pc[p] = "write" /\ Target(p) = f THEN {p} ELSE {}
               /\ Writers(f)' = IF pc'[p] = "write" /\ Target(p)' = f THEN {p} ELSE {}
<1>1. \A q \in Procs \ {p} : pc[q] = "idle" /\ pc'[q] = "idle"
  BY ActiveNotIdle
<1>2. QED BY <1>1 DEF Writers

Held == [f \in Files |-> IF f \in Lost THEN Nothing ELSE files[f].has]

LEMMA LostIsSet == Lost \subseteq Files /\ \A f \in Files \ Lost : Held[f] = files[f].has
BY DEF Lost, Held

\* A file that is not lost before and after a step, or in the same way.
LEMMA LostKept ==
  ASSUME \A f \in Files : f \in Lost <=> f \in Lost'
  PROVE  Lost' = Lost
BY DEF Lost

LEMMA WriteLoses ==
  ASSUME Exclusive, StoreInv, NEW p \in Procs, StepOf(p), Write(p) \/ WriteNew(p)
  PROVE  Lost' = Lost /\ Target(p) \notin Lost
<1>1. pc[p] = "write" /\ Target(p) \in Files
  BY WriteSets, WriteNewSets DEF Write, WriteNew
<1>2. /\ files'[Target(p)].is = "whole"
      /\ \A f \in Files \ {Target(p)} : files'[f] = files[f]
  BY WriteSets, WriteNewSets DEF StoreInv, PhaseInv, Shape, FileShape
<1>3. \A f : Writers(f) = IF Target(p) = f THEN {p} ELSE {}
  BY <1>1, OneWriter
<1>4. \A f : Writers(f)' = {}
  <2>1. pc'[p] # "write"
    <3>1. CASE Write(p)
      BY <3>1, EndsAtRest DEF StoreInv
    <3>2. CASE WriteNew(p)
      <4>1. pc' = [pc EXCEPT ![p] = AfterEnsure(p)]
        BY <3>2 DEF WriteNew
      <4>2. AfterEnsure(p) # "write"
        BY DEF AfterEnsure, FirstLoad
      <4>3. QED BY <4>1, <4>2 DEF StoreInv, PhaseInv, Shape
    <3>3. QED BY <3>1, <3>2
  <2>2. QED BY <2>1, OneWriter
<1>5. Target(p) \notin Lost
  BY <1>3 DEF Lost
<1>6. \A f \in Files : f \in Lost <=> f \in Lost'
  <2> TAKE f \in Files
  <2>1. CASE f = Target(p)
    BY <1>2, <1>5, <2>1 DEF Lost
  <2>2. CASE f # Target(p)
    BY <1>2, <1>3, <1>4, <2>2 DEF Lost
  <2>3. QED BY <2>1, <2>2
<1>7. QED BY <1>5, <1>6, LostKept

\* The commands for neighbours need no addresses, the other ones have loaded them.
LEMMA WriteIsCommand ==
  ASSUME Exclusive, StoreInv, NEW p \in Procs, StepOf(p), Write(p)
  PROVE  Store!Next
<1>0. PICK c : c = cur[p]
  OBVIOUS
<1>1. /\ Target(p) = TargetOf(c) /\ Target(p) \in Files /\ ~Ensuring(p) /\ pc[p] = "write"
      /\ c.op \in Ops
      /\ files' = [files EXCEPT ![Target(p)] =
                     [is |-> "whole", has |-> Changed(c, files["addr"].has, files[Target(p)].has)]]
  BY <1>0, WriteSets
<1>2. Lost' = Lost /\ Target(p) \notin Lost
  BY WriteLoses
<1>3. Held[TargetOf(c)] = files[TargetOf(c)].has
  BY <1>1, <1>2, LostIsSet
<1>4. /\ c \in Commands \cup Connected(files["addr"].has, Ifaces)
      /\ p = Daemon => TargetOf(c) = "route"
      /\ p # Daemon => c \in Commands
  <2>1. pc[p] \in Busy
    BY <1>1 DEF Busy
  <2>2. p \in Tools => c \in Commands
    BY <1>0, <2>1 DEF StoreInv, OwnCommand
  <2>3. p = Daemon => c \in Connected(files["addr"].has, Ifaces)
    BY <1>0, <2>1 DEF StoreInv, OwnCommand
  <2>4. QED BY <2>2, <2>3, ConnectedInserts DEF Procs
<1>5. /\ ~Refused(c, files["addr"].has)
      /\ ~Leaves(c, files["addr"].has, files[TargetOf(c)].has)
  BY <1>0, <1>1 DEF StoreInv, OwnFiles, Writing
<1>6. TargetOf(c) # "ngh" => "addr" \notin Lost /\ Held["addr"] = files["addr"].has
  <2>1. CASE TargetOf(c) = "addr"
    BY <1>1, <1>2, <1>3, <2>1
  <2>2. CASE TargetOf(c) = "route"
    <3>1. files["addr"].is = "whole"
      BY <1>0, <1>1, <2>2 DEF StoreInv, OwnFiles
    <3>2. "addr" \notin Lost
      BY <3>1 DEF Lost
    <3>3. QED BY <3>2, LostIsSet, FilesNamed
  <2>3. QED BY <1>1, <2>1, <2>2 DEF Files
<1>7. /\ Refused(c, Held["addr"]) = Refused(c, files["addr"].has)
      /\ \A old : /\ Leaves(c, Held["addr"], old) = Leaves(c, files["addr"].has, old)
                  /\ Changed(c, Held["addr"], old) = Changed(c, files["addr"].has, old)
  <2>1. CASE TargetOf(c) = "ngh"
    BY <1>1, <2>1, NeighboursIgnoreAddresses
  <2>2. CASE TargetOf(c) # "ngh"
    BY <1>6, <2>2
  <2>3. QED BY <2>1, <2>2
<1>8. Held' = [Held EXCEPT ![TargetOf(c)] = Changed(c, Held["addr"], Held[TargetOf(c)])]
  <2> DEFINE new == Changed(c, files["addr"].has, files[TargetOf(c)].has)
             after == [Held EXCEPT ![TargetOf(c)] = new]
  <2>1. /\ files'[TargetOf(c)].has = new
        /\ \A f \in Files \ {TargetOf(c)} : files'[f] = files[f]
    BY <1>1 DEF StoreInv, PhaseInv, Shape, FileShape
  <2> HIDE DEF new
  <2>2. Held' = [f \in Files |-> IF f \in Lost THEN Nothing ELSE files'[f].has]
    BY <1>2 DEF Held
  <2>3. after = [f \in Files |-> IF f = TargetOf(c) THEN new ELSE Held[f]]
    BY DEF Held
  <2>4. \A f \in Files : (IF f \in Lost THEN Nothing ELSE files'[f].has)
                           = (IF f = TargetOf(c) THEN new ELSE Held[f])
    BY <1>1, <1>2, <2>1 DEF Held
  <2>5. Held' = after
    BY <2>2, <2>3, <2>4, Zenon
  <2>6. new = Changed(c, Held["addr"], Held[TargetOf(c)])
    BY <1>3, <1>7 DEF new
  <2>7. QED BY <2>5, <2>6
<1>9. Store!Needed(c) \cap Lost = {}
  BY <1>1, <1>2, <1>6, SameTarget DEF Store!Needed
<1>10. ~Refused(c, Held["addr"]) /\ ~Leaves(c, Held["addr"], Held[TargetOf(c)])
  BY <1>3, <1>5, <1>7
<1>11. Store!Execute(c)
  BY <1>2, <1>8, <1>9, <1>10, SameTarget, SameRefused, SameLeaves, SameChanged
     DEF Store!Execute, Held
<1>12. c \in Commands \cup Store!Connected(Held["addr"], Ifaces)
  <2>1. CASE p = Daemon
    BY <1>4, <1>6, <2>1, SameConnected
  <2>2. CASE p # Daemon
    BY <1>4, <2>2
  <2>3. QED BY <2>1, <2>2
<1>13. QED BY <1>11, <1>12 DEF Store!Next, Held

\* A process ends between truncating a file and writing it.
LEMMA EndLosesFile ==
  ASSUME Exclusive, StoreInv, NEW p \in Procs, StepOf(p), WriteFails(p) \/ Kill(p), pc[p] = "write"
  PROVE  Store!Next
<1>0. PICK t : t = Target(p)
  OBVIOUS
<1>1. files' = files /\ pc'[p] # "write"
  BY EndsAtRest DEF WriteFails, Kill, StoreInv
<1>2. t \in Files /\ files[t].is = "empty"
  BY <1>0, TargetInFiles DEF StoreInv, OwnFiles, Writing
<1>3. \A f : Writers(f)' = {} /\ Writers(f) = IF f = t THEN {p} ELSE {}
  BY <1>0, <1>1, OneWriter
<1>4. t \notin Lost /\ t \in Lost'
  BY <1>1, <1>2, <1>3 DEF Lost
<1>5. \A f \in Files \ {t} : f \in Lost <=> f \in Lost'
  BY <1>1, <1>3 DEF Lost
<1>6. Lost' = Lost \cup {t}
  <2>1. Lost \subseteq Files /\ Lost' \subseteq Files
    BY DEF Lost
  <2>2. QED BY <1>2, <1>4, <1>5, <2>1
<1>7. Held' = [Held EXCEPT ![t] = Nothing]
  <2>1. Held' = [f \in Files |-> IF f \in Lost \cup {t} THEN Nothing ELSE files[f].has]
    BY <1>1, <1>6 DEF Held
  <2>2. \A f \in Files : (IF f \in Lost \cup {t} THEN Nothing ELSE files[f].has)
                           = (IF f = t THEN Nothing ELSE Held[f])
    BY DEF Held
  <2>3. [Held EXCEPT ![t] = Nothing] = [f \in Files |-> IF f = t THEN Nothing ELSE Held[f]]
    BY DEF Held
  <2>4. QED BY <2>1, <2>2, <2>3, Zenon
<1>8. Store!Lose(t)
  BY <1>4, <1>6, <1>7, SameTarget DEF Store!Lose, Held
<1>9. QED BY <1>2, <1>8, SameTarget DEF Store!Next

LEMMA OtherStepsStutter ==
  ASSUME Exclusive, StoreInv, NEW p \in Procs, StepOf(p), ~Write(p),
         (WriteFails(p) \/ Kill(p)) => pc[p] # "write"
  PROVE  Lost' = Lost /\ Held' = Held
<1>1. \A f \in Files : files'[f].has = files[f].has
  BY OnlyWriteChanges
<1>2. Lost' = Lost
  <2>1. CASE WriteNew(p)
    BY <2>1, WriteLoses
  <2>2. CASE Open(p)
    <3>1. /\ pc[p] = "open" /\ pc'[p] = "write" /\ pc[p] \in Writing /\ Target(p)' = Target(p)
      BY <2>2 DEF Open, Writing, Target, StoreInv, PhaseInv, Shape
    <3>2. Target(p) \in Files /\ files[Target(p)].is # "empty" /\ files[Target(p)].is # "garbled"
      BY <3>1, TargetInFiles DEF StoreInv, OwnFiles
    <3>3. \A f \in Files \ {Target(p)} : files'[f] = files[f]
      BY <2>2, <3>2 DEF Open, StoreInv, PhaseInv, Shape, FileShape
    <3>4. \A f : Writers(f) = {} /\ Writers(f)' = IF Target(p) = f THEN {p} ELSE {}
      BY <3>1, OneWriter
    <3>5. \A f \in Files : f \in Lost <=> f \in Lost'
      <4> TAKE f \in Files
      <4>1. CASE f = Target(p)
        BY <3>2, <3>4, <4>1 DEF Lost
      <4>2. CASE f # Target(p)
        BY <3>3, <3>4, <4>2 DEF Lost
      <4>3. QED BY <4>1, <4>2
    <3>6. QED BY <3>5, LostKept
  <2>3. CASE ~WriteNew(p) /\ ~Open(p)
    <3>1. files' = files /\ pc[p] # "write"
      BY <2>3 DEF StepOf, ToolStep, CommandStep, DaemonStep, Start, MayStart, EnsureExists,
                  EnsureMissing, LoadAddrs, Load, GiveUp, WriteFails, Kill, StartDaemon, ScanAddrs,
                  ScanRoutes, ScanFails, Pick
    <3>2. pc'[p] # "write"
      <4>1. CASE GiveUp(p) \/ WriteFails(p) \/ Kill(p) \/ (p = Daemon /\ ScanFails)
        BY <4>1, EndsAtRest DEF StoreInv
      <4>2. CASE ~(GiveUp(p) \/ WriteFails(p) \/ Kill(p) \/ (p = Daemon /\ ScanFails))
        BY <2>3, <4>2
           DEF StepOf, ToolStep, CommandStep, DaemonStep, Start, EnsureExists, AfterEnsure, FirstLoad,
               EnsureMissing, LoadAddrs, Load, StartDaemon, ScanAddrs, ScanRoutes, Pick,
               StoreInv, PhaseInv, Shape
      <4>3. QED BY <4>1, <4>2
    <3>3. \A f : Writers(f) = {} /\ Writers(f)' = {}
      BY <3>1, <3>2, OneWriter
    <3>4. QED BY <3>1, <3>3 DEF Lost
  <2>4. QED BY <2>1, <2>2, <2>3
<1>3. Held' = Held
  BY <1>1, <1>2 DEF Held
<1>4. QED BY <1>2, <1>3

\* One process at a time: what the files hold, or held before the process that is at
\* work truncated them, is a store of commands that do all of their work or nothing,
\* or lose the file that they change, for any commands, files, processes and bounds
\* (nhipctl/src/main.rs:173-396, nhipd/src/forward.rs:107-125).
THEOREM FilesAreAtomicStore == ASSUME Exclusive PROVE Spec => AtomicStore
<1>1. Init => Store!Init
  <2> SUFFICES ASSUME Init PROVE Store!Init
    OBVIOUS
  <2>1. PICK s \in StartStates :
          files = [f \in Files |-> [is |-> s[f], has |-> IF s[f] = "missing" THEN Nothing ELSE StartFiles[f]]]
    BY DEF Init
  <2> DEFINE existing == {f \in Files : s[f] # "missing"}
  <2>2. Lost = {}
    BY <2>1 DEF Lost, Exclusive
  <2>3. Held = [f \in Files |-> IF f \in existing \ Lost THEN StartFiles[f] ELSE Nothing]
    BY <2>1, <2>2 DEF Held
  <2>4. Lost \in SUBSET Files /\ existing \in SUBSET Files
    BY <2>2
  <2>5. QED BY <2>3, <2>4, SameTarget DEF Store!Init, Held
<1>2. StoreInv /\ [Next]_vars => [Store!Next]_(Store!vars)
  <2> SUFFICES ASSUME StoreInv, [Next]_vars PROVE [Store!Next]_(Store!vars)
    OBVIOUS
  <2>1. CASE UNCHANGED vars
    BY <2>1 DEF vars, Store!vars, Lost, Writers, Target
  <2>2. CASE Next
    <3>1. PICK p \in Procs : StepOf(p)
      BY <2>2, NextIsStepOf
    <3>2. CASE Write(p)
      BY <3>1, <3>2, WriteIsCommand
    <3>3. CASE (WriteFails(p) \/ Kill(p)) /\ pc[p] = "write"
      BY <3>1, <3>3, EndLosesFile
    <3>4. CASE ~Write(p) /\ ((WriteFails(p) \/ Kill(p)) => pc[p] # "write")
      BY <3>1, <3>4, OtherStepsStutter DEF Store!vars, Held
    <3>5. QED BY <3>2, <3>3, <3>4
  <2>3. QED BY <2>1, <2>2
<1>3. QED BY <1>1, <1>2, StoreInit, StoreInductive, PTL DEF Spec, AtomicStore, Store!Spec

-----------------------------------------------------------------------------
(* Nothing stays torn *)

LEMMA FailuresCount ==
  ASSUME NEW p \in Procs, StepOf(p), failures \in Nat
  PROVE  /\ failures' \in Nat
         /\ failures' = 0 => failures = 0 /\ ~WriteFails(p) /\ ~Kill(p)
<1>1. CASE WriteFails(p) \/ Kill(p)
  <2>1. failures' = failures + 1
    BY <1>1 DEF WriteFails, Kill
  <2>2. QED BY <2>1
<1>2. CASE ~WriteFails(p) /\ ~Kill(p)
  <2>1. failures' = failures
    BY <1>2 DEF StepOf, ToolStep, CommandStep, DaemonStep, Start, EnsureExists, EnsureMissing,
                WriteNew, LoadAddrs, Load, GiveUp, Open, Write, StartDaemon, ScanAddrs,
                ScanRoutes, ScanFails, Pick
  <2>2. QED BY <1>2, <2>1
<1>3. QED BY <1>1, <1>2

\* Write, of a command that changes routes.conf.
LEMMA WriteSetsRoutes ==
  ASSUME StoreInv, NEW p \in Procs, Write(p), TargetOf(cur[p]) = "route"
  PROVE  /\ files'["route"].has = Changed(cur[p], files["addr"].has, files["route"].has)
         /\ files'["addr"].has = files["addr"].has
<1>1. Target(p) = "route"
  BY WriteSets
<1>2. files' = [files EXCEPT !["route"] =
                  [is |-> "whole",
                   has |-> Changed(cur[p], files["addr"].has, files["route"].has)]]
  BY <1>1, WriteSets
<1>3. DOMAIN files = Files
  BY DEF StoreInv, PhaseInv, Shape, FileShape
<1>4. QED BY <1>2, <1>3, FilesNamed

LEMMA EmptyStaysWritten ==
  ASSUME Exclusive, StoreInv, EmptyOnlyWritten, failures \in Nat,
         NEW p \in Procs, StepOf(p)
  PROVE  EmptyOnlyWritten' /\ failures' \in Nat
<1>1. failures' \in Nat /\ (failures' = 0 => failures = 0 /\ ~WriteFails(p) /\ ~Kill(p))
  BY FailuresCount
<1> SUFFICES ASSUME NEW f \in Files, failures' = 0, files'[f].is = "empty"
             PROVE  \E q \in Procs : pc'[q] = "write" /\ Target(q)' = f
  BY <1>1 DEF EmptyOnlyWritten
<1>2. files[f].is = "empty" => pc[p] = "write" /\ Target(p) = f
  <2> SUFFICES ASSUME files[f].is = "empty" PROVE pc[p] = "write" /\ Target(p) = f
    OBVIOUS
  <2>1. PICK q \in Procs : pc[q] = "write" /\ Target(q) = f
    BY <1>1 DEF EmptyOnlyWritten
  <2>2. q = p
    BY <2>1, ActiveNotIdle
  <2>3. QED BY <2>1, <2>2
<1>3. CASE Open(p)
  <2>1. pc[p] = "open" /\ pc'[p] = "write" /\ pc[p] \in Writing /\ Target(p)' = Target(p)
    BY <1>3 DEF Open, Writing, Target, StoreInv, PhaseInv, Shape
  <2>2. Target(p) \in Files
    BY <2>1, TargetInFiles DEF StoreInv
  <2>3. f = Target(p)
    BY <1>2, <1>3, <2>1, <2>2 DEF Open, StoreInv, PhaseInv, Shape, FileShape
  <2>4. QED BY <2>1, <2>3
<1>4. CASE WriteNew(p)
  BY <1>2, <1>4, WriteNewSets DEF StoreInv, PhaseInv, Shape, FileShape
<1>5. CASE Write(p)
  BY <1>2, <1>5, WriteSets DEF StoreInv, PhaseInv, Shape, FileShape
<1>6. CASE WriteFails(p) \/ Kill(p)
  BY <1>1, <1>6
<1>7. CASE ~Open(p) /\ ~WriteNew(p) /\ ~Write(p) /\ ~WriteFails(p) /\ ~Kill(p)
  <2>1. files' = files /\ pc[p] # "write"
    BY <1>7 DEF StepOf, ToolStep, CommandStep, DaemonStep, Start, MayStart, EnsureExists,
                EnsureMissing, LoadAddrs, Load, GiveUp, StartDaemon, ScanAddrs, ScanRoutes,
                ScanFails, Pick
  <2>2. QED BY <1>2, <2>1
<1>8. QED BY <1>3, <1>4, <1>5, <1>6, <1>7

LEMMA PlusKeeps == \A bag, e : DOMAIN Plus(bag, e) = DOMAIN bag \cup {e}
BY DEF Plus

-----------------------------------------------------------------------------
(* check_connected *)

Covered(x) ==
  LET c == ConnectedTo(x[1], x[2])
  IN ~Refused(c, files["addr"].has) => Exists(c, files["addr"].has, files["route"].has)

AtWork(x) == pc[Daemon] \in Busy /\ cur[Daemon] = ConnectedTo(x[1], x[2])

\* The addresses that check_connected is through with have their routes.
Settled == \A x \in LocalAddresses(files["addr"].has, Ifaces) \ todo : Covered(x) \/ AtWork(x)

Present == files["addr"].is # "missing" /\ files["route"].is # "missing"

SettledSoFar ==
  (failures = 0 /\ Present /\ pc[Daemon] \in Busy \cup {"pick"}) => Settled

RoutesOnlyGrow == DOMAIN files["route"].has \subseteq DOMAIN files'["route"].has

LEMMA DaemonOnlyInserts ==
  ASSUME StoreInv, StepOf(Daemon), Daemon \in Procs
  PROVE  RoutesOnlyGrow
<1>1. CASE Write(Daemon)
  <2>1. cur[Daemon].op = "route add" /\ TargetOf(cur[Daemon]) = "route"
    <3>1. pc[Daemon] \in Busy
      BY <1>1, WriteSets DEF Busy
    <3>2. QED BY <3>1, ConnectedInserts DEF StoreInv, OwnCommand
  <2>2. files'["route"].has = Changed(cur[Daemon], files["addr"].has, files["route"].has)
    BY <1>1, <2>1, WriteSetsRoutes
  <2>3. files'["route"].has = Plus(files["route"].has, RouteOf(cur[Daemon], files["addr"].has))
    BY <2>1, <2>2 DEF Changed
  <2>4. DOMAIN files'["route"].has
          = DOMAIN files["route"].has \cup {RouteOf(cur[Daemon], files["addr"].has)}
    BY <2>3, PlusKeeps
  <2>5. QED BY <2>4 DEF RoutesOnlyGrow
<1>2. CASE ~Write(Daemon)
  BY <1>2, OnlyWriteChanges, FilesNamed DEF RoutesOnlyGrow
<1>3. QED BY <1>1, <1>2

LEMMA CoveredStays ==
  ASSUME StoreInv, StepOf(Daemon), Daemon \in Procs, NEW x, Covered(x)
  PROVE  Covered(x)'
<1>1. files'["addr"].has = files["addr"].has
  BY DaemonLeavesAddresses
<1>2. DOMAIN files["route"].has \subseteq DOMAIN files'["route"].has
  BY DaemonOnlyInserts DEF RoutesOnlyGrow
<1>3. QED BY <1>1, <1>2 DEF Covered, Exists

\* The end of insert_route for one address.
LEMMA FinishedIsCovered ==
  ASSUME StoreInv, EmptyOnlyWritten, Daemon \in Procs, failures = 0, Present,
         GiveUp(Daemon) \/ Write(Daemon), NEW x, AtWork(x)
  PROVE  Covered(x)'
<1> DEFINE c == ConnectedTo(x[1], x[2])
<1>1. cur[Daemon] = c /\ c.op = "route add" /\ TargetOf(c) = "route" /\ c.op \in Ops
  BY ConnectedOp DEF AtWork, TargetOf, Ops
<1>2. StepOf(Daemon) /\ Covered(x) => Covered(x)'
  BY CoveredStays
<1>3. CASE Write(Daemon)
  <2>1. /\ files'["route"].has = Changed(c, files["addr"].has, files["route"].has)
        /\ files'["addr"].has = files["addr"].has
    BY <1>1, <1>3, WriteSetsRoutes
  <2>2. files'["route"].has = Plus(files["route"].has, RouteOf(c, files["addr"].has))
    BY <1>1, <2>1 DEF Changed
  <2>3. RouteOf(c, files["addr"].has) \in DOMAIN files'["route"].has
    <3>1. DOMAIN files'["route"].has = DOMAIN files["route"].has \cup {RouteOf(c, files["addr"].has)}
      BY <2>2, PlusKeeps
    <3>2. QED BY <3>1
  <2>4. QED BY <2>1, <2>3 DEF Covered, Exists
<1>4. CASE GiveUp(Daemon)
  <2>1. pc[Daemon] \in {"load addrs", "load"} /\ pc[Daemon] \notin {"idle", "write"}
    BY <1>4 DEF GiveUp
  <2>2. Readable("addr") /\ Readable("route")
    <3>1. \A q \in Procs : pc[q] # "write"
      BY <2>1 DEF StoreInv, Alone
    <3>2. QED BY <3>1, FilesNamed DEF EmptyOnlyWritten, StoreInv, FilesIntact, Present, Readable
  <2>3. pc[Daemon] = "load" /\ HasNothingToDo(Daemon, files["route"].has)
    BY <1>1, <1>4, <2>2 DEF GiveUp
  <2>4. seen[Daemon] = files["addr"].has
    <3>1. ~Ensuring(Daemon)
      BY <2>3 DEF StoreInv, PhaseInv, Phases
    <3>2. QED BY <1>1, <2>3, <3>1 DEF StoreInv, OwnFiles
  <2>5. ~Refused(c, files["addr"].has) => Leaves(c, files["addr"].has, files["route"].has)
    BY <1>1, <2>3, <2>4 DEF HasNothingToDo, ConfigWith
  <2>6. Covered(x)
    BY <1>1, <2>5 DEF Leaves, Covered
  <2>7. StepOf(Daemon)
    BY <1>4 DEF StepOf, CommandStep
  <2>8. QED BY <1>2, <2>6, <2>7
<1>5. QED BY <1>3, <1>4

\* What a step of the daemon does once it has scanned the files.
LEMMA DaemonSettles ==
  ASSUME Exclusive, StoreInv, EmptyOnlyWritten, failures \in Nat, SettledSoFar,
         Daemon \in Procs, StepOf(Daemon), failures' = 0, Present, Present',
         pc[Daemon] \in Busy \cup {"scan routes", "pick"}
  PROVE  Settled' \/ ScanFails
<1>1. files'["addr"].has = files["addr"].has
  BY DaemonLeavesAddresses
<1>2. failures = 0 /\ ~WriteFails(Daemon) /\ ~Kill(Daemon)
  BY FailuresCount
<1>3. ASSUME NEW x, Covered(x) PROVE Covered(x)'
  BY <1>3, CoveredStays
<1>4. CASE ScanRoutes
  <2>1. todo' = LocalAddresses(files["addr"].has, Ifaces)
    BY <1>4 DEF ScanRoutes, StoreInv, DaemonList
  <2>2. QED BY <1>1, <2>1 DEF Settled
<1>5. CASE Pick
  <2>1. PICK x \in todo : todo' = todo \ {x} /\ cur' = [cur EXCEPT ![Daemon] = ConnectedTo(x[1], x[2])]
    BY <1>5 DEF Pick
  <2>2. cur'[Daemon] = ConnectedTo(x[1], x[2]) /\ pc[Daemon] = "pick" /\ pc'[Daemon] = "load addrs"
    BY <1>5, <2>1 DEF Pick, StoreInv, PhaseInv, Shape
  <2>3. Settled
    BY <1>2, <2>2 DEF SettledSoFar
  <2>4. ASSUME NEW y \in LocalAddresses(files["addr"].has, Ifaces) \ todo' PROVE Covered(y)' \/ AtWork(y)'
    <3>1. CASE y = x
      BY <2>2, <3>1 DEF AtWork, Busy
    <3>2. CASE y # x
      <4>1. Covered(y)
        BY <2>1, <2>2, <2>3, <3>2 DEF Settled, AtWork, Busy
      <4>2. QED BY <1>3, <4>1
    <3>3. QED BY <3>1, <3>2
  <2>5. QED BY <1>1, <2>4 DEF Settled
<1>6. CASE LoadAddrs(Daemon) \/ Load(Daemon) \/ Open(Daemon)
  <2>1. /\ cur' = cur /\ todo' = todo /\ pc[Daemon] \in Busy /\ pc'[Daemon] \in Busy
    BY <1>6 DEF LoadAddrs, Load, Open, Busy, StoreInv, PhaseInv, Shape
  <2>2. Settled
    BY <1>2, <2>1 DEF SettledSoFar
  <2>3. ASSUME NEW y \in LocalAddresses(files["addr"].has, Ifaces) \ todo' PROVE Covered(y)' \/ AtWork(y)'
    <3>1. Covered(y) \/ AtWork(y)
      BY <2>1, <2>2 DEF Settled
    <3>2. AtWork(y) => AtWork(y)'
      BY <2>1 DEF AtWork
    <3>3. QED BY <1>3, <3>1, <3>2
  <2>4. QED BY <1>1, <2>3 DEF Settled
<1>7. CASE GiveUp(Daemon) \/ Write(Daemon)
  <2>1. todo' = todo /\ pc[Daemon] \in Busy
    BY <1>7 DEF GiveUp, Write, Ends, Busy
  <2>2. Settled
    BY <1>2, <2>1 DEF SettledSoFar
  <2>3. ASSUME NEW y \in LocalAddresses(files["addr"].has, Ifaces) \ todo' PROVE Covered(y)'
    <3>1. Covered(y) \/ AtWork(y)
      BY <2>1, <2>2, <2>3 DEF Settled
    <3>2. QED BY <1>2, <1>3, <1>7, <3>1, FinishedIsCovered
  <2>4. QED BY <1>1, <2>3 DEF Settled
<1>8. QED
  <2>1. Daemon \notin Tools
    BY ProcessAssumption
  <2>2. ~StartDaemon /\ ~ScanAddrs
    BY DEF StartDaemon, MayStart, ScanAddrs, Busy
  <2>3. QED BY <1>2, <1>4, <1>5, <1>6, <1>7, <2>1, <2>2 DEF StepOf, CommandStep, DaemonStep

\* The daemon creates no file.
LEMMA DaemonCreatesNothing ==
  ASSUME StoreInv, Daemon \in Procs, StepOf(Daemon), Present'
  PROVE  Present
<1>1. Daemon \notin Tools
  BY ProcessAssumption
<1>2. CASE Open(Daemon)
  <2>1. pc[Daemon] \in Writing /\ pc[Daemon] \in Busy
    BY <1>2 DEF Open, Writing, Busy
  <2>2. ~Ensuring(Daemon)
    BY <2>1 DEF StoreInv, OwnCommand
  <2>3. files[Target(Daemon)].is # "missing" /\ Target(Daemon) \in Files
    BY <2>1, <2>2, CommandTarget DEF StoreInv, OwnFiles
  <2>4. \A f \in Files \ {Target(Daemon)} : files'[f] = files[f]
    BY <1>2, <2>3 DEF Open, StoreInv, PhaseInv, Shape, FileShape
  <2>5. QED BY <2>3, <2>4, FilesNamed DEF Present
<1>3. CASE Write(Daemon)
  <2>1. pc[Daemon] = "write" /\ Target(Daemon) \in Files
        /\ \A f \in Files \ {Target(Daemon)} : files'[f] = files[f]
    BY <1>3, WriteSets DEF StoreInv, PhaseInv, Shape, FileShape
  <2>2. files[Target(Daemon)].is = "empty"
    BY <2>1 DEF StoreInv, OwnFiles
  <2>3. QED BY <2>1, <2>2, FilesNamed DEF Present
<1>4. CASE ~Open(Daemon) /\ ~Write(Daemon)
  <2>1. files' = files
    BY <1>1, <1>4 DEF StepOf, CommandStep, DaemonStep, LoadAddrs, Load, GiveUp, WriteFails, Kill,
                      StartDaemon, ScanAddrs, ScanRoutes, ScanFails, Pick
  <2>2. QED BY <2>1 DEF Present
<1>5. QED BY <1>2, <1>3, <1>4

LEMMA SettledSoFarKept ==
  ASSUME Exclusive, StoreInv, EmptyOnlyWritten, failures \in Nat, SettledSoFar,
         NEW p \in Procs, StepOf(p)
  PROVE  SettledSoFar'
<1> SUFFICES ASSUME failures' = 0, Present', pc'[Daemon] \in Busy \cup {"pick"}
             PROVE  Settled'
  BY DEF SettledSoFar
<1>1. Daemon \in Procs
  BY DEF Procs
<1>2. p = Daemon
  <2>1. pc'[Daemon] # "idle"
    BY DEF Busy
  <2>2. QED BY <1>1, <2>1, ActiveNotIdle
<1>3. Present
  BY <1>1, <1>2, DaemonCreatesNothing
<1>4. /\ ~StartDaemon /\ ~ScanAddrs /\ ~ScanFails
      /\ Daemon \notin Tools
  BY <1>1, ProcessAssumption
     DEF StartDaemon, ScanAddrs, ScanFails, Stops, Busy, StoreInv, PhaseInv, Shape
<1>5. pc[Daemon] \in Busy \cup {"scan routes", "pick"}
  <2>1. CASE Kill(p)
    BY <1>1, <1>2, <2>1 DEF Kill, Stops, Busy, StoreInv, PhaseInv, Shape
  <2>2. CASE ~Kill(p)
    BY <1>2, <1>4, <2>2 DEF StepOf, CommandStep, DaemonStep, LoadAddrs, Load, GiveUp, Open, Write,
                            WriteFails, ScanRoutes, Pick, Busy
  <2>3. QED BY <2>1, <2>2
<1>6. QED BY <1>1, <1>2, <1>3, <1>4, <1>5, DaemonSettles

FullInv == StoreInv /\ EmptyOnlyWritten /\ failures \in Nat /\ SettledSoFar

LEMMA FullInductive ==
  ASSUME Exclusive, FullInv, [Next]_vars
  PROVE  FullInv'
<1>1. StoreInv'
  BY StoreInductive DEF FullInv
<1>2. CASE UNCHANGED vars
  <2>1. EmptyOnlyWritten' /\ failures' \in Nat
    BY <1>2 DEF vars, FullInv, EmptyOnlyWritten, Target
  <2>2. SettledSoFar'
    BY <1>2 DEF vars, FullInv, SettledSoFar, Present, Settled, Covered, AtWork
  <2>3. QED BY <1>1, <2>1, <2>2 DEF FullInv
<1>3. CASE Next
  <2>1. PICK p \in Procs : StepOf(p)
    BY <1>3, NextIsStepOf
  <2>2. QED BY <1>1, <2>1, EmptyStaysWritten, SettledSoFarKept DEF FullInv
<1>4. QED BY <1>2, <1>3

LEMMA FullInit == ASSUME Exclusive PROVE Init => FullInv
<1> SUFFICES ASSUME Init PROVE FullInv
  OBVIOUS
<1>1. StoreInv
  BY StoreInit
<1>2. EmptyOnlyWritten
  <2>1. PICK s \in StartStates :
          files = [f \in Files |-> [is |-> s[f], has |-> IF s[f] = "missing" THEN Nothing ELSE StartFiles[f]]]
    BY DEF Init
  <2>2. QED BY <2>1 DEF EmptyOnlyWritten, Exclusive
<1>3. failures \in Nat /\ pc[Daemon] = "idle"
  BY DEF Init, Procs
<1>4. SettledSoFar
  BY <1>3 DEF SettledSoFar, Busy
<1>5. QED BY <1>1, <1>2, <1>3, <1>4 DEF FullInv

\* One process at a time, and none has failed: a file that cannot be read is a
\* file that a process is about to write (nhip-cfg/src/lib.rs:261, 294, 405).
THEOREM NothingStaysTorn == ASSUME Exclusive PROVE Spec => []TornOnlyWhileWritten
<1>1. FullInv => TornOnlyWhileWritten
  BY DEF FullInv, StoreInv, FilesIntact, EmptyOnlyWritten, TornOnlyWhileWritten, Writers
<1>2. QED BY <1>1, FullInit, FullInductive, PTL DEF Spec

\* One process at a time, and none fails: when check_connected is through,
\* routes.conf has a route of the network of every address of the daemon's
\* interfaces (nhipd/src/forward.rs:107).
THEOREM EveryNetworkConnected == ASSUME Exclusive PROVE Spec => ConnectedAfterStart
<1> DEFINE ended == /\ pc[Daemon] \in {"load", "write", "scan routes"}
                    /\ pc'[Daemon] = "idle"
                    /\ failures = 0 /\ failures' = 0
                    /\ files'["addr"].is = "whole" /\ files'["route"].is = "whole"
           complete == \A c \in Connected(files["addr"].has, Ifaces) :
                         ~Refused(c, files["addr"].has)
                           => Exists(c, files["addr"].has, files'["route"].has)
<1>1. FullInv /\ FullInv' /\ [Next]_vars => [ended => complete]_vars
  <2> SUFFICES ASSUME FullInv, FullInv', Next, ended PROVE complete
    BY DEF vars
  <2>1. Daemon \in Procs
    BY DEF Procs
  <2>2. PICK p \in Procs : StepOf(p)
    BY NextIsStepOf
  <2>3. p = Daemon
    BY <2>1, <2>2, ActiveNotIdle DEF FullInv
  <2>4. Present' /\ Present
    <3>1. Present'
      BY DEF Present
    <3>2. QED BY <2>1, <2>2, <2>3, <3>1, DaemonCreatesNothing DEF FullInv
  <2>5. ~ScanFails
    BY DEF ScanFails, Readable
  <2>6. Settled'
    BY <2>1, <2>2, <2>3, <2>4, <2>5, DaemonSettles DEF FullInv, Busy
  <2>7. files'["addr"].has = files["addr"].has
    BY <2>1, <2>2, <2>3, DaemonLeavesAddresses DEF FullInv
  <2>8. todo' = {}
    BY DEF FullInv, StoreInv, DaemonList
  <2>9. \A x \in LocalAddresses(files["addr"].has, Ifaces) : Covered(x)'
    BY <2>6, <2>7, <2>8 DEF Settled, AtWork, Busy
  <2>10. QED BY <2>7, <2>9 DEF Covered, Connected
<1>2. QED BY <1>1, FullInit, FullInductive, PTL DEF Spec, ConnectedAfterStart
=============================================================================
