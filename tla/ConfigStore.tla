----------------------------- MODULE ConfigStore -----------------------------
(***************************************************************************)
(* What the files in /etc/nhip promise: a store that carries out one       *)
(* command at a time.  A command does all of its work or nothing, or it    *)
(* loses the file that it changes, and whatever the file held: nothing is  *)
(* half written or half changed.                                           *)
(***************************************************************************)
EXTENDS ConfigData

CONSTANTS Ifaces,    \* interfaces of the daemon
          StartFiles \* what files that exist hold at first

VARIABLES store, \* what each file holds
          lost   \* files that are emptied or mixed up

vars == <<store, lost>>

\* Files that do not exist hold nothing.
Init == \E existing \in SUBSET Files :
          /\ lost \in SUBSET Files
          /\ store = [f \in Files |-> IF f \in existing \ lost THEN StartFiles[f] ELSE Nothing]

\* The files that a command loads.
Needed(c) == IF TargetOf(c) = "route" THEN {"addr", "route"} ELSE {TargetOf(c)}

\* A command that finds something to do.
Execute(c) ==
  /\ Needed(c) \cap lost = {}
  /\ ~Refused(c, store["addr"])
  /\ ~Leaves(c, store["addr"], store[TargetOf(c)])
  /\ store' = [store EXCEPT ![TargetOf(c)] = Changed(c, store["addr"], @)]
  /\ UNCHANGED lost

\* A process ends after it has truncated a file.
Lose(f) ==
  /\ f \notin lost
  /\ store' = [store EXCEPT ![f] = Nothing]
  /\ lost' = lost \cup {f}

Next == \/ \E c \in Commands \cup Connected(store["addr"], Ifaces) : Execute(c)
        \/ \E f \in Files : Lose(f)

Spec == Init /\ [][Next]_vars
=============================================================================
