---------------------------- MODULE SqliteLocks ----------------------------
(***************************************************************************)
(* The file locks of the local backend, as sqlite3.connect(autocommit=False) *)
(* (src/twitch_scout/store/db.py) leaves them to its callers: the first     *)
(* SELECT of a transaction takes the shared lock, the first write upgrades *)
(* it, the commit waits until nobody else reads, and only the end of the   *)
(* transaction gives a lock back.  A wait is a step that is not enabled;   *)
(* the busy timeout that ends it is up to the modules that extend this one. *)
(***************************************************************************)
EXTENDS Naturals

CONSTANT Processes

VARIABLE lock  \* "none", "shared", "reserved" or "pending", for each process

Locks == [Processes -> {"none", "shared", "reserved", "pending"}]

Hold(p, l) == lock' = [lock EXCEPT ![p] = l]
Release(p) == Hold(p, "none")

OthersHold(p, locks) == \E q \in Processes \ {p} : lock[q] \in locks

\* A SELECT.  A commit that waits for readers lets no new one in.
Select(p) ==
    /\ lock[p] = "none" => ~OthersHold(p, {"pending"})
    /\ Hold(p, IF lock[p] = "none" THEN "shared" ELSE lock[p])

\* A write, by the one process that may.
Write(p) ==
    /\ ~OthersHold(p, {"reserved", "pending"})
    /\ Hold(p, "reserved")

\* A reader that wants to write while another does is refused at once: the other
\* will wait for it.
Refused(p) == lock[p] = "shared" /\ OthersHold(p, {"reserved", "pending"})

\* The commit stops new readers, then needs the file for itself.
BeginCommit(p) == lock[p] = "reserved" /\ Hold(p, "pending")
MayCommit(p) == lock[p] = "pending" /\ ~OthersHold(p, {"shared"})
=============================================================================
