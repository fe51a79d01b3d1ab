-------------------------------- MODULE Backup --------------------------------
(***************************************************************************)
(* What snapshot.py promises to an operator: the data directory belongs to *)
(* the node, to a job or to nobody, and whoever does not hold it leaves it *)
(* alone.  A copy is made, and a copy is restored, in one step, and the    *)
(* directory goes back to a node that can run on it.  A copy that was      *)
(* broken off may be there in part, and is restored in part.  SnapshotJob, *)
(* where all of this takes many writes and calls, implements it.           *)
(***************************************************************************)
EXTENDS Naturals

CONSTANTS
    Names,      \* the copies
    Heights,    \* of the chain
    Nil

VARIABLES
    holder,     \* who may change the directory: "node", "create", "restore" or "nobody"
    dir,        \* its height, last signed height, and if it is whole
    copies      \* of the directory, by name; Nil: there is none that can be used

vars == <<holder, dir, copies>>

Dirs == [height : Heights, whole : BOOLEAN, pv : Heights \union {Nil}]

\* Of all of a directory, or of a part.
Copy(d, part) == [height |-> d.height, whole |-> d.whole, pv |-> d.pv, part |-> part]

\* A node can run on it.
Fit == dir.whole /\ dir.pv # Nil

Init ==
    /\ holder = "node"
    /\ dir \in Dirs /\ Fit
    /\ copies = [n \in Names |-> Nil]

\* The chain and what is signed go on.
Use ==
    /\ holder = "node" /\ Fit
    /\ dir' \in Dirs
    /\ dir'.whole /\ dir'.height >= dir.height /\ dir'.pv >= dir.pv
    /\ UNCHANGED <<holder, copies>>

Stop ==
    /\ holder = "node" /\ holder' = "nobody"
    /\ UNCHANGED <<dir, copies>>

Start ==
    /\ holder = "nobody" /\ Fit
    /\ holder' = "node"
    /\ UNCHANGED <<dir, copies>>

Lease(job) ==
    /\ holder \in {"node", "nobody"} /\ holder' = job
    /\ UNCHANGED <<dir, copies>>

Return(job) ==
    /\ holder = job
    /\ holder' = IF Fit THEN "node" ELSE "nobody"
    /\ UNCHANGED <<dir, copies>>

\* What the job was writing may be torn; no copy is lost by it.
BreakOff(job) ==
    /\ holder = job /\ holder' = "nobody"
    /\ dir' \in {dir, [dir EXCEPT !.whole = FALSE]}
    /\ UNCHANGED copies

\* A part of the copy is there.
BreakOffCopy(n) ==
    /\ holder = "create" /\ holder' = "nobody"
    /\ copies[n] = Nil /\ copies' = [copies EXCEPT ![n] = Copy(dir, TRUE)]
    /\ UNCHANGED dir

\* A wipe for a state sync keeps the signing state.  It may stop halfway, as
\* pruning may.
Wipe ==
    /\ holder = "create"
    /\ dir' \in { [dir EXCEPT !.whole = FALSE], [dir EXCEPT !.height = 0, !.whole = TRUE] }
    /\ UNCHANGED <<holder, copies>>

\* Room is made for a copy by giving up the one of its name.
Drop(n) ==
    /\ holder = "create"
    /\ copies' = [copies EXCEPT ![n] = Nil]
    /\ UNCHANGED <<holder, dir>>

Take(n) ==
    /\ holder = "create"
    /\ copies[n] = Nil /\ copies' = [copies EXCEPT ![n] = Copy(dir, FALSE)]
    /\ UNCHANGED <<holder, dir>>

\* A copy that others made.
Fetch(n) ==
    /\ holder = "restore"
    /\ copies[n] = Nil
    /\ \E d \in Dirs : copies' = [copies EXCEPT ![n] = Copy(d, FALSE)]
    /\ UNCHANGED <<holder, dir>>

\* The directory is emptied, of the signing state too until a new one is made.
Empty ==
    /\ holder = "restore"
    /\ dir' \in [height : {0}, whole : {TRUE}, pv : {0, Nil}]
    /\ UNCHANGED <<holder, copies>>

\* What a copy does not have of the signing state stays.
Over(pv) == IF pv = Nil THEN dir.pv ELSE pv

Restored(c) ==
    IF c.part
    THEN { d \in [height : {0, c.height}, whole : BOOLEAN, pv : {dir.pv, Over(c.pv)}] :
             d.whole /\ d.height > 0 => c.whole }
    ELSE {[height |-> c.height, whole |-> c.whole, pv |-> Over(c.pv)]}

Restore(n) ==
    /\ holder = "restore"
    /\ copies[n] # Nil /\ dir' \in Restored(copies[n])
    /\ UNCHANGED <<holder, copies>>

Next ==
    \/ Use \/ Stop \/ Start
    \/ \E job \in {"create", "restore"} : Lease(job) \/ Return(job) \/ BreakOff(job)
    \/ Wipe \/ Empty
    \/ \E n \in Names : Drop(n) \/ Take(n) \/ BreakOffCopy(n) \/ Fetch(n) \/ Restore(n)

Spec == Init /\ [][Next]_vars

=============================================================================
