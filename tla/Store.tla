------------------------------- MODULE Store --------------------------------
(***************************************************************************)
(* The encrypted credential store (aap-store-sqlite): the file in the      *)
(* private directory, the one connection to it, and the native jobs that   *)
(* callers hand to the blocking pool.  A job owns a permit until its       *)
(* native work ends, even when its caller is gone, and the state mutex     *)
(* from the identity check to the end of its work.                         *)
(*                                                                         *)
(* A version names the fields that were stored with it: Version::fresh is  *)
(* random, here the next number.  Rotation is one job of several fallible  *)
(* steps, and the process may die between any two of them, or within the   *)
(* rekey itself.  What SQLite does with one statement is external.         *)
(***************************************************************************)
EXTENDS Integers, FiniteSets

CONSTANTS
    Jobs,        \* calls of the store, each made once
    Op,          \* the operation of a job
    Items,       \* items of the vault
    Key,         \* the key an unlock or a rotation is called with
    FirstKey,    \* the key the vault was created with
    RecoveryKey, \* the key of backups and recovery copies
    MaxItems,    \* 1000 items of a vault
    Budget,      \* 8 native jobs at once
    MaxFresh,    \* bound of the model: fresh versions and generations
    MaxCalls,    \* bound of the model: jobs that one behaviour calls
    Events       \* outside events of an instance

Ops == {"status", "metadata", "resolve", "revalidate", "put", "delete", "lock", "unlock",
        "backup", "rotate"}
Leased == {"resolve", "revalidate", "delete"}
Keyed  == {"unlock", "rotate"}

\* The keys an operator holds.
Held == {FirstKey, RecoveryKey} \cup {Key[j] : j \in {k \in Jobs : Op[k] \in Keyed}}

NoJob == "nobody"
Torn  == "torn"   \* the key of a file that no key opens

ASSUME StoreAssumption ==
    /\ NoJob \notin Jobs /\ Torn \notin Held
    /\ Op \in [Jobs -> Ops]
    /\ {MaxItems, Budget, MaxFresh, MaxCalls} \subseteq Nat
    /\ RecoveryKey # FirstKey
    /\ Events \subseteq {"crash", "restore", "drop"}

VARIABLES
    disk,     \* the files by inode: their key and the version of each item
    path,     \* the inode the directory names
    copy,     \* the file in the destination of a backup or a rotation
    up,       \* the process runs
    conn,     \* State.connection: the inode it has open
    identity, \* State.identity
    gen,      \* State.generation
    fresh,    \* the next fresh version
    permits,  \* the budget that is left
    holder,   \* the job that holds the state mutex
    pc,       \* where a job stands
    caller,   \* whether the caller of a job still waits
    arg,      \* the item and the expected lease of a job
    known,    \* the leases that answers of metadata and put have told
    retired,  \* of these, the ones that have stopped being current
    okey,     \* the key under which the current generation was opened
    acked     \* the items as the last committed change left them

state   == <<up, conn, identity, gen, fresh>>
jobVars == <<permits, holder, pc, caller, arg>>
ghosts  == <<known, retired, okey, acked>>
vars    == <<disk, path, copy, state, jobVars, ghosts>>

NoFile  == 0
NoItem  == "none"
NoLease == [item |-> NoItem, version |-> 0, gen |-> 0]
NoArg   == [item |-> NoItem, lease |-> NoLease]
Empty   == [i \in Items |-> 0]
NoCopy  == [synced |-> FALSE, items |-> Empty]

-----------------------------------------------------------------------------
(* The file and the connection.                                            *)

\* connect, in mode Existing.
connect(ino, key) == disk[ino].key = key

\* read_metadata, and check_lease against the lease that was expected.
Found(i)      == disk[conn].items[i] # 0
Lease(i)      == [item |-> i, version |-> disk[conn].items[i], gen |-> gen]
check_lease(l) == Found(l.item) /\ Lease(l.item) = l

\* The leases that the store would still accept.
Current(l) == up /\ conn # NoFile /\ check_lease(l)

\* What stops being current stays on record.
Retire == retired' = retired \cup {l \in known' : ~Current(l)'}

-----------------------------------------------------------------------------
(* SqliteStore::run.                                                       *)

\* A call takes a permit or is Unavailable, and spawns its native job.
Call(j, i, l) ==
    /\ up /\ pc[j] = "idle" /\ permits > 0
    /\ Cardinality({k \in Jobs : pc[k] # "idle"}) < MaxCalls
    /\ Op[j] \in Leased => l # NoLease
    /\ l # NoLease => l.item = i /\ Op[j] \in Leased \cup {"put"}
    /\ permits' = permits - 1
    /\ pc' = [pc EXCEPT ![j] = "queued"]
    /\ caller' = [caller EXCEPT ![j] = TRUE]
    /\ arg' = [arg EXCEPT ![j] = [item |-> i, lease |-> l]]
    /\ UNCHANGED <<disk, path, copy, state, holder, ghosts>>

\* The caller's future is dropped; its native job goes on with its permit.
Abandon(j) ==
    /\ "drop" \in Events /\ caller[j]
    /\ caller' = [caller EXCEPT ![j] = FALSE]
    /\ UNCHANGED <<disk, path, copy, state, permits, holder, pc, arg, ghosts>>

\* The end of a native job: the mutex and the permit are given back.
Finish(j) ==
    /\ holder' = NoJob
    /\ permits' = permits + 1
    /\ pc' = [pc EXCEPT ![j] = "done"]
    /\ arg' = [arg EXCEPT ![j] = NoArg]
    /\ caller' = [caller EXCEPT ![j] = FALSE]
    /\ UNCHANGED <<up, path>>

\* The job takes the mutex.  A connection whose backing file is not the one
\* it opened is dropped; the generation stays until the next unlock.
Enter(j) ==
    /\ up /\ pc[j] = "queued" /\ holder = NoJob
    /\ IF conn # NoFile /\ path # identity
         THEN /\ conn' = NoFile /\ identity' = NoFile
              /\ Finish(j)
         ELSE /\ holder' = j
              /\ pc' = [pc EXCEPT ![j] = "work"]
              /\ UNCHANGED <<conn, identity, up, path, permits, caller, arg>>
    /\ UNCHANGED <<disk, copy, gen, fresh, known, okey, acked>>
    /\ Retire

Working(j, ops) == up /\ pc[j] = "work" /\ Op[j] \in ops

\* Any statement may fail, or find no connection: nothing is stored.  And all
\* that status does is to read the state.
Refused(j) ==
    /\ up /\ pc[j] = "work" /\ Op[j] # "lock"
    /\ Finish(j)
    /\ UNCHANGED <<disk, copy, conn, identity, gen, fresh, ghosts>>

-----------------------------------------------------------------------------
(* SecretStore: metadata, resolve, revalidate.                             *)

metadata(j) ==
    /\ Working(j, {"metadata"})
    /\ conn # NoFile /\ Found(arg[j].item)
    /\ Finish(j)
    /\ known' = IF caller[j] THEN known \cup {Lease(arg[j].item)} ELSE known
    /\ UNCHANGED <<disk, copy, conn, identity, gen, fresh, retired, okey, acked>>

Resolves_Version(l) == Found(l.item) /\ disk[conn].items[l.item] = l.version

\* The lease check of resolve, in the transaction that reads the fields, and
\* of revalidate.
Resolves(l) == check_lease(l)

resolve(j) ==
    /\ Working(j, {"resolve", "revalidate"})
    /\ conn # NoFile /\ Resolves(arg[j].lease)
    /\ Finish(j)
    /\ UNCHANGED <<disk, copy, conn, identity, gen, fresh, ghosts>>

-----------------------------------------------------------------------------
(* SecretStoreAdmin: put and delete, each one immediate transaction.       *)

Fits == Cardinality({k \in Items : Found(k)}) < MaxItems

\* Create-only without a lease, compare-and-swap with one.
Writes(i, l) == IF Found(i) THEN l # NoLease /\ check_lease(l) ELSE l = NoLease /\ Fits

put(j) ==
    LET i == arg[j].item
    IN /\ Working(j, {"put"}) /\ conn # NoFile /\ Writes(i, arg[j].lease)
       /\ fresh < MaxFresh
       /\ fresh' = fresh + 1
       /\ disk' = [disk EXCEPT ![conn].items[i] = fresh]
       /\ acked' = disk'[conn].items
       /\ known' = known \cup
             IF caller[j] THEN {[item |-> i, version |-> fresh, gen |-> gen]} ELSE {}
       /\ Finish(j)
       /\ UNCHANGED <<copy, conn, identity, gen, okey>>
       /\ Retire

delete(j) ==
    /\ Working(j, {"delete"}) /\ conn # NoFile /\ check_lease(arg[j].lease)
    /\ disk' = [disk EXCEPT ![conn].items[arg[j].item] = 0]
    /\ acked' = disk'[conn].items
    /\ Finish(j)
    /\ UNCHANGED <<copy, conn, identity, gen, fresh, known, okey>>
    /\ Retire

-----------------------------------------------------------------------------
(* lock and unlock.                                                        *)

\* Without a fresh generation the connection is gone all the same.
lock(j) ==
    /\ Working(j, {"lock"})
    /\ conn' = NoFile /\ identity' = NoFile
    /\ \/ fresh < MaxFresh /\ gen' = fresh /\ fresh' = fresh + 1
       \/ UNCHANGED <<gen, fresh>>
    /\ Finish(j)
    /\ UNCHANGED <<disk, copy, known, okey, acked>>
    /\ Retire

Regenerates_Kept == UNCHANGED <<gen, fresh>>

\* The store opens under a generation that no lease has seen.
Regenerates == fresh < MaxFresh /\ gen' = fresh /\ fresh' = fresh + 1

\* Refuses an open store, a wrong key and a file that is not a vault.
unlock(j) ==
    /\ Working(j, {"unlock"})
    /\ conn = NoFile /\ connect(path, Key[j])
    /\ conn' = path /\ identity' = path /\ okey' = Key[j]
    /\ Regenerates
    /\ Finish(j)
    /\ UNCHANGED <<disk, copy, known, acked>>
    /\ Retire

-----------------------------------------------------------------------------
(* backup and rotate_key.  Both detach the connection, and it comes back   *)
(* only when all of it has worked.                                         *)

Detach(j) ==
    /\ Working(j, {"backup", "rotate"})
    /\ conn # NoFile
    /\ conn' = NoFile
    /\ pc' = [pc EXCEPT ![j] = "export"]
    /\ UNCHANGED <<disk, path, copy, up, identity, gen, fresh, permits, holder, caller, arg,
                   ghosts>>

Step(j, from, to) ==
    /\ up /\ pc[j] = from
    /\ pc' = [pc EXCEPT ![j] = to]
    /\ UNCHANGED <<path, state, permits, holder, caller, arg, ghosts>>

\* backup_connection: export into a file of its own in one transaction, then
\* synchronize that file and its directory.
Export(j) ==
    /\ Step(j, "export", "exported")
    /\ copy' = [copy EXCEPT ![j] = [synced |-> FALSE, items |-> disk[identity].items]]
    /\ UNCHANGED disk

Synced_Later(j) ==
    /\ Step(j, "exported", IF Op[j] = "backup" THEN "attach" ELSE "rekey")
    /\ UNCHANGED <<copy, disk>>

Synced(j) ==
    /\ Step(j, "exported", IF Op[j] = "backup" THEN "attach" ELSE "rekey")
    /\ copy' = [copy EXCEPT ![j].synced = TRUE]
    /\ UNCHANGED disk

\* Checkpoint, journal mode and rekey.
Rekey(j) ==
    /\ Step(j, "rekey", "verify")
    /\ disk' = [disk EXCEPT ![identity].key = Key[j]]
    /\ UNCHANGED copy

\* Integrity check, journal mode, directory: the connection comes back, and
\* after a rotation under a generation of its own.
Attach(j) ==
    /\ up /\ pc[j] \in {"attach", "verify"}
    /\ conn' = identity
    /\ IF Op[j] = "rotate" THEN Regenerates /\ okey' = Key[j] ELSE UNCHANGED <<gen, fresh, okey>>
    /\ Finish(j)
    /\ UNCHANGED <<disk, copy, identity, known, acked>>
    /\ Retire

Detached == {"export", "exported", "attach", "rekey", "verify"}

\* The rekey rewrites every page: one that fails or is cut off may leave a
\* file that no key opens.
Damage(j) == {disk[identity].key} \cup IF pc[j] = "rekey" THEN {Torn} ELSE {}

DetachFails_Reattached(j) ==
    /\ up /\ pc[j] \in Detached
    /\ conn' = identity
    /\ \E k \in Damage(j) : disk' = [disk EXCEPT ![identity].key = k]
    /\ Finish(j)
    /\ UNCHANGED <<copy, identity, gen, fresh, known, okey, acked>>
    /\ Retire

\* Any step may fail, and the detached connection is dropped.
DetachFails(j) ==
    /\ up /\ pc[j] \in Detached
    /\ \E k \in Damage(j) : disk' = [disk EXCEPT ![identity].key = k]
    /\ Finish(j)
    /\ UNCHANGED <<copy, conn, identity, gen, fresh, known, okey, acked>>
    /\ Retire

-----------------------------------------------------------------------------
(* The process dies and comes back; an operator puts a synchronized copy   *)
(* in the place of the file.                                               *)

\* A copy that was not synchronized may be gone with the process.
Crash ==
    /\ "crash" \in Events /\ up
    /\ up' = FALSE
    /\ conn' = NoFile /\ identity' = NoFile
    /\ holder' = NoJob /\ permits' = Budget
    /\ pc' = [j \in Jobs |-> IF pc[j] = "idle" THEN "idle" ELSE "done"]
    /\ caller' = [j \in Jobs |-> FALSE]
    /\ arg' = [j \in Jobs |-> NoArg]
    /\ IF holder = NoJob
         THEN UNCHANGED disk
         ELSE \E k \in Damage(holder) : disk' = [disk EXCEPT ![identity].key = k]
    /\ copy' = [j \in Jobs |-> IF copy[j].synced THEN copy[j] ELSE NoCopy]
    /\ UNCHANGED <<path, gen, fresh, known, okey, acked>>
    /\ Retire

\* SqliteStore::open of a new process, with a key the operator holds.
open(k) ==
    /\ ~up /\ connect(path, k)
    /\ up' = TRUE /\ conn' = path /\ identity' = path /\ okey' = k
    /\ Regenerates
    /\ UNCHANGED <<disk, path, copy, jobVars, known, acked>>
    /\ Retire

\* The copy becomes a new inode, which the recovery key opens.  Maintenance
\* is offline: it does not come between a job's identity check and its end.
Restore(j) ==
    /\ "restore" \in Events /\ path = 1 /\ copy[j].synced /\ holder = NoJob
    /\ path' = 2
    /\ disk' = [disk EXCEPT ![2] = [key |-> RecoveryKey, items |-> copy[j].items]]
    /\ acked' = copy[j].items
    /\ UNCHANGED <<copy, state, jobVars, known, retired, okey>>

-----------------------------------------------------------------------------
(* The specification.                                                      *)

\* An opened vault, new or with all its items.
Init ==
    /\ acked \in {Empty, [i \in Items |-> 1]}
    /\ disk = [n \in 0..2 |-> [key |-> IF n = 1 THEN FirstKey ELSE Torn,
                                items |-> IF n = 1 THEN acked ELSE Empty]]
    /\ path = 1 /\ copy = [j \in Jobs |-> NoCopy]
    /\ up = TRUE /\ conn = 1 /\ identity = 1
    /\ gen = 2 /\ fresh = 3
    /\ permits = Budget /\ holder = NoJob
    /\ pc = [j \in Jobs |-> "idle"]
    /\ caller = [j \in Jobs |-> FALSE]
    /\ arg = [j \in Jobs |-> NoArg]
    /\ known = {} /\ retired = {} /\ okey = FirstKey

Native(j) ==
    \/ Enter(j) \/ Refused(j)
    \/ metadata(j) \/ resolve(j) \/ put(j) \/ delete(j) \/ lock(j) \/ unlock(j)
    \/ Detach(j) \/ Export(j) \/ Synced(j) \/ Rekey(j) \/ Attach(j) \/ DetachFails(j)

Next ==
    \/ \E j \in Jobs, i \in Items, l \in known \cup {NoLease} : Call(j, i, l)
    \/ \E j \in Jobs : Abandon(j) \/ Native(j) \/ Restore(j)
    \/ Crash
    \/ \E k \in Held : open(k)

Spec == Init /\ [][Next]_vars

-----------------------------------------------------------------------------
(* Properties.                                                             *)

\* What a job with the mutex is about to accept.
Accepts(j) ==
    /\ up /\ pc[j] = "work" /\ conn # NoFile /\ arg[j].lease # NoLease
    /\ CASE Op[j] \in {"resolve", "revalidate"} -> Resolves(arg[j].lease)
         [] Op[j] = "put" -> Writes(arg[j].item, arg[j].lease)
         [] Op[j] = "delete" -> check_lease(arg[j].lease)
         [] OTHER -> FALSE

\* A lease that has once stopped being current (the item was written or
\* deleted, the store locked, its key rotated, its file replaced, a backup
\* failed, or the process died) is never accepted again, not even when the
\* restored copy holds the very version it names.
RetiredLeasesRefused == \A j \in Jobs : Accepts(j) => arg[j].lease \notin retired

\* Whatever fails and wherever the process dies, all that was committed can
\* be opened with a key the operator holds: in the vault, or in a recovery
\* copy that was synchronized before the rekey touched the vault.
NothingLost ==
    \/ disk[path].key \in Held /\ disk[path].items = acked
    \/ \E j \in Jobs : copy[j].synced /\ copy[j].items = acked

\* While the store serves, its file is under the key with which the
\* generation of its leases was opened: a rotation that fails half-way does
\* not put its connection back.
GenerationPerKey == conn # NoFile => disk[conn].key = okey
=============================================================================
