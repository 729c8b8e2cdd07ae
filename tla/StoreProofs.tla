---------------------------- MODULE StoreProofs -----------------------------
(***************************************************************************)
(* Proofs about Store: for any number of jobs, items, keys and draws, a    *)
(* lease that was once retired is never accepted again, what was committed *)
(* can be opened with a key the operator holds, and the file that serves   *)
(* is under the key of its generation.                                     *)
(*                                                                         *)
(* The mutex makes its holder the only job that has detached the           *)
(* connection (Mutex, Connected), so the file behind it is the one in      *)
(* place until the job ends.  Versions and generations are drawn once      *)
(* (Drawn): a retired lease of an older generation cannot match again, and *)
(* one of this generation names a version that is gone (Gone).  The vault  *)
(* holds what was committed under a held key, except where a rekey was cut *)
(* off, and no rekey begins before a synchronized copy holds the same      *)
(* (Stages, Keys, Saved).                                                  *)
(***************************************************************************)
EXTENDS Store, TLAPS

-----------------------------------------------------------------------------
(* The inductive invariant *)

Contents == [Items -> Nat]
Disks    == [0..2 -> [key: Held \cup {Torn}, items: Contents]]
Told     == [item: Items, version: Nat, gen: Nat]
Places   == {"idle", "queued", "work", "done"} \cup Detached

\* The types of the state, and a permit count of any sign.
TypeOK ==
    /\ disk \in Disks
    /\ path \in {1, 2}
    /\ copy \in [Jobs -> [synced: BOOLEAN, items: Contents]]
    /\ up \in BOOLEAN /\ conn \in 0..2 /\ identity \in 0..2
    /\ gen \in Nat /\ fresh \in Nat
    /\ holder \in Jobs \cup {NoJob}
    /\ pc \in [Jobs -> Places]
    /\ caller \in [Jobs -> BOOLEAN]
    /\ DOMAIN arg = Jobs
    /\ known \subseteq Told
    /\ okey \in Held
    /\ acked \in Contents

\* The holder has detached the connection, and will put it back or drop it.
Away   == holder # NoJob /\ pc[holder] \in Detached
Served == conn # NoFile \/ Away

\* One job works at a time, and it has found the file in its place.
Mutex == \A j \in Jobs : holder = j <=> pc[j] \in {"work"} \cup Detached

Connected ==
    /\ conn # NoFile => up /\ conn = identity
    /\ holder # NoJob => up
    /\ Away => conn = NoFile /\ identity # NoFile
    /\ Served /\ holder # NoJob => identity = path
    /\ path = 1 => identity # 2

\* What a job has behind it, stage by stage.
Stages ==
    \A j \in Jobs :
       /\ pc[j] \in {"queued", "work"} \cup Detached => arg[j].item \in Items
       /\ pc[j] \in Detached => Op[j] \in {"backup", "rotate"}
       /\ pc[j] \in {"attach", "rekey", "verify"} => (Op[j] = "rotate" <=> pc[j] # "attach")
       /\ pc[j] \in {"idle", "queued", "work", "export", "exported"} => ~copy[j].synced
       /\ pc[j] \in {"exported", "rekey"} => copy[j].items = acked
       /\ pc[j] = "rekey" => copy[j].synced

\* No version and no generation in use was drawn later than the next one.
Drawn ==
    /\ gen < fresh
    /\ \A l \in known : l.version < fresh /\ l.gen < fresh
    /\ \A n \in 0..2, i \in Items : disk[n].items[i] < fresh
    /\ \A j \in Jobs, i \in Items : copy[j].items[i] < fresh

\* A retired lease of this generation names a version that is gone.
Gone ==
    /\ retired \subseteq known
    /\ \A l \in retired :
         l.gen = gen /\ Served =>
            disk[identity].items[l.item] = 0 \/ disk[identity].items[l.item] # l.version

\* The key of the open file.
Keys ==
    Served =>
       disk[identity].key = IF Away /\ pc[holder] = "verify" THEN Key[holder] ELSE okey

\* The file holds what was committed; if no key opens it, so does a copy.
Saved ==
    /\ disk[path].items = acked
    /\ disk[path].key = Torn => \E j \in Jobs : copy[j].synced /\ copy[j].items = acked

Inv == TypeOK /\ Mutex /\ Connected /\ Stages /\ Drawn /\ Gone /\ Keys /\ Saved

-----------------------------------------------------------------------------
(* Operators *)

\* Writing an item of the open file.
LEMMA ItemWrites ==
    ASSUME disk \in Disks, conn \in 0..2, NEW i \in Items, NEW v \in Nat,
           disk' = [disk EXCEPT ![conn].items[i] = v]
    PROVE  /\ disk' \in Disks
           /\ \A m \in 0..2 : /\ disk'[m].key = disk[m].key
                              /\ m # conn => disk'[m].items = disk[m].items
           /\ disk'[conn].items = [disk[conn].items EXCEPT ![i] = v]
<1>1. disk[conn] \in [key: Held \cup {Torn}, items: Contents] /\ disk[conn].items \in Contents
  BY DEF Disks
<1>2. [disk[conn].items EXCEPT ![i] = v] \in Contents
  BY <1>1 DEF Contents
<1>3. disk' = [disk EXCEPT ![conn] =
                 [disk[conn] EXCEPT !.items = [disk[conn].items EXCEPT ![i] = v]]]
  BY <1>1 DEF Disks
<1>4. [disk[conn] EXCEPT !.items = [disk[conn].items EXCEPT ![i] = v]]
         \in [key: Held \cup {Torn}, items: Contents]
  BY <1>1, <1>2
<1> QED
  BY <1>1, <1>2, <1>3, <1>4 DEF Disks

\* Writing the key of the file that was opened.
LEMMA KeyWrites ==
    ASSUME disk \in Disks, identity \in 0..2, NEW k \in Held \cup {Torn},
           disk' = [disk EXCEPT ![identity].key = k]
    PROVE  /\ disk' \in Disks /\ disk'[identity].key = k
           /\ \A m \in 0..2 : /\ disk'[m].items = disk[m].items
                              /\ m # identity => disk'[m].key = disk[m].key
<1>1. disk[identity] \in [key: Held \cup {Torn}, items: Contents]
  BY DEF Disks
<1>2. [disk[identity] EXCEPT !.key = k] \in [key: Held \cup {Torn}, items: Contents]
  BY <1>1
<1> QED
  BY <1>1, <1>2 DEF Disks

\* What the end of a native job leaves: nobody works, all else stands as it was.
Freed(j) ==
    /\ holder' = NoJob /\ up' = up /\ path' = path
    /\ pc' = [pc EXCEPT ![j] = "done"]
    /\ pc' \in [Jobs -> Places] /\ caller' \in [Jobs -> BOOLEAN] /\ DOMAIN arg' = Jobs
    /\ \A k \in Jobs : pc'[k] \in {"idle", "queued", "done"}
    /\ Mutex' /\ ~Away'
    /\ UNCHANGED copy => Stages'

\* A job that held the mutex, or would have taken it, leaves it free.
LEMMA FinishFrees ==
    ASSUME Inv, NEW j \in Jobs, holder \in {j, NoJob}, Finish(j)
    PROVE  Freed(j)
<1> USE StoreAssumption DEF Inv
<1>1. pc' \in [Jobs -> Places] /\ caller' \in [Jobs -> BOOLEAN] /\ DOMAIN arg' = Jobs
  BY DEF Finish, TypeOK, Places
<1>2. \A k \in Jobs : pc'[k] \in {"idle", "queued", "done"}
  BY DEF Finish, TypeOK, Places, Mutex
<1>3. Mutex' /\ ~Away'
  BY <1>1, <1>2 DEF Finish, Mutex, Away, Detached
<1>4. UNCHANGED copy => Stages'
  BY <1>1, <1>2 DEF Finish, Stages, TypeOK, Detached
<1> QED
  BY <1>1, <1>2, <1>3, <1>4 DEF Finish, Freed

\* Retire puts only leases on record that the file no longer bears out.
LEMMA RetireGone ==
    ASSUME TypeOK', Connected', ~Away', Retire, retired \subseteq known',
           \A l \in retired :
              l.gen = gen' /\ conn' # NoFile =>
                 disk'[conn'].items[l.item] = 0 \/ disk'[conn'].items[l.item] # l.version
    PROVE  Gone'
<1>1. \A l \in known' : ~Current(l)' =>
         (l.gen = gen' /\ conn' # NoFile =>
             disk'[conn'].items[l.item] = 0 \/ disk'[conn'].items[l.item] # l.version)
  <2> SUFFICES ASSUME NEW l \in known', ~Current(l)', l.gen = gen', conn' # NoFile,
                      disk'[conn'].items[l.item] # 0
               PROVE  disk'[conn'].items[l.item] # l.version
    OBVIOUS
  <2>1. l \in Told
    BY DEF TypeOK
  <2>2. Lease(l.item)' # l
    BY DEF Current, check_lease, Found, Connected
  <2> QED
    BY <2>1, <2>2 DEF Lease, Told
<1>2. retired' \subseteq known'
  BY DEF Retire
<1>3. Served' => conn' # NoFile /\ identity' = conn'
  BY DEF Served, Connected
<1> QED
  BY <1>1, <1>2, <1>3 DEF Retire, Gone

\* A later draw leaves all that was drawn before it in order.
LEMMA DrawnGrows ==
    ASSUME TypeOK, Drawn, fresh' \in Nat, fresh <= fresh', gen' \in Nat, gen' < fresh',
           UNCHANGED <<disk, copy, known>>
    PROVE  Drawn'
BY DEF TypeOK, Drawn, Disks, Contents, Told

\* The key of an unlock or of a rotation is one that the operator holds.
LEMMA KeyHeld ==
    ASSUME NEW j \in Jobs, Op[j] \in Keyed
    PROVE  Key[j] \in Held
BY DEF Held

\* Removing the lock of a store or opening it draws a generation.
LEMMA RegeneratesDraws ==
    ASSUME TypeOK, Drawn, Regenerates
    PROVE  gen' \in Nat /\ fresh' \in Nat /\ fresh <= fresh' /\ gen' < fresh' /\ gen' = fresh
BY DEF TypeOK, Drawn, Regenerates

-----------------------------------------------------------------------------
(* Steps *)

\* A native job keeps the invariant, whatever step it takes.
LEMMA NativeKeeps ==
    ASSUME Inv, NEW j \in Jobs, Native(j)
    PROVE  Inv'
<1> USE StoreAssumption DEF Inv, state, jobVars, ghosts
<1>1. ASSUME conn # NoFile /\ path # identity, Enter(j) PROVE Inv'
  <2>f. Freed(j)
    BY <1>1, FinishFrees DEF Mutex, Enter, Finish, NoFile
  <2>1. TypeOK'
    BY <1>1, <2>f DEF Enter, Finish, NoFile, TypeOK, Places, Detached, Freed
  <2>2. Mutex' /\ Connected'
    BY <1>1, <2>f DEF Enter, Finish, NoFile, TypeOK, Mutex, Connected, Served, Away,
       Detached, Freed
  <2>3. Stages'
    BY <1>1, <2>f DEF Enter, Finish, NoFile, TypeOK, Mutex, Stages, Detached, Freed
  <2>4. Drawn'
    BY <1>1, <2>f DEF Enter, Finish, NoFile, TypeOK, Drawn, Disks, Contents, Told, Freed
  <2>5. Gone'
    <3>1. retired \subseteq known' /\ ~Away' /\ Retire
      BY <1>1, <2>f DEF Freed, Gone, Enter
    <3> QED
      BY <1>1, <2>1, <2>2, <2>f, <3>1, RetireGone DEF Freed, Gone, Drawn, Connected, TypeOK,
         Told, Served, Enter, Finish, NoFile
  <2>6. Keys' /\ Saved'
    BY <1>1, <2>f DEF Enter, Finish, NoFile, TypeOK, Mutex, Connected, Stages, Keys, Saved,
       Served, Away, Detached, Freed
  <2> QED
    BY <2>1, <2>2, <2>3, <2>4, <2>5, <2>6
<1>2. ASSUME ~(conn # NoFile /\ path # identity), Enter(j) PROVE Inv'
  <2>1. TypeOK'
    BY <1>2 DEF Enter, NoFile, TypeOK, Places, Detached
  <2>2. Mutex' /\ Connected'
    <3>1. holder' = j /\ pc' = [pc EXCEPT ![j] = "work"] /\ holder = NoJob /\ up
          /\ UNCHANGED <<conn, identity, up, path>>
      BY <1>2 DEF Enter
    <3>2. Mutex'
      BY <3>1 DEF Mutex, TypeOK, Detached
    <3>3. ~Away' /\ (conn # NoFile => identity = path)
      BY <1>2, <3>1 DEF Away, TypeOK, Detached
    <3>4. Connected'
      BY <3>1, <3>3 DEF Connected, Served
    <3> QED
      BY <3>2, <3>4
  <2>3. Stages'
    BY <1>2 DEF Enter, NoFile, TypeOK, Mutex, Stages, Detached
  <2>4. Drawn'
    BY <1>2 DEF Enter, NoFile, TypeOK, Drawn, Disks, Contents, Told
  <2>5. Gone'
    <3>1. retired \subseteq known' /\ Retire /\ ~Away'
      BY <1>2, <2>2 DEF Enter, Gone, Away, TypeOK, Detached
    <3> QED
      BY <1>2, <2>1, <2>2, <3>1, RetireGone DEF Gone, Connected, Served, Enter
  <2>6. Keys' /\ Saved'
    BY <1>2 DEF Enter, NoFile, TypeOK, Mutex, Connected, Stages, Keys, Saved, Served, Away,
       Detached
  <2> QED
    BY <2>1, <2>2, <2>3, <2>4, <2>5, <2>6
<1>3. ASSUME Refused(j) PROVE Inv'
  <2>f. Freed(j)
    BY <1>3, FinishFrees DEF Mutex, Refused, Working
  <2>1. TypeOK'
    BY <1>3, <2>f DEF Refused, Working, TypeOK, Places, Detached, NoFile, Freed
  <2>2. Mutex' /\ Connected'
    BY <1>3, <2>f DEF Refused, Working, TypeOK, Mutex, Connected, Served, Away, Detached,
       NoFile, Freed
  <2>3. Stages'
    BY <1>3, <2>f DEF Refused, Working, TypeOK, Mutex, Stages, Detached, Freed
  <2>4. Drawn'
    BY <1>3, <2>f DEF Refused, Working, TypeOK, Drawn, Disks, Contents, Told, Freed
  <2>5. Gone'
    BY <1>3, <2>f DEF Refused, Working, TypeOK, Mutex, Connected, Drawn, Gone, Served, Away,
       Detached, NoFile, Freed
  <2>6. Keys' /\ Saved'
    BY <1>3, <2>f DEF Refused, Working, TypeOK, Mutex, Connected, Stages, Keys, Saved,
       Served, Away, Detached, NoFile, Freed
  <2> QED
    BY <2>1, <2>2, <2>3, <2>4, <2>5, <2>6
<1>4. ASSUME metadata(j) PROVE Inv'
  <2>f. Freed(j)
    BY <1>4, FinishFrees DEF Mutex, metadata, Working, Found, Lease
  <2>i. Lease(arg[j].item) \in Told /\ Lease(arg[j].item).version < fresh /\ Lease(arg[j].item).gen < fresh
    <3>1. arg[j].item \in Items /\ conn \in 0..2
      BY <1>4 DEF metadata, Working, Stages, TypeOK
    <3> QED
      BY <3>1 DEF TypeOK, Drawn, Lease, Told, Disks, Contents
  <2>k. known' \subseteq known \cup {Lease(arg[j].item)}
    BY <1>4 DEF metadata
  <2>1. TypeOK'
    BY <1>4, <2>f, <2>i, <2>k DEF metadata, TypeOK, Freed
  <2>2. Mutex' /\ Connected'
    BY <1>4, <2>f DEF metadata, Working, Found, Lease, TypeOK, Mutex, Connected, Served,
       Away, Detached, NoFile, Freed
  <2>3. Stages'
    BY <1>4, <2>f DEF metadata, Working, Found, Lease, TypeOK, Mutex, Stages, Detached,
       Freed
  <2>4. Drawn'
    BY <1>4, <2>i, <2>k DEF metadata, TypeOK, Drawn
  <2>5. Gone'
    BY <1>4, <2>f DEF metadata, Working, Found, Lease, TypeOK, Mutex, Connected, Drawn,
       Gone, Served, Away, Detached, NoFile, Freed
  <2>6. Keys' /\ Saved'
    BY <1>4, <2>f DEF metadata, Working, Found, Lease, TypeOK, Mutex, Connected, Stages,
       Keys, Saved, Served, Away, Detached, NoFile, Freed
  <2> QED
    BY <2>1, <2>2, <2>3, <2>4, <2>5, <2>6
<1>5. ASSUME resolve(j) PROVE Inv'
  <2>f. Freed(j)
    BY <1>5, FinishFrees DEF Mutex, resolve, Working
  <2>1. TypeOK'
    BY <1>5, <2>f DEF resolve, Working, TypeOK, Places, Detached, NoFile, Freed
  <2>2. Mutex' /\ Connected'
    BY <1>5, <2>f DEF resolve, Working, TypeOK, Mutex, Connected, Served, Away, Detached,
       NoFile, Freed
  <2>3. Stages'
    BY <1>5, <2>f DEF resolve, Working, TypeOK, Mutex, Stages, Detached, Freed
  <2>4. Drawn'
    BY <1>5, <2>f DEF resolve, Working, TypeOK, Drawn, Disks, Contents, Told, Freed
  <2>5. Gone'
    BY <1>5, <2>f DEF resolve, Working, TypeOK, Mutex, Connected, Drawn, Gone, Served, Away,
       Detached, NoFile, Freed
  <2>6. Keys' /\ Saved'
    BY <1>5, <2>f DEF resolve, Working, TypeOK, Mutex, Connected, Stages, Keys, Saved,
       Served, Away, Detached, NoFile, Freed
  <2> QED
    BY <2>1, <2>2, <2>3, <2>4, <2>5, <2>6
<1>6. ASSUME put(j) PROVE Inv'
  <2>f. Freed(j)
    BY <1>6, FinishFrees DEF Mutex, put, Working, Writes, Found
  <2>i. arg[j].item \in Items /\ conn \in 0..2 /\ disk \in Disks /\ fresh \in Nat
    BY <1>6 DEF Stages, TypeOK, put, Working
  <2>d. /\ disk' \in Disks
        /\ \A m \in 0..2 : /\ disk'[m].key = disk[m].key
                           /\ m # conn => disk'[m].items = disk[m].items
        /\ disk'[conn].items = [disk[conn].items EXCEPT ![arg[j].item] = fresh]
    <3>1. disk' = [disk EXCEPT ![conn].items[arg[j].item] = fresh]
      BY <1>6 DEF put
    <3> QED
      BY <2>i, <3>1, ItemWrites
  <2>k. /\ known' \subseteq known \cup {[item |-> arg[j].item, version |-> fresh, gen |-> gen]}
        /\ known \subseteq known'
    BY <1>6 DEF put
  <2>a. disk'[conn].items \in Contents /\ acked' = disk'[conn].items
    BY <1>6, <2>i, <2>d DEF put, Disks
  <2>1. TypeOK'
    BY <1>6, <2>f, <2>i, <2>d, <2>k, <2>a DEF put, TypeOK, Told, Freed
  <2>2. Mutex' /\ Connected'
    BY <1>6, <2>f DEF put, Working, Writes, Found, TypeOK, Mutex, Connected, Served, Away,
       Detached, NoFile, Freed
  <2>3. Stages'
    BY <1>6, <2>f DEF put, Working, Writes, Found, TypeOK, Mutex, Stages, Detached, Freed
  <2>4. Drawn'
    BY <1>6, <2>i, <2>d, <2>k DEF put, TypeOK, Drawn, Disks, Contents, Told
  <2>5. Gone'
    <3>1. retired \subseteq known' /\ ~Away' /\ Retire
      BY <1>6, <2>f DEF Freed, Gone, put
    <3> QED
      BY <1>6, <2>1, <2>2, <2>f, <3>1, RetireGone DEF Freed, Gone, Drawn, Connected, TypeOK,
         Told, Served, put, Working, Writes, Found
  <2>6. Keys' /\ Saved'
    BY <1>6, <2>f DEF put, Working, Writes, Found, TypeOK, Mutex, Connected, Stages, Keys,
       Saved, Served, Away, Detached, NoFile, Freed
  <2> QED
    BY <2>1, <2>2, <2>3, <2>4, <2>5, <2>6
<1>7. ASSUME delete(j) PROVE Inv'
  <2>f. Freed(j)
    BY <1>7, FinishFrees DEF Mutex, delete, Working
  <2>i. arg[j].item \in Items /\ conn \in 0..2 /\ disk \in Disks /\ fresh \in Nat
    BY <1>7 DEF Stages, TypeOK, delete, Working
  <2>d. /\ disk' \in Disks
        /\ \A m \in 0..2 : /\ disk'[m].key = disk[m].key
                           /\ m # conn => disk'[m].items = disk[m].items
        /\ disk'[conn].items = [disk[conn].items EXCEPT ![arg[j].item] = 0]
    <3>1. disk' = [disk EXCEPT ![conn].items[arg[j].item] = 0]
      BY <1>7 DEF delete
    <3> QED
      BY <2>i, <3>1, ItemWrites
  <2>a. disk'[conn].items \in Contents /\ acked' = disk'[conn].items
    BY <1>7, <2>i, <2>d DEF delete, Disks
  <2>1. TypeOK'
    BY <1>7, <2>f, <2>d, <2>a DEF delete, TypeOK, Freed
  <2>2. Mutex' /\ Connected'
    BY <1>7, <2>f DEF delete, Working, TypeOK, Mutex, Connected, Served, Away, Detached,
       NoFile, Freed
  <2>3. Stages'
    BY <1>7, <2>f DEF delete, Working, TypeOK, Mutex, Stages, Detached, Freed
  <2>4. Drawn'
    BY <1>7, <2>i, <2>d DEF delete, TypeOK, Drawn, Disks, Contents
  <2>5. Gone'
    <3>1. retired \subseteq known' /\ ~Away' /\ Retire
      BY <1>7, <2>f DEF Freed, Gone, delete
    <3> QED
      BY <1>7, <2>1, <2>2, <2>f, <3>1, RetireGone DEF Freed, Gone, Drawn, Connected, TypeOK,
         Told, Served, delete, Working
  <2>6. Keys' /\ Saved'
    BY <1>7, <2>f DEF delete, Working, TypeOK, Mutex, Connected, Stages, Keys, Saved,
       Served, Away, Detached, NoFile, Freed
  <2> QED
    BY <2>1, <2>2, <2>3, <2>4, <2>5, <2>6
<1>8. ASSUME lock(j) PROVE Inv'
  <2>f. Freed(j)
    BY <1>8, FinishFrees DEF Mutex, lock, Working
  <2>n. gen' \in Nat /\ fresh' \in Nat /\ fresh <= fresh' /\ gen' < fresh'
    BY <1>8 DEF lock, TypeOK, Drawn
  <2>1. TypeOK'
    BY <1>8, <2>f, <2>n DEF lock, TypeOK, Freed, NoFile
  <2>2. Mutex' /\ Connected'
    BY <1>8, <2>f DEF lock, Working, TypeOK, Mutex, Connected, Served, Away, Detached,
       NoFile, Freed
  <2>3. Stages'
    BY <1>8, <2>f DEF lock, Working, TypeOK, Mutex, Stages, Detached, Freed
  <2>4. Drawn'
    BY <1>8, <2>n, DrawnGrows DEF lock
  <2>5. Gone'
    <3>1. retired \subseteq known' /\ ~Away' /\ Retire
      BY <1>8, <2>f DEF Freed, Gone, lock
    <3> QED
      BY <1>8, <2>1, <2>2, <2>f, <3>1, RetireGone DEF Freed, Gone, Drawn, Connected, TypeOK,
         Told, Served, lock, Working
  <2>6. Keys' /\ Saved'
    BY <1>8, <2>f DEF lock, Working, TypeOK, Mutex, Connected, Stages, Keys, Saved, Served,
       Away, Detached, NoFile, Freed
  <2> QED
    BY <2>1, <2>2, <2>3, <2>4, <2>5, <2>6
<1>9. ASSUME unlock(j) PROVE Inv'
  <2>f. Freed(j)
    BY <1>9, FinishFrees DEF Mutex, unlock, Working, Regenerates, connect
  <2>n. gen' \in Nat /\ fresh' \in Nat /\ fresh <= fresh' /\ gen' < fresh'
    BY <1>9, RegeneratesDraws DEF unlock
  <2>k. Key[j] \in Held
    BY <1>9, KeyHeld DEF unlock, Working, Keyed
  <2>1. TypeOK'
    BY <1>9, <2>f, <2>n, <2>k DEF unlock, TypeOK, Freed
  <2>2. Mutex' /\ Connected'
    BY <1>9, <2>f DEF unlock, Working, Regenerates, connect, TypeOK, Mutex, Connected,
       Served, Away, Detached, NoFile, Freed
  <2>3. Stages'
    BY <1>9, <2>f DEF unlock, Working, Regenerates, connect, TypeOK, Mutex, Stages,
       Detached, Freed
  <2>4. Drawn'
    BY <1>9, <2>n, DrawnGrows DEF unlock
  <2>5. Gone'
    <3>1. retired \subseteq known' /\ ~Away' /\ Retire
      BY <1>9, <2>f DEF Freed, Gone, unlock
    <3> QED
      BY <1>9, <2>1, <2>2, <2>f, <3>1, RetireGone DEF Freed, Gone, Drawn, Connected, TypeOK,
         Told, Served, unlock, Working, Regenerates, connect
  <2>6. Keys' /\ Saved'
    BY <1>9, <2>f DEF unlock, Working, Regenerates, connect, TypeOK, Mutex, Connected,
       Stages, Keys, Saved, Served, Away, Detached, NoFile, Freed
  <2> QED
    BY <2>1, <2>2, <2>3, <2>4, <2>5, <2>6
<1>10. ASSUME Detach(j) PROVE Inv'
  <2>1. TypeOK'
    BY <1>10 DEF Detach, Working, TypeOK, Places, Detached, NoFile
  <2>2. Mutex' /\ Connected'
    BY <1>10 DEF Detach, Working, TypeOK, Mutex, Connected, Served, Away, Detached, NoFile
  <2>3. Stages'
    BY <1>10 DEF Detach, Working, TypeOK, Mutex, Stages, Detached
  <2>4. Drawn'
    BY <1>10 DEF Detach, Working, TypeOK, Drawn, Disks, Contents, Told
  <2>5. Gone'
    BY <1>10 DEF Detach, Working, TypeOK, Mutex, Connected, Drawn, Gone, Served, Away,
       Detached, NoFile
  <2>6. Keys' /\ Saved'
    BY <1>10 DEF Detach, Working, TypeOK, Mutex, Connected, Stages, Keys, Saved, Served,
       Away, Detached, NoFile
  <2> QED
    BY <2>1, <2>2, <2>3, <2>4, <2>5, <2>6
<1>11. ASSUME Export(j) PROVE Inv'
  <2>c. /\ copy' \in [Jobs -> [synced: BOOLEAN, items: Contents]]
        /\ copy'[j].items = acked /\ ~copy'[j].synced
        /\ \A k \in Jobs \ {j} : copy'[k] = copy[k]
    <3>1. disk[identity].items = acked /\ acked \in Contents
      BY <1>11 DEF Export, Step, Mutex, Connected, Served, Away, Detached, Saved, TypeOK
    <3> QED
      BY <1>11, <3>1 DEF Export, TypeOK
  <2>1. TypeOK'
    BY <1>11, <2>c DEF Export, Step, TypeOK, Places, Detached
  <2>2. Mutex' /\ Connected'
    BY <1>11 DEF Export, Step, TypeOK, Mutex, Connected, Served, Away, Detached, NoFile
  <2>3. Stages'
    BY <1>11, <2>c DEF Export, Step, TypeOK, Stages, Detached
  <2>4. Drawn'
    BY <1>11 DEF Export, Step, TypeOK, Drawn, Disks, Contents, Told
  <2>5. Gone'
    BY <1>11 DEF Export, Step, TypeOK, Mutex, Connected, Drawn, Gone, Served, Away,
       Detached, NoFile
  <2>6. Keys' /\ Saved'
    BY <1>11 DEF Export, Step, TypeOK, Mutex, Connected, Stages, Keys, Saved, Served, Away,
       Detached, NoFile
  <2> QED
    BY <2>1, <2>2, <2>3, <2>4, <2>5, <2>6
<1>12. ASSUME Synced(j) PROVE Inv'
  <2>c. /\ copy' \in [Jobs -> [synced: BOOLEAN, items: Contents]]
        /\ copy'[j].items = copy[j].items /\ copy'[j].synced
        /\ \A k \in Jobs \ {j} : copy'[k] = copy[k]
    BY <1>12 DEF Synced, TypeOK
  <2>1. TypeOK'
    BY <1>12 DEF Synced, Step, TypeOK, Places, Detached, NoFile
  <2>2. Mutex' /\ Connected'
    BY <1>12 DEF Synced, Step, TypeOK, Mutex, Connected, Served, Away, Detached, NoFile
  <2>3. Stages'
    BY <1>12, <2>c DEF Synced, Step, TypeOK, Stages, Detached
  <2>4. Drawn'
    BY <1>12 DEF Synced, Step, TypeOK, Drawn, Disks, Contents, Told
  <2>5. Gone'
    BY <1>12 DEF Synced, Step, TypeOK, Mutex, Connected, Drawn, Gone, Served, Away,
       Detached, NoFile
  <2>6. Keys' /\ Saved'
    BY <1>12 DEF Synced, Step, TypeOK, Mutex, Connected, Stages, Keys, Saved, Served, Away,
       Detached, NoFile
  <2> QED
    BY <2>1, <2>2, <2>3, <2>4, <2>5, <2>6
<1>13. ASSUME Rekey(j) PROVE Inv'
  <2>i. identity \in 0..2 /\ disk \in Disks
    BY DEF TypeOK
  <2>k. Key[j] \in Held
    BY <1>13, KeyHeld DEF Rekey, Step, Stages, Keyed
  <2>d. /\ disk' \in Disks /\ disk'[identity].key = Key[j]
        /\ \A m \in 0..2 : disk'[m].items = disk[m].items /\ (m # identity => disk'[m].key = disk[m].key)
    <3>1. disk' = [disk EXCEPT ![identity].key = Key[j]]
      BY <1>13 DEF Rekey
    <3> QED
      BY <2>i, <2>k, <3>1, KeyWrites
  <2>1. TypeOK'
    BY <1>13, <2>d DEF Rekey, Step, TypeOK, Places, Detached
  <2>2. Mutex' /\ Connected'
    BY <1>13 DEF Rekey, Step, TypeOK, Mutex, Connected, Served, Away, Detached, NoFile
  <2>3. Stages'
    BY <1>13 DEF Rekey, Step, TypeOK, Mutex, Stages, Detached
  <2>4. Drawn'
    BY <1>13 DEF Rekey, Step, TypeOK, Drawn, Disks, Contents, Told
  <2>5. Gone'
    BY <1>13 DEF Rekey, Step, TypeOK, Mutex, Connected, Drawn, Gone, Served, Away, Detached,
       NoFile
  <2>6. Keys' /\ Saved'
    <3>1. holder = j /\ identity = path
      BY <1>13 DEF Rekey, Step, Mutex, Connected, Served, Away, Detached
    <3>2. Keys'
      BY <1>13, <2>d, <3>1 DEF Rekey, Step, Keys, TypeOK, Away, Detached
    <3>3. Saved'
      BY <1>13, <2>d, <2>k, <3>1 DEF Rekey, Step, Saved, TypeOK
    <3> QED
      BY <3>2, <3>3
  <2> QED
    BY <2>1, <2>2, <2>3, <2>4, <2>5, <2>6
<1>14. ASSUME Attach(j) PROVE Inv'
  <2>f. Freed(j)
    BY <1>14, FinishFrees DEF Mutex, Attach, Regenerates, Detached
  <2>k. Op[j] = "rotate" => Key[j] \in Held
    BY <1>14, KeyHeld DEF Keyed
  <2>n. gen' \in Nat /\ fresh' \in Nat /\ fresh <= fresh' /\ gen' < fresh'
    BY <1>14, RegeneratesDraws DEF Attach, TypeOK, Drawn
  <2>g. gen' = gen \/ gen' = fresh
    BY <1>14 DEF Attach, Regenerates
  <2>1. TypeOK'
    BY <1>14, <2>f, <2>n, <2>k DEF Attach, TypeOK, Freed
  <2>2. Mutex' /\ Connected'
    BY <1>14, <2>f DEF Attach, Regenerates, Detached, TypeOK, Mutex, Connected, Served,
       Away, NoFile, Freed
  <2>3. Stages'
    BY <1>14, <2>f DEF Attach, Regenerates, Detached, TypeOK, Mutex, Stages, Freed
  <2>4. Drawn'
    BY <1>14, <2>n, DrawnGrows DEF Attach
  <2>5. Gone'
    <3>1. retired \subseteq known' /\ ~Away' /\ Retire
      BY <1>14, <2>f DEF Freed, Gone, Attach
    <3>2. Served /\ conn' = identity /\ UNCHANGED <<disk, known>>
      BY <1>14 DEF Attach, Mutex, Served, Away, Detached
    <3> QED
      BY <2>1, <2>2, <2>g, <3>1, <3>2, RetireGone DEF Gone, Drawn, TypeOK, Told
  <2>6. Keys' /\ Saved'
    BY <1>14, <2>f DEF Attach, Regenerates, Detached, TypeOK, Mutex, Connected, Stages,
       Keys, Saved, Served, Away, NoFile, Freed
  <2> QED
    BY <2>1, <2>2, <2>3, <2>4, <2>5, <2>6
<1>15. ASSUME DetachFails(j) PROVE Inv'
  <2>f. Freed(j)
    BY <1>15, FinishFrees DEF Mutex, DetachFails, Damage, Detached
  <2>i. identity \in 0..2 /\ disk \in Disks
    BY DEF TypeOK
  <2>k. PICK k \in Damage(j) : disk' = [disk EXCEPT ![identity].key = k]
    BY <1>15 DEF DetachFails
  <2>l. k \in Held \cup {Torn} /\ (k = disk[identity].key \/ pc[j] = "rekey")
    BY <2>i, <2>k DEF Damage, Disks
  <2>d. /\ disk' \in Disks /\ disk'[identity].key = k
        /\ \A m \in 0..2 : disk'[m].items = disk[m].items /\ (m # identity => disk'[m].key = disk[m].key)
    BY <2>i, <2>k, <2>l, KeyWrites
  <2>1. TypeOK'
    BY <1>15, <2>f, <2>d DEF DetachFails, TypeOK, Freed
  <2>2. Mutex' /\ Connected'
    BY <1>15, <2>f DEF DetachFails, Damage, Detached, TypeOK, Mutex, Connected, Served,
       Away, NoFile, Freed
  <2>3. Stages'
    BY <1>15, <2>f DEF DetachFails, Damage, Detached, TypeOK, Mutex, Stages, Freed
  <2>4. Drawn'
    BY <1>15, <2>f DEF DetachFails, Damage, Detached, TypeOK, Drawn, Disks, Contents, Told,
       Freed
  <2>5. Gone'
    <3>1. retired \subseteq known' /\ ~Away' /\ Retire
      BY <1>15, <2>f DEF Freed, Gone, DetachFails
    <3> QED
      BY <1>15, <2>1, <2>2, <2>f, <3>1, RetireGone DEF Freed, Gone, Drawn, Connected, TypeOK,
         Told, Served, DetachFails, Damage, Detached
  <2>6. Keys' /\ Saved'
    BY <1>15, <2>f DEF DetachFails, Damage, Detached, TypeOK, Mutex, Connected, Stages,
       Keys, Saved, Served, Away, NoFile, Freed
  <2> QED
    BY <2>1, <2>2, <2>3, <2>4, <2>5, <2>6
<1> QED
  BY <1>1, <1>2, <1>3, <1>4, <1>5, <1>6, <1>7, <1>8, <1>9, <1>10, <1>11, <1>12, <1>13,
     <1>14, <1>15 DEF Native

\* Calls, crashes and restores keep it too.
LEMMA StepKeeps ==
    ASSUME Inv, Next
    PROVE  Inv'
<1> USE StoreAssumption DEF Inv, state, jobVars, ghosts
<1>1. ASSUME NEW j \in Jobs, NEW i \in Items, NEW l \in known \cup {NoLease}, Call(j, i, l) PROVE Inv'
  <2>1. TypeOK'
    BY <1>1 DEF Call, TypeOK, Places, Detached, NoFile
  <2>2. Mutex' /\ Connected'
    BY <1>1 DEF Call, TypeOK, Mutex, Connected, Served, Away, Detached, NoFile
  <2>3. Stages'
    BY <1>1 DEF Call, TypeOK, Mutex, Stages, Detached
  <2>4. Drawn'
    BY <1>1 DEF Call, TypeOK, Drawn, Disks, Contents, Told
  <2>5. Gone'
    BY <1>1 DEF Call, TypeOK, Mutex, Connected, Drawn, Gone, Served, Away, Detached, NoFile
  <2>6. Keys' /\ Saved'
    BY <1>1 DEF Call, TypeOK, Mutex, Connected, Stages, Keys, Saved, Served, Away, Detached,
       NoFile
  <2> QED
    BY <2>1, <2>2, <2>3, <2>4, <2>5, <2>6
<1>2. ASSUME NEW j \in Jobs, Abandon(j) PROVE Inv'
  <2>1. TypeOK'
    BY <1>2 DEF Abandon, TypeOK, Places, Detached, NoFile
  <2>2. Mutex' /\ Connected'
    BY <1>2 DEF Abandon, TypeOK, Mutex, Connected, Served, Away, Detached, NoFile
  <2>3. Stages'
    BY <1>2 DEF Abandon, TypeOK, Mutex, Stages, Detached
  <2>4. Drawn'
    BY <1>2 DEF Abandon, TypeOK, Drawn, Disks, Contents, Told
  <2>5. Gone'
    BY <1>2 DEF Abandon, TypeOK, Mutex, Connected, Drawn, Gone, Served, Away, Detached,
       NoFile
  <2>6. Keys' /\ Saved'
    BY <1>2 DEF Abandon, TypeOK, Mutex, Connected, Stages, Keys, Saved, Served, Away,
       Detached, NoFile
  <2> QED
    BY <2>1, <2>2, <2>3, <2>4, <2>5, <2>6
<1>3. ASSUME NEW j \in Jobs, Restore(j) PROVE Inv'
  <2>d. /\ disk' \in Disks /\ disk'[2] = [key |-> RecoveryKey, items |-> copy[j].items]
        /\ \A m \in {0, 1} : disk'[m] = disk[m]
    BY <1>3 DEF Restore, TypeOK, Disks, Held
  <2>1. TypeOK'
    BY <1>3, <2>d DEF Restore, TypeOK
  <2>2. Mutex' /\ Connected'
    BY <1>3 DEF Restore, TypeOK, Mutex, Connected, Served, Away, Detached, NoFile
  <2>3. Stages'
    BY <1>3 DEF Restore, TypeOK, Mutex, Stages, Detached
  <2>4. Drawn'
    BY <1>3, <2>d DEF Restore, TypeOK, Drawn
  <2>5. Gone'
    BY <1>3 DEF Restore, TypeOK, Mutex, Connected, Drawn, Gone, Served, Away, Detached,
       NoFile
  <2>6. Keys' /\ Saved'
    <3>1. identity # 2 /\ RecoveryKey # Torn
      BY <1>3 DEF Restore, Connected, Held
    <3> QED
      BY <1>3, <2>d, <3>1 DEF Restore, TypeOK, Keys, Saved, Served, Away
  <2> QED
    BY <2>1, <2>2, <2>3, <2>4, <2>5, <2>6
<1>4. ASSUME Crash PROVE Inv'
  <2>i. identity \in 0..2 /\ disk \in Disks
    BY DEF TypeOK
  <2>d. /\ disk' \in Disks
        /\ \A m \in 0..2 : /\ disk'[m].items = disk[m].items
                           /\ m # identity => disk'[m].key = disk[m].key
        /\ \/ disk'[identity].key = disk[identity].key
           \/ holder # NoJob /\ pc[holder] = "rekey"
    <3>1. CASE holder = NoJob
      BY <1>4, <2>i, <3>1 DEF Crash
    <3>2. CASE holder # NoJob
      <4>1. PICK k \in Damage(holder) : disk' = [disk EXCEPT ![identity].key = k]
        BY <1>4, <3>2 DEF Crash
      <4>2. k \in Held \cup {Torn} /\ (k = disk[identity].key \/ pc[holder] = "rekey")
        BY <2>i, <4>1 DEF Damage, Disks
      <4> QED
        BY <2>i, <3>2, <4>1, <4>2, KeyWrites
    <3> QED
      BY <3>1, <3>2
  <2>h. path \in 0..2
    BY DEF TypeOK
  <2>e. disk'[path].items = disk[path].items /\ \A n \in 0..2 : disk'[n].items = disk[n].items
    BY <2>d, <2>h
  <2>g. disk'[identity].key = disk[identity].key => disk'[path].key = disk[path].key
    BY <2>d, <2>h
  <2>c. /\ copy' \in [Jobs -> [synced: BOOLEAN, items: Contents]]
        /\ \A n \in Jobs : copy[n].synced => copy'[n] = copy[n]
        /\ \A n \in Jobs : ~copy[n].synced => ~copy'[n].synced
        /\ \A n \in Jobs, i \in Items : copy'[n].items[i] \in {0, copy[n].items[i]}
    BY <1>4 DEF Crash, TypeOK, NoCopy, Empty, Contents
  <2>p. pc' \in [Jobs -> Places] /\ \A n \in Jobs : pc'[n] \in {"idle", "done"} /\ (pc'[n] = "idle" => pc[n] = "idle")
    BY <1>4 DEF Crash, Places
  <2>1. TypeOK'
    <3>1. caller' \in [Jobs -> BOOLEAN] /\ DOMAIN arg' = Jobs /\ up' \in BOOLEAN
      BY <1>4 DEF Crash
    <3>2. conn' \in 0..2 /\ identity' \in 0..2 /\ holder' = NoJob
      BY <1>4 DEF Crash, NoFile
    <3> QED
      BY <1>4, <2>d, <2>c, <2>p, <3>1, <3>2 DEF Crash, TypeOK
  <2>2. Mutex' /\ Connected'
    BY <1>4 DEF Crash, Damage, TypeOK, Mutex, Connected, Served, Away, Detached, NoFile
  <2>3. Stages'
    BY <2>p, <2>c DEF Stages, Detached
  <2>4. Drawn'
    BY <1>4, <2>e, <2>c DEF Crash, TypeOK, Drawn
  <2>5. Gone'
    <3>1. retired \subseteq known' /\ Retire /\ ~Away'
      BY <1>4 DEF Crash, Gone, Away
    <3> QED
      BY <1>4, <2>1, <2>2, <3>1, RetireGone DEF Crash
  <2>6. Keys' /\ Saved'
    <3>1. Keys'
      BY <1>4 DEF Crash, Keys, Served, Away
    <3>2. Saved'
      <4>1. disk'[path].items = acked
        BY <2>e DEF Saved
      <4>2. CASE holder # NoJob /\ pc[holder] = "rekey"
        <5>1. copy'[holder].synced /\ copy'[holder].items = acked /\ holder \in Jobs
          BY <4>2, <2>c DEF Stages, TypeOK
        <5> QED
          BY <1>4, <4>1, <5>1 DEF Crash, Saved
      <4>3. CASE disk'[identity].key = disk[identity].key
        <5>1. disk'[path].key = disk[path].key
          BY <2>g, <4>3
        <5> QED
          BY <1>4, <2>c, <4>1, <5>1 DEF Crash, Saved
      <4> QED
        BY <2>d, <4>2, <4>3
    <3> QED
      BY <3>1, <3>2
  <2> QED
    BY <2>1, <2>2, <2>3, <2>4, <2>5, <2>6
<1>5. ASSUME NEW k \in Held, open(k) PROVE Inv'
  <2>n. gen' \in Nat /\ fresh' \in Nat /\ fresh <= fresh' /\ gen' < fresh'
    BY <1>5, RegeneratesDraws DEF open
  <2>1. TypeOK'
    BY <1>5 DEF open, Regenerates, connect, TypeOK, Places, Detached, NoFile
  <2>2. Mutex' /\ Connected'
    BY <1>5 DEF open, Regenerates, connect, TypeOK, Mutex, Connected, Served, Away,
       Detached, NoFile
  <2>3. Stages'
    BY <1>5 DEF open, Regenerates, connect, TypeOK, Mutex, Stages, Detached
  <2>4. Drawn'
    BY <1>5, <2>n, DrawnGrows DEF open
  <2>5. Gone'
    <3>1. retired \subseteq known' /\ Retire /\ ~Away' /\ gen' = fresh /\ UNCHANGED known
      BY <1>5 DEF open, Gone, Away, Connected, Regenerates
    <3> QED
      BY <2>1, <2>2, <3>1, RetireGone DEF Drawn, TypeOK, Gone, Told
  <2>6. Keys' /\ Saved'
    BY <1>5 DEF open, Regenerates, connect, TypeOK, Mutex, Connected, Stages, Keys, Saved,
       Served, Away, Detached, NoFile
  <2> QED
    BY <2>1, <2>2, <2>3, <2>4, <2>5, <2>6
<1> QED
  BY NativeKeeps, <1>1, <1>2, <1>3, <1>4, <1>5 DEF Next

\* A vault that has just been opened satisfies the invariant.
LEMMA InitKeeps == Init => Inv
<1> SUFFICES ASSUME Init PROVE Inv
  OBVIOUS
<1> USE StoreAssumption DEF Init, Detached
<1>1. FirstKey \in Held /\ Empty \in Contents /\ acked \in Contents
  BY DEF Held, Empty, Contents
<1>2. TypeOK
  BY <1>1 DEF TypeOK, Disks, NoCopy, Places
<1>3. Mutex /\ Connected /\ Stages
  BY <1>1 DEF Mutex, Connected, Stages, NoCopy, NoFile, Served, Away
<1>4. Drawn /\ Gone
  BY <1>1 DEF Drawn, Gone, NoCopy, Empty
<1>5. Keys /\ Saved
  BY <1>1 DEF Keys, Saved, Away
<1> QED
  BY <1>2, <1>3, <1>4, <1>5 DEF Inv

\* The inductive invariant holds of every state that jobs, crashes, restarts
\* and restores reach.
THEOREM InvHolds == Spec => []Inv
<1>1. Inv /\ UNCHANGED vars => Inv'
  BY DEF vars, state, jobVars, ghosts, Inv, TypeOK, Mutex, Connected, Stages, Drawn, Gone,
     Keys, Saved, Served, Away
<1> QED
  BY <1>1, InitKeeps, StepKeeps, PTL DEF Spec

-----------------------------------------------------------------------------
(* Theorems *)

\* Every variable keeps its type.
THEOREM TypeCorrect == Spec => []TypeOK
BY InvHolds, PTL DEF Inv

\* A lease that has stopped being current never becomes current again: what
\* the file says of it may come back, but not under its generation.
RetiredForGood == \A l \in retired : ~Current(l)

\* What makes it so is the part of the invariant about retired leases.
LEMMA GoneIsForGood == Inv => RetiredForGood
BY DEF Inv, RetiredForGood, Current, check_lease, Found, Lease, Gone, Connected, Served

\* Locks, unlocks, writes, rotations, restores and restarts never revive a lease.
THEOREM RetiredStayRetired == Spec => []RetiredForGood
BY GoneIsForGood, InvHolds, PTL

\* No resolve, revalidate, put or delete accepts such a lease.
THEOREM RetiredRefused == Spec => []RetiredLeasesRefused
<1>1. ASSUME NEW j \in Jobs, Accepts(j) PROVE Current(arg[j].lease)
  <2>1. up /\ conn # NoFile /\ arg[j].lease # NoLease
    BY <1>1 DEF Accepts
  <2>2. check_lease(arg[j].lease)
    BY <1>1, <2>1 DEF Accepts, Resolves, Writes
  <2> QED
    BY <2>1, <2>2 DEF Current
<1>2. Inv => RetiredLeasesRefused
  BY <1>1, GoneIsForGood DEF RetiredForGood, RetiredLeasesRefused
<1> QED
  BY <1>2, InvHolds, PTL

\* All that was committed can be opened, in the vault or in a synchronized
\* copy, wherever the process died.
THEOREM CommittedSurvives == Spec => []NothingLost
<1>1. Inv => NothingLost
  <2> SUFFICES ASSUME Inv PROVE NothingLost
    OBVIOUS
  <2>1. disk[path].key \in Held \cup {Torn}
    BY DEF Inv, TypeOK, Disks
  <2> QED
    BY <2>1 DEF Inv, Saved, NothingLost
<1> QED
  BY <1>1, InvHolds, PTL

\* The store serves no file under another key than its generation's.
THEOREM OneKeyPerGeneration == Spec => []GenerationPerKey
<1>1. Inv => GenerationPerKey
  BY DEF Inv, Keys, Connected, Served, Away, GenerationPerKey
<1> QED
  BY <1>1, InvHolds, PTL
=============================================================================
