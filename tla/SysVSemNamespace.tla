-------------------------- MODULE SysVSemNamespace --------------------------
(***************************************************************************)
(* The namespace of semaphore sets in native/runtime/sysv-semaphore.c: the  *)
(* directory with one id-XXXXXXXX entry per set and, for sets that have a   *)
(* key, a hard link key-XXXXXXXX to the same file.  semget finds or creates *)
(* a set, semctl(IPC_RMID) removes one.  Every system call on the directory *)
(* and every unlocked read of a mapped file is a step of its own.           *)
(*                                                                          *)
(* A file is an inode: it lives on after its names are unlinked, because    *)
(* processes keep it open.                                                  *)
(***************************************************************************)
EXTENDS Naturals, FiniteSets

CONSTANTS
  Process, Key, Id,
  Requests,     \* the semget calls that are made, see Request
  IPC_PRIVATE,  \* the key that is never linked
  None,         \* no file, no process, no id
  MaxFiles,     \* bound: files created in a behaviour
  MaxCalls,     \* bound: calls in a behaviour
  MaxRmid,      \* bound: IPC_RMID calls among them
  MaxCrashes    \* bound: processes that die

\* Files are numbered in the order of their creation and never reused.
File == 1 .. MaxFiles
NoFile == 0

\* The arguments of semget; nsems = 0 accepts a set of any size.
Request == [key : Key \cup {IPC_PRIVATE}, nsems : Nat, creat : BOOLEAN,
            excl : BOOLEAN]
NoRequest == [key |-> IPC_PRIVATE, nsems |-> 0, creat |-> FALSE, excl |-> FALSE]

ASSUME NamespaceAssumption ==
  /\ IPC_PRIVATE \notin Key
  /\ None \notin Process \cup Id
  /\ Requests \subseteq Request
  /\ MaxFiles \in Nat

VARIABLES
  idEntry,      \* [Id -> File \cup {NoFile}]: the id-... directory entries
  keyEntry,     \* [Key -> File \cup {NoFile}]: the key-... directory entries
  inode,        \* [File -> Inode]
  lock,         \* [File -> Process \cup {None}]: fcntl write locks
  pc, req,      \* each process: where it is, and what it asked for
  file,         \* the file it has open
  id,           \* the id it looked up or created
  known,        \* history: the files whose id semget has returned
  calls, rmids, crashes

dir == <<idEntry, keyEntry>>
bounds == <<calls, rmids, crashes>>
vars == <<dir, inode, lock, pc, req, file, id, known, bounds>>

\* used: allocated.  magic: the set is complete.  The other fields of
\* struct bx_sem_state belong to module SysVSem.
Inode == [used : BOOLEAN, magic : BOOLEAN, removed : BOOLEAN,
          id : Id \cup {None}, key : Key \cup {IPC_PRIVATE, None}, nsems : Nat]

Blank == [used |-> FALSE, magic |-> FALSE, removed |-> FALSE, id |-> None,
          key |-> None, nsems |-> 0]

Init ==
  /\ idEntry = [i \in Id |-> NoFile]
  /\ keyEntry = [k \in Key |-> NoFile]
  /\ inode = [f \in File |-> Blank]
  /\ lock = [f \in File |-> None]
  /\ pc = [p \in Process |-> "idle"]
  /\ req = [p \in Process |-> NoRequest]
  /\ file = [p \in Process |-> NoFile]
  /\ id = [p \in Process |-> None]
  /\ known = {}
  /\ calls = 0 /\ rmids = 0 /\ crashes = 0

Goto(p, there) == pc' = [pc EXCEPT ![p] = there]

\* Return to the caller; close_mapping closes the file.
Return(p) ==
  /\ Goto(p, "idle")
  /\ file' = [file EXCEPT ![p] = NoFile]

Begin(p) == /\ pc[p] = "idle"
            /\ calls < MaxCalls
            /\ calls' = calls + 1

-----------------------------------------------------------------------------
(* semget *)

Semget(p, r) ==
  /\ Begin(p)
  /\ IF r.key = IPC_PRIVATE /\ r.nsems = 0
       THEN Return(p) /\ UNCHANGED req
       ELSE /\ Goto(p, IF r.key = IPC_PRIVATE THEN "create" ELSE "openkey")
            /\ req' = [req EXCEPT ![p] = r]
            /\ UNCHANGED <<file>>
  /\ UNCHANGED <<dir, inode, lock, id, known, rmids, crashes>>

\* open(key_path): the file is read in the next step.
OpenKey(p) ==
  /\ pc[p] = "openkey"
  /\ LET f == keyEntry[req[p].key]
     IN  \/ /\ f # NoFile
            /\ file' = [file EXCEPT ![p] = f]
            /\ Goto(p, "readkey")
         \/ /\ f = NoFile /\ req[p].creat
            /\ Goto(p, "create") /\ UNCHANGED <<file>>
         \/ /\ f = NoFile /\ ~req[p].creat
            /\ Return(p)
  /\ UNCHANGED <<dir, inode, lock, req, id, known, bounds>>

\* The mapped fields, read without the lock.
ReadKey(p) ==
  /\ pc[p] = "readkey"
  /\ LET n == inode[file[p]]
         r == IF ~n.magic \/ n.removed THEN "EINVAL"
              ELSE IF req[p].creat /\ req[p].excl THEN "EEXIST"
              ELSE IF req[p].nsems > n.nsems THEN "EINVAL" ELSE "ok"
     IN  /\ Return(p)
         /\ id' = [id EXCEPT ![p] = IF r = "ok" THEN n.id ELSE None]
         /\ known' = IF r = "ok" THEN known \cup {file[p]} ELSE known
  /\ UNCHANGED <<dir, inode, lock, req, bounds>>

\* create_state: open(id_path, O_CREAT | O_EXCL) on some free candidate.
CreateId(p) ==
  /\ pc[p] = "create"
  /\ \E i \in Id, f \in File :
       /\ idEntry[i] = NoFile
       /\ ~inode[f].used /\ \A g \in 1 .. f-1 : inode[g].used
       /\ idEntry' = [idEntry EXCEPT ![i] = f]
       /\ inode' = [inode EXCEPT ![f].used = TRUE]
       /\ file' = [file EXCEPT ![p] = f]
       /\ id' = [id EXCEPT ![p] = i]
  /\ Goto(p, "fill")
  /\ UNCHANGED <<keyEntry, lock, req, known, bounds>>

\* ENOSPC: every id is taken.
NoFreeId(p) ==
  /\ pc[p] = "create" /\ \A i \in Id : idEntry[i] # NoFile
  /\ Return(p)
  /\ UNCHANGED <<dir, inode, lock, req, id, known, bounds>>

\* The fields, then a release fence, then the magic.
Fill(p) ==
  /\ pc[p] = "fill"
  /\ inode' = [inode EXCEPT ![file[p]] =
                 [@ EXCEPT !.id = id[p], !.key = req[p].key,
                           !.nsems = req[p].nsems]]
  /\ Goto(p, "publish")
  /\ UNCHANGED <<dir, lock, req, file, id, known, bounds>>

\* Mutant of Publish: the link may be made before the magic is written.
PublishLate(p) ==
  /\ pc[p] = "publish"
  /\ UNCHANGED inode
  /\ Goto(p, "link")
  /\ file' = [file EXCEPT ![p] = NoFile]
  /\ UNCHANGED <<dir, lock, req, id, known, bounds>>

Publish(p) ==
  /\ pc[p] = "publish"
  /\ inode' = [inode EXCEPT ![file[p]].magic = TRUE]
  /\ Goto(p, "link")
  /\ file' = [file EXCEPT ![p] = NoFile]
  /\ UNCHANGED <<dir, lock, req, id, known, bounds>>

\* Mutant of Link: rename instead of link, which replaces what is there.
LinkByRename(p) ==
  /\ pc[p] = "link"
  /\ keyEntry' = IF req[p].key = IPC_PRIVATE THEN keyEntry
                 ELSE [keyEntry EXCEPT ![req[p].key] = idEntry[id[p]]]
  /\ Return(p)
  /\ known' = known \cup {idEntry[id[p]]}
  /\ UNCHANGED <<idEntry, inode, lock, req, id, bounds>>

\* link(id_path, key_path) fails when the key exists.  It links whatever
\* file id_path names by now.
Link(p) ==
  /\ pc[p] = "link"
  /\ LET k == req[p].key
         f == idEntry[id[p]]
     IN  \/ /\ k = IPC_PRIVATE
            /\ Return(p) /\ known' = known \cup {idEntry[id[p]]}
            /\ UNCHANGED keyEntry
         \/ /\ k # IPC_PRIVATE /\ f # NoFile /\ keyEntry[k] = NoFile
            /\ keyEntry' = [keyEntry EXCEPT ![k] = f]
            /\ Return(p) /\ known' = known \cup {idEntry[id[p]]}
         \/ /\ k # IPC_PRIVATE /\ f # NoFile /\ keyEntry[k] # NoFile
            /\ Goto(p, "unlinkown")
            /\ UNCHANGED <<keyEntry, file, known>>
         \/ /\ k # IPC_PRIVATE /\ f = NoFile
            /\ Return(p)
            /\ UNCHANGED <<keyEntry, known>>
  /\ UNCHANGED <<idEntry, inode, lock, req, id, bounds>>

\* Mutant of UnlinkOwn: try again without giving the id back.
RetryWithoutUnlink(p) ==
  /\ pc[p] = "unlinkown"
  /\ Goto(p, "link")
  /\ UNCHANGED <<dir, inode, lock, req, file, id, known, bounds>>

\* Somebody else created the set: give the id back and start again.
UnlinkOwn(p) ==
  /\ pc[p] = "unlinkown"
  /\ idEntry' = [idEntry EXCEPT ![id[p]] = NoFile]
  /\ Goto(p, "openkey")
  /\ UNCHANGED <<keyEntry, inode, lock, req, file, id, known, bounds>>

-----------------------------------------------------------------------------
(* semctl(IPC_RMID) *)

\* open_id: open the id entry and check the mapped file without the lock.
Rmid(p, i) ==
  /\ Begin(p)
  /\ rmids < MaxRmid /\ rmids' = rmids + 1
  /\ \E f \in known : inode[f].id = i
  /\ id' = [id EXCEPT ![p] = i]
  /\ LET f == idEntry[i]
     IN  IF f = NoFile
           THEN Return(p)
           ELSE /\ file' = [file EXCEPT ![p] = f]
                /\ Goto(p, "checkid")
  /\ UNCHANGED <<dir, inode, lock, req, known, crashes>>

CheckId(p) ==
  /\ pc[p] = "checkid"
  /\ LET n == inode[file[p]]
     IN  IF ~n.magic \/ n.id # id[p] \/ n.removed
           THEN Return(p)
           ELSE Goto(p, "lock") /\ UNCHANGED <<file>>
  /\ UNCHANGED <<dir, inode, lock, req, id, known, bounds>>

\* Mutant of MarkRemoved: the flag is not set.
MarkNothing(p) ==
  /\ pc[p] = "lock"
  /\ lock[file[p]] = None
  /\ lock' = [lock EXCEPT ![file[p]] = p]
  /\ Goto(p, "unlinkid")
  /\ UNCHANGED <<dir, inode, req, file, id, known, bounds>>

\* Take the lock, set removed and wake the waiters.  The flag is not
\* examined again: a second remover comes through as well.
MarkRemoved(p) ==
  /\ pc[p] = "lock"
  /\ lock[file[p]] = None
  /\ lock' = [lock EXCEPT ![file[p]] = p]
  /\ inode' = [inode EXCEPT ![file[p]].removed = TRUE]
  /\ Goto(p, "unlinkid")
  /\ UNCHANGED <<dir, req, file, id, known, bounds>>

UnlinkId(p) ==
  /\ pc[p] = "unlinkid"
  /\ idEntry' = [idEntry EXCEPT ![id[p]] = NoFile]
  /\ Goto(p, "unlinkkey")
  /\ UNCHANGED <<keyEntry, inode, lock, req, file, id, known, bounds>>

\* Mutant of UnlinkKey: only the id entry is removed.
KeepKey(p) ==
  /\ pc[p] = "unlinkkey"
  /\ lock' = [lock EXCEPT ![file[p]] = None]
  /\ Return(p)
  /\ UNCHANGED <<dir, inode, req, id, known, bounds>>

\* unlink(key_path): the entry that bears the key now, whichever set it is.
UnlinkKey(p) ==
  /\ pc[p] = "unlinkkey"
  /\ LET k == inode[file[p]].key
     IN  keyEntry' = IF k \in Key THEN [keyEntry EXCEPT ![k] = NoFile] ELSE keyEntry
  /\ lock' = [lock EXCEPT ![file[p]] = None]
  /\ Return(p)
  /\ UNCHANGED <<idEntry, inode, req, id, known, bounds>>

\* The process dies; the directory and the files stay.
Crash(p) ==
  /\ crashes < MaxCrashes
  /\ pc[p] # "dead"
  /\ crashes' = crashes + 1
  /\ Goto(p, "dead")
  /\ lock' = [f \in File |-> IF lock[f] = p THEN None ELSE lock[f]]
  /\ file' = [file EXCEPT ![p] = NoFile]
  /\ UNCHANGED <<dir, inode, req, id, known, calls, rmids>>

-----------------------------------------------------------------------------
Step(p) == \/ OpenKey(p) \/ ReadKey(p)
           \/ CreateId(p) \/ NoFreeId(p) \/ Fill(p) \/ Publish(p) \/ Link(p) \/ UnlinkOwn(p)
           \/ CheckId(p) \/ MarkRemoved(p) \/ UnlinkId(p) \/ UnlinkKey(p)

Next == \E p \in Process :
          \/ \E r \in Requests : Semget(p, r)
          \/ \E i \in Id : Rmid(p, i)
          \/ Step(p)
          \/ Crash(p)

Spec == Init /\ [][Next]_vars

FairSpec == Spec /\ \A p \in Process : WF_vars(Step(p))

-----------------------------------------------------------------------------
(* Properties *)

\* A set somebody can use: complete, not removed, and returned by semget.
Live(f) == inode[f].magic /\ ~inode[f].removed /\ f \in known

\* create_state writes the magic last and links after that: whoever finds a
\* file under a key finds a complete set of that key, even when creators die
\* half way.
KeyNamesCompleteSet ==
  \A k \in Key :
    keyEntry[k] # NoFile => inode[keyEntry[k]].magic /\ inode[keyEntry[k]].key = k

\* The id that semget reads from a key's file opens that same file: id and
\* key entry of a set that is not removed agree.
IdAndKeyAgree ==
  \A k \in Key :
    LET f == keyEntry[k]
    IN  f # NoFile /\ ~inode[f].removed => idEntry[inode[f].id] = f

\* One key names one set: two usable sets never share a key, so two processes
\* that agree on a key share their semaphores.
OneSetPerKey ==
  \A f, g \in File :
    Live(f) /\ Live(g) /\ inode[f].key = inode[g].key
      => f = g \/ inode[f].key = IPC_PRIVATE

\* A removed set does not keep its key: a later semget(IPC_CREAT) succeeds.
\* Only a remover that dies half way may leave it.
RemovedKeyIsFreed ==
  \A k \in Key, f \in File :
    keyEntry[k] = f /\ inode[f].removed ~> keyEntry[k] # f \/ crashes > 0

\* Every call returns: the retry after a lost race for the key ends, and so
\* does the wait for the file's lock, whoever dies with it.
CallsReturn == \A p \in Process : pc[p] # "idle" ~> pc[p] \in {"idle", "dead"}
=============================================================================
