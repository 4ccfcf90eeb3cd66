----------------------- MODULE SysVSemNamespaceProofs -----------------------
(***************************************************************************)
(* Proofs about SysVSemNamespace, for every set of processes, keys and ids, *)
(* every number of files, calls and crashes, as long as IPC_RMID is called  *)
(* at most once: two removals may undo each other's work (README.md,        *)
(* section 3).                                                              *)
(***************************************************************************)
EXTENDS SysVSemNamespace, TLAPS

\* A process that is making a set, and one that is removing a set.
Creator(p) == pc[p] \in {"fill", "publish", "link", "unlinkown"}
Remover(p) == pc[p] \in {"checkid", "lock", "unlinkid", "unlinkkey"}

Place == {"idle", "dead", "openkey", "readkey", "create", "fill", "publish", "link",
          "unlinkown", "checkid", "lock", "unlinkid", "unlinkkey"}

TypeOK ==
  /\ idEntry \in [Id -> File \cup {NoFile}]
  /\ keyEntry \in [Key -> File \cup {NoFile}]
  /\ inode \in [File -> Inode]
  /\ pc \in [Process -> Place]
  /\ req \in [Process -> Request]
  /\ file \in [Process -> File \cup {NoFile}]
  /\ id \in [Process -> Id \cup {None}]
  /\ known \subseteq File
  /\ rmids \in Nat
  /\ \A p \in Process :
       pc[p] \in {"openkey", "readkey", "unlinkown"} => req[p].key \in Key

\* An id names one file, which is in use.
Ids ==
  /\ \A i, j \in Id : idEntry[i] = idEntry[j] => i = j \/ idEntry[i] = NoFile
  /\ \A i \in Id : idEntry[i] # NoFile => inode[idEntry[i]].used

\* A set that semget has returned is complete; until it is removed its id and,
\* if it has one, its key name it.
KnownSets ==
  \A f \in known :
    /\ inode[f].used /\ inode[f].magic
    /\ inode[f].id \in Id /\ inode[f].key \in Key \cup {IPC_PRIVATE}
    /\ ~inode[f].removed =>
         /\ idEntry[inode[f].id] = f
         /\ inode[f].key \in Key => keyEntry[inode[f].key] = f

Keys ==
  \A k \in Key : keyEntry[k] # NoFile =>
    keyEntry[k] \in known /\ inode[keyEntry[k]].key = k

\* The file of a creator has the creator's id, and nobody has seen it.
Creators ==
  /\ \A p \in Process : Creator(p) =>
       /\ id[p] \in Id /\ idEntry[id[p]] \in File /\ idEntry[id[p]] \notin known
       /\ pc[p] \in {"fill", "publish"} => file[p] = idEntry[id[p]]
       /\ pc[p] # "fill" => /\ inode[idEntry[id[p]]].id = id[p]
                            /\ inode[idEntry[id[p]]].key = req[p].key
       /\ pc[p] \in {"link", "unlinkown"} => inode[idEntry[id[p]]].magic
  /\ \A p, q \in Process : Creator(p) /\ Creator(q) /\ id[p] = id[q] => p = q

\* There is one remover; until it has removed a name, the name is that of the
\* set it is removing.
Removers ==
  /\ \A f \in File : inode[f].removed => f \in known /\ rmids # 0
  /\ \A p \in Process : Remover(p) =>
       /\ rmids # 0
       /\ file[p] \in known /\ inode[file[p]].id = id[p]
       /\ pc[p] # "unlinkkey" => idEntry[id[p]] = file[p]
       /\ inode[file[p]].key \in Key => keyEntry[inode[file[p]].key] = file[p]
       /\ pc[p] \in {"unlinkid", "unlinkkey"} => inode[file[p]].removed
  /\ \A p, q \in Process : Remover(p) /\ Remover(q) => p = q

\* What a process reads through a key is a known set.
Readers == \A p \in Process : pc[p] = "readkey" => file[p] \in known

Inv == /\ TypeOK
       /\ Ids
       /\ KnownSets
       /\ Keys
       /\ Creators
       /\ Removers
       /\ Readers

LEMMA InvInit == Init => Inv
  <1> SUFFICES ASSUME Init PROVE Inv
    OBVIOUS
  <1>1. TypeOK
    BY DEF Init, TypeOK, Place, Inode, Blank, Request, NoRequest, NoFile
  <1>2. Ids /\ KnownSets /\ Keys
    BY DEF Init, Ids, KnownSets, Keys, NoFile, File
  <1>3. Creators /\ Removers /\ Readers
    BY DEF Init, Creators, Removers, Readers, Creator, Remover, Blank
  <1> QED
    BY <1>1, <1>2, <1>3 DEF Inv

LEMMA InvStep ==
  ASSUME MaxRmid \in {0, 1}, Inv, [Next]_vars
  PROVE  Inv'
  <1> USE DEF Inv
  <1>0. CASE UNCHANGED vars
    BY <1>0 DEF vars, dir, bounds, TypeOK, Ids, KnownSets, Keys, Creators, Removers,
                Readers, Creator, Remover
  <1>a. NoFile \notin File
    BY DEF NoFile, File
  <1>1. ASSUME NEW p \in Process, NEW r \in Requests, Semget(p, r) PROVE Inv'
    <2>1. TypeOK'
      <3>1. pc' \in [Process -> Place]
        BY <1>1 DEF Semget, Begin, Goto, Return, TypeOK, Place
      <3>2. req' \in [Process -> Request] /\ rmids' \in Nat
        BY <1>1, NamespaceAssumption DEF Semget, TypeOK, bounds
      <3>3. file' \in [Process -> File \cup {NoFile}]
        BY <1>1 DEF Semget, Return, TypeOK
      <3>4. id' \in [Process -> Id \cup {None}] /\ known' \subseteq File
        BY <1>1, <1>a DEF Semget, TypeOK, Readers, Creators, Creator, Inode
      <3>5. inode' \in [File -> Inode]
        BY <1>1 DEF Semget, TypeOK, Inode, Creators, Creator, Removers, Remover
      <3>6. /\ idEntry' \in [Id -> File \cup {NoFile}]
            /\ keyEntry' \in [Key -> File \cup {NoFile}]
        BY <1>1 DEF Semget, TypeOK, dir
      <3>7. \A q \in Process :
              pc'[q] \in {"openkey", "readkey", "unlinkown"} => req'[q].key \in Key
        BY <1>1, NamespaceAssumption DEF Semget, Begin, Goto, Return, TypeOK, Request
      <3> QED
        BY <3>1, <3>2, <3>3, <3>4, <3>5, <3>6, <3>7 DEF TypeOK
    <2>2. Ids'
      BY <1>1, <1>a, NamespaceAssumption
      DEF Semget, Begin, Goto, Return, dir, bounds, TypeOK, Ids, Inode, Request
    <2>3. KnownSets'
      BY <1>1, <1>a, NamespaceAssumption
      DEF Semget, Begin, Goto, Return, dir, bounds, TypeOK, KnownSets, Keys, Creators, Removers, Creator, Remover, Readers, Inode, Ids, Request
    <2>4. Keys'
      BY <1>1, <1>a, NamespaceAssumption
      DEF Semget, Begin, Goto, Return, dir, bounds, TypeOK, Keys, Creators, Removers, Creator, Remover, Inode, KnownSets, Ids, Request
    <2>5. Creators'
      BY <1>1, <1>a, NamespaceAssumption
      DEF Semget, Begin, Goto, Return, dir, bounds, TypeOK, Creators, Creator, Removers, Remover, Ids, Inode, KnownSets, Request
    <2>6. Removers'
      <3>1. \A q \in Process : Remover(q)' => Remover(q) /\ q # p
        BY <1>1 DEF Semget, Begin, Goto, Return, TypeOK, Remover
      <3>2. \A q \in Process : q # p => file'[q] = file[q] /\ pc'[q] = pc[q]
        BY <1>1 DEF Semget, Begin, Goto, Return, TypeOK
      <3>3. UNCHANGED <<inode, idEntry, keyEntry, id, known, rmids>>
        BY <1>1 DEF Semget, dir
      <3> QED
        BY <3>1, <3>2, <3>3 DEF Removers, TypeOK
    <2>7. Readers'
      BY <1>1, <1>a, NamespaceAssumption
      DEF Semget, Begin, Goto, Return, dir, bounds, TypeOK, Readers, Keys, Inode, Request
    <2> QED
      BY <2>1, <2>2, <2>3, <2>4, <2>5, <2>6, <2>7
  <1>2. ASSUME NEW p \in Process, NEW j \in Id, Rmid(p, j) PROVE Inv'
    <2>1. TypeOK'
      <3>1. pc' \in [Process -> Place]
        BY <1>2 DEF Rmid, Begin, Goto, Return, TypeOK, Place
      <3>2. req' \in [Process -> Request] /\ rmids' \in Nat
        BY <1>2 DEF Rmid, TypeOK, bounds
      <3>3. file' \in [Process -> File \cup {NoFile}]
        BY <1>2 DEF Rmid, Return, TypeOK
      <3>4. id' \in [Process -> Id \cup {None}] /\ known' \subseteq File
        BY <1>2, <1>a DEF Rmid, TypeOK, Readers, Creators, Creator, Inode
      <3>5. inode' \in [File -> Inode]
        BY <1>2 DEF Rmid, TypeOK, Inode, Creators, Creator, Removers, Remover
      <3>6. /\ idEntry' \in [Id -> File \cup {NoFile}]
            /\ keyEntry' \in [Key -> File \cup {NoFile}]
        BY <1>2 DEF Rmid, TypeOK, dir
      <3>7. \A q \in Process :
              pc'[q] \in {"openkey", "readkey", "unlinkown"} => req'[q].key \in Key
        BY <1>2 DEF Rmid, Begin, Goto, Return, TypeOK, Request
      <3> QED
        BY <3>1, <3>2, <3>3, <3>4, <3>5, <3>6, <3>7 DEF TypeOK
    <2>2. Ids'
      BY <1>2, <1>a
      DEF Rmid, Begin, Goto, Return, dir, bounds, TypeOK, Ids, Inode
    <2>3. KnownSets'
      BY <1>2, <1>a
      DEF Rmid, Begin, Goto, Return, dir, bounds, TypeOK, KnownSets, Keys, Creators, Removers, Creator, Remover, Readers, Inode, Ids
    <2>4. Keys'
      BY <1>2, <1>a
      DEF Rmid, Begin, Goto, Return, dir, bounds, TypeOK, Keys, Creators, Removers, Creator, Remover, Inode, KnownSets, Ids
    <2>5. Creators'
      BY <1>2, <1>a
      DEF Rmid, Begin, Goto, Return, dir, bounds, TypeOK, Creators, Creator, Removers, Remover, Ids, Inode, KnownSets
    <2>6. Removers'
      BY <1>2, <1>a
      DEF Rmid, Begin, Goto, Return, dir, bounds, TypeOK, Removers, Remover, Creators, Creator, KnownSets, Ids, Keys, Inode
    <2>7. Readers'
      BY <1>2, <1>a
      DEF Rmid, Begin, Goto, Return, dir, bounds, TypeOK, Readers, Keys, Inode
    <2> QED
      BY <2>1, <2>2, <2>3, <2>4, <2>5, <2>6, <2>7
  <1>3. ASSUME NEW p \in Process, OpenKey(p) PROVE Inv'
    <2>1. TypeOK'
      BY <1>3, <1>a, NamespaceAssumption
      DEF OpenKey, Begin, Goto, Return, dir, bounds, TypeOK, Place, Inode, Request
    <2>2. Ids'
      BY <1>3, <1>a
      DEF OpenKey, Begin, Goto, Return, dir, bounds, TypeOK, Ids, Inode
    <2>3. KnownSets'
      BY <1>3, <1>a
      DEF OpenKey, Begin, Goto, Return, dir, bounds, TypeOK, KnownSets, Keys, Creators, Removers, Creator, Remover, Readers, Inode, Ids
    <2>4. Keys'
      BY <1>3, <1>a
      DEF OpenKey, Begin, Goto, Return, dir, bounds, TypeOK, Keys, Creators, Removers, Creator, Remover, Inode, KnownSets, Ids
    <2>5. Creators'
      BY <1>3, <1>a
      DEF OpenKey, Begin, Goto, Return, dir, bounds, TypeOK, Creators, Creator, Removers, Remover, Ids, Inode, KnownSets
    <2>6. Removers'
      BY <1>3, <1>a
      DEF OpenKey, Begin, Goto, Return, dir, bounds, TypeOK, Removers, Remover, Creators, Creator, KnownSets, Ids, Keys, Inode
    <2>7. Readers'
      BY <1>3, <1>a
      DEF OpenKey, Begin, Goto, Return, dir, bounds, TypeOK, Readers, Keys, Inode
    <2> QED
      BY <2>1, <2>2, <2>3, <2>4, <2>5, <2>6, <2>7
  <1>4. ASSUME NEW p \in Process, ReadKey(p) PROVE Inv'
    <2>1. TypeOK'
      <3>1. pc' \in [Process -> Place]
        BY <1>4 DEF ReadKey, Begin, Goto, Return, TypeOK, Place
      <3>2. req' \in [Process -> Request] /\ rmids' \in Nat
        BY <1>4 DEF ReadKey, TypeOK, bounds
      <3>3. file' \in [Process -> File \cup {NoFile}]
        BY <1>4 DEF ReadKey, Return, TypeOK
      <3>4. id' \in [Process -> Id \cup {None}] /\ known' \subseteq File
        BY <1>4, <1>a DEF ReadKey, TypeOK, Readers, Creators, Creator, Inode
      <3>5. inode' \in [File -> Inode]
        BY <1>4 DEF ReadKey, TypeOK, Inode, Creators, Creator, Removers, Remover
      <3>6. /\ idEntry' \in [Id -> File \cup {NoFile}]
            /\ keyEntry' \in [Key -> File \cup {NoFile}]
        BY <1>4 DEF ReadKey, TypeOK, dir
      <3>7. \A q \in Process :
              pc'[q] \in {"openkey", "readkey", "unlinkown"} => req'[q].key \in Key
        BY <1>4 DEF ReadKey, Begin, Goto, Return, TypeOK, Request
      <3> QED
        BY <3>1, <3>2, <3>3, <3>4, <3>5, <3>6, <3>7 DEF TypeOK
    <2>2. Ids'
      BY <1>4, <1>a
      DEF ReadKey, Begin, Goto, Return, dir, bounds, TypeOK, Ids, Inode
    <2>3. KnownSets'
      BY <1>4, <1>a
      DEF ReadKey, Begin, Goto, Return, dir, bounds, TypeOK, KnownSets, Keys, Creators, Removers, Creator, Remover, Readers, Inode, Ids
    <2>4. Keys'
      BY <1>4, <1>a
      DEF ReadKey, Begin, Goto, Return, dir, bounds, TypeOK, Keys, Creators, Removers, Creator, Remover, Inode, KnownSets, Ids
    <2>5. Creators'
      <3>1. known' = known
        BY <1>4 DEF ReadKey, Readers
      <3>2. \A q \in Process : Creator(q)' =>
              Creator(q) /\ q # p /\ id'[q] = id[q] /\ file'[q] = file[q] /\ pc'[q] = pc[q]
        BY <1>4 DEF ReadKey, Goto, Return, TypeOK, Creator
      <3>3. UNCHANGED <<inode, idEntry, req>>
        BY <1>4 DEF ReadKey, dir
      <3> QED
        BY <3>1, <3>2, <3>3 DEF Creators
    <2>6. Removers'
      BY <1>4, <1>a
      DEF ReadKey, Begin, Goto, Return, dir, bounds, TypeOK, Removers, Remover, Creators, Creator, KnownSets, Ids, Keys, Inode
    <2>7. Readers'
      BY <1>4, <1>a
      DEF ReadKey, Begin, Goto, Return, dir, bounds, TypeOK, Readers, Keys, Inode
    <2> QED
      BY <2>1, <2>2, <2>3, <2>4, <2>5, <2>6, <2>7
  <1>5. ASSUME NEW p \in Process, CreateId(p) PROVE Inv'
    <2>1. TypeOK'
      <3>1. pc' \in [Process -> Place]
        BY <1>5 DEF CreateId, Begin, Goto, Return, TypeOK, Place
      <3>2. req' \in [Process -> Request] /\ rmids' \in Nat
        BY <1>5 DEF CreateId, TypeOK, bounds
      <3>3. file' \in [Process -> File \cup {NoFile}]
        BY <1>5 DEF CreateId, Return, TypeOK
      <3>4. id' \in [Process -> Id \cup {None}] /\ known' \subseteq File
        BY <1>5, <1>a DEF CreateId, TypeOK, Readers, Creators, Creator, Inode
      <3>5. inode' \in [File -> Inode]
        <4>1. PICK f \in File : inode' = [inode EXCEPT ![f].used = TRUE]
          BY <1>5 DEF CreateId
        <4>2. [inode[f] EXCEPT !.used = TRUE] \in Inode
          BY DEF TypeOK, Inode
        <4> QED
          BY <4>1, <4>2 DEF TypeOK
      <3>6. /\ idEntry' \in [Id -> File \cup {NoFile}]
            /\ keyEntry' \in [Key -> File \cup {NoFile}]
        BY <1>5 DEF CreateId, TypeOK, dir
      <3>7. \A q \in Process :
              pc'[q] \in {"openkey", "readkey", "unlinkown"} => req'[q].key \in Key
        BY <1>5 DEF CreateId, Begin, Goto, Return, TypeOK, Request
      <3> QED
        BY <3>1, <3>2, <3>3, <3>4, <3>5, <3>6, <3>7 DEF TypeOK
    <2>2. Ids'
      BY <1>5, <1>a
      DEF CreateId, Begin, Goto, Return, dir, bounds, TypeOK, Ids, Inode
    <2>3. KnownSets'
      BY <1>5, <1>a
      DEF CreateId, Begin, Goto, Return, dir, bounds, TypeOK, KnownSets, Keys, Creators, Removers, Creator, Remover, Readers, Inode, Ids
    <2>4. Keys'
      BY <1>5, <1>a
      DEF CreateId, Begin, Goto, Return, dir, bounds, TypeOK, Keys, Creators, Removers, Creator, Remover, Inode, KnownSets, Ids
    <2>5. Creators'
      BY <1>5, <1>a
      DEF CreateId, Begin, Goto, Return, dir, bounds, TypeOK, Creators, Creator, Removers, Remover, Ids, Inode, KnownSets
    <2>6. Removers'
      BY <1>5, <1>a
      DEF CreateId, Begin, Goto, Return, dir, bounds, TypeOK, Removers, Remover, Creators, Creator, KnownSets, Ids, Keys, Inode
    <2>7. Readers'
      BY <1>5, <1>a
      DEF CreateId, Begin, Goto, Return, dir, bounds, TypeOK, Readers, Keys, Inode
    <2> QED
      BY <2>1, <2>2, <2>3, <2>4, <2>5, <2>6, <2>7
  <1>6. ASSUME NEW p \in Process, NoFreeId(p) PROVE Inv'
    <2>1. TypeOK'
      BY <1>6, <1>a, NamespaceAssumption
      DEF NoFreeId, Begin, Goto, Return, dir, bounds, TypeOK, Place, Inode, Request
    <2>2. Ids'
      BY <1>6, <1>a
      DEF NoFreeId, Begin, Goto, Return, dir, bounds, TypeOK, Ids, Inode
    <2>3. KnownSets'
      BY <1>6, <1>a
      DEF NoFreeId, Begin, Goto, Return, dir, bounds, TypeOK, KnownSets, Keys, Creators, Removers, Creator, Remover, Readers, Inode, Ids
    <2>4. Keys'
      BY <1>6, <1>a
      DEF NoFreeId, Begin, Goto, Return, dir, bounds, TypeOK, Keys, Creators, Removers, Creator, Remover, Inode, KnownSets, Ids
    <2>5. Creators'
      BY <1>6, <1>a
      DEF NoFreeId, Begin, Goto, Return, dir, bounds, TypeOK, Creators, Creator, Removers, Remover, Ids, Inode, KnownSets
    <2>6. Removers'
      BY <1>6, <1>a
      DEF NoFreeId, Begin, Goto, Return, dir, bounds, TypeOK, Removers, Remover, Creators, Creator, KnownSets, Ids, Keys, Inode
    <2>7. Readers'
      BY <1>6, <1>a
      DEF NoFreeId, Begin, Goto, Return, dir, bounds, TypeOK, Readers, Keys, Inode
    <2> QED
      BY <2>1, <2>2, <2>3, <2>4, <2>5, <2>6, <2>7
  <1>7. ASSUME NEW p \in Process, Fill(p) PROVE Inv'
    <2>1. TypeOK'
      <3>1. pc' \in [Process -> Place]
        BY <1>7 DEF Fill, Begin, Goto, Return, TypeOK, Place
      <3>2. req' \in [Process -> Request] /\ rmids' \in Nat
        BY <1>7 DEF Fill, TypeOK, bounds
      <3>3. file' \in [Process -> File \cup {NoFile}]
        BY <1>7 DEF Fill, Return, TypeOK
      <3>4. id' \in [Process -> Id \cup {None}] /\ known' \subseteq File
        BY <1>7, <1>a DEF Fill, TypeOK, Readers, Creators, Creator, Inode
      <3>5. inode' \in [File -> Inode]
        <4>1. file[p] \in File /\ id[p] \in Id /\ req[p] \in Request
          BY <1>7 DEF Fill, TypeOK, Creators, Creator
        <4>2. req[p].key \in Key \cup {IPC_PRIVATE} /\ req[p].nsems \in Nat
          BY <4>1 DEF Request
        <4> DEFINE x == [inode[file[p]] EXCEPT !.id = id[p]]
                   y == [x EXCEPT !.key = req[p].key]
                   z == [y EXCEPT !.nsems = req[p].nsems]
        <4>a. x \in Inode
          BY <4>1 DEF TypeOK, Inode
        <4> HIDE DEF x
        <4>b. y \in Inode
          BY <4>2, <4>a DEF Inode
        <4> HIDE DEF y
        <4>c. z \in Inode
          BY <4>2, <4>b DEF Inode
        <4>3. [inode[file[p]] EXCEPT !.id = id[p], !.key = req[p].key,
                                     !.nsems = req[p].nsems] \in Inode
          BY <4>c DEF x, y
        <4> QED
          BY <1>7, <4>1, <4>3 DEF Fill, TypeOK
      <3>6. /\ idEntry' \in [Id -> File \cup {NoFile}]
            /\ keyEntry' \in [Key -> File \cup {NoFile}]
        BY <1>7 DEF Fill, TypeOK, dir
      <3>7. \A q \in Process :
              pc'[q] \in {"openkey", "readkey", "unlinkown"} => req'[q].key \in Key
        BY <1>7 DEF Fill, Begin, Goto, Return, TypeOK, Request
      <3> QED
        BY <3>1, <3>2, <3>3, <3>4, <3>5, <3>6, <3>7 DEF TypeOK
    <2>2. Ids'
      BY <1>7, <1>a
      DEF Fill, Begin, Goto, Return, dir, bounds, TypeOK, Ids, Inode
    <2>3. KnownSets'
      BY <1>7, <1>a
      DEF Fill, Begin, Goto, Return, dir, bounds, TypeOK, KnownSets, Keys, Creators, Removers, Creator, Remover, Readers, Inode, Ids
    <2>4. Keys'
      BY <1>7, <1>a
      DEF Fill, Begin, Goto, Return, dir, bounds, TypeOK, Keys, Creators, Removers, Creator, Remover, Inode, KnownSets, Ids
    <2>5. Creators'
      BY <1>7, <1>a
      DEF Fill, Begin, Goto, Return, dir, bounds, TypeOK, Creators, Creator, Removers, Remover, Ids, Inode, KnownSets
    <2>6. Removers'
      BY <1>7, <1>a
      DEF Fill, Begin, Goto, Return, dir, bounds, TypeOK, Removers, Remover, Creators, Creator, KnownSets, Ids, Keys, Inode
    <2>7. Readers'
      BY <1>7, <1>a
      DEF Fill, Begin, Goto, Return, dir, bounds, TypeOK, Readers, Keys, Inode
    <2> QED
      BY <2>1, <2>2, <2>3, <2>4, <2>5, <2>6, <2>7
  <1>8. ASSUME NEW p \in Process, Publish(p) PROVE Inv'
    <2>1. TypeOK'
      <3>1. pc' \in [Process -> Place]
        BY <1>8 DEF Publish, Begin, Goto, Return, TypeOK, Place
      <3>2. req' \in [Process -> Request] /\ rmids' \in Nat
        BY <1>8 DEF Publish, TypeOK, bounds
      <3>3. file' \in [Process -> File \cup {NoFile}]
        BY <1>8 DEF Publish, Return, TypeOK
      <3>4. id' \in [Process -> Id \cup {None}] /\ known' \subseteq File
        BY <1>8, <1>a DEF Publish, TypeOK, Readers, Creators, Creator, Inode
      <3>5. inode' \in [File -> Inode]
        <4>1. file[p] \in File
          BY <1>8 DEF Publish, TypeOK, Creators, Creator
        <4>2. [inode[file[p]] EXCEPT !.magic = TRUE] \in Inode
          BY <4>1, ZenonT(30) DEF TypeOK, Inode
        <4> QED
          BY <1>8, <4>1, <4>2 DEF Publish, TypeOK
      <3>6. /\ idEntry' \in [Id -> File \cup {NoFile}]
            /\ keyEntry' \in [Key -> File \cup {NoFile}]
        BY <1>8 DEF Publish, TypeOK, dir
      <3>7. \A q \in Process :
              pc'[q] \in {"openkey", "readkey", "unlinkown"} => req'[q].key \in Key
        BY <1>8 DEF Publish, Begin, Goto, Return, TypeOK, Request
      <3> QED
        BY <3>1, <3>2, <3>3, <3>4, <3>5, <3>6, <3>7 DEF TypeOK
    <2>2. Ids'
      BY <1>8, <1>a
      DEF Publish, Begin, Goto, Return, dir, bounds, TypeOK, Ids, Inode
    <2>3. KnownSets'
      BY <1>8, <1>a
      DEF Publish, Begin, Goto, Return, dir, bounds, TypeOK, KnownSets, Keys, Creators, Removers, Creator, Remover, Readers, Inode, Ids
    <2>4. Keys'
      BY <1>8, <1>a
      DEF Publish, Begin, Goto, Return, dir, bounds, TypeOK, Keys, Creators, Removers, Creator, Remover, Inode, KnownSets, Ids
    <2>5. Creators'
      BY <1>8, <1>a
      DEF Publish, Begin, Goto, Return, dir, bounds, TypeOK, Creators, Creator, Removers, Remover, Ids, Inode, KnownSets
    <2>6. Removers'
      BY <1>8, <1>a
      DEF Publish, Begin, Goto, Return, dir, bounds, TypeOK, Removers, Remover, Creators, Creator, KnownSets, Ids, Keys, Inode
    <2>7. Readers'
      BY <1>8, <1>a
      DEF Publish, Begin, Goto, Return, dir, bounds, TypeOK, Readers, Keys, Inode
    <2> QED
      BY <2>1, <2>2, <2>3, <2>4, <2>5, <2>6, <2>7
  <1>9. ASSUME NEW p \in Process, Link(p) PROVE Inv'
    <2>1. TypeOK'
      <3>1. pc' \in [Process -> Place]
        BY <1>9 DEF Link, Begin, Goto, Return, TypeOK, Place
      <3>2. req' \in [Process -> Request] /\ rmids' \in Nat
        BY <1>9 DEF Link, TypeOK, bounds
      <3>3. file' \in [Process -> File \cup {NoFile}]
        BY <1>9 DEF Link, Return, TypeOK
      <3>4. id' \in [Process -> Id \cup {None}] /\ known' \subseteq File
        BY <1>9, <1>a DEF Link, TypeOK, Readers, Creators, Creator, Inode
      <3>5. inode' \in [File -> Inode]
        BY <1>9 DEF Link, TypeOK, Inode, Creators, Creator, Removers, Remover
      <3>6. /\ idEntry' \in [Id -> File \cup {NoFile}]
            /\ keyEntry' \in [Key -> File \cup {NoFile}]
        BY <1>9 DEF Link, TypeOK, dir, Request, Creators, Creator
      <3>7. \A q \in Process :
              pc'[q] \in {"openkey", "readkey", "unlinkown"} => req'[q].key \in Key
        BY <1>9 DEF Link, Begin, Goto, Return, TypeOK, Request
      <3> QED
        BY <3>1, <3>2, <3>3, <3>4, <3>5, <3>6, <3>7 DEF TypeOK
    <2>2. Ids'
      BY <1>9, <1>a
      DEF Link, Begin, Goto, Return, dir, bounds, TypeOK, Ids, Inode
    <2>3. KnownSets'
      <3> DEFINE f == idEntry[id[p]]
                 k == req[p].key
      <3>1. /\ f \in File /\ inode[f].magic /\ inode[f].used /\ inode[f].id = id[p]
            /\ inode[f].key = k /\ id[p] \in Id /\ k \in Key \cup {IPC_PRIVATE}
        BY <1>9, <1>a DEF Link, Creators, Creator, Ids, TypeOK, Request
      <3>2. UNCHANGED <<inode, idEntry>>
        BY <1>9 DEF Link
      <3>3. \/ known' = known \cup {f} /\ k = IPC_PRIVATE /\ keyEntry' = keyEntry
            \/ /\ known' = known \cup {f} /\ k # IPC_PRIVATE /\ keyEntry[k] = NoFile
               /\ keyEntry' = [keyEntry EXCEPT ![k] = f]
            \/ known' = known /\ keyEntry' = keyEntry
        BY <1>9 DEF Link
      <3> HIDE DEF f, k
      <3>4. f \notin known /\ idEntry[id[p]] = f
        BY <1>9 DEF Link, Creators, Creator, f
      <3>5. IPC_PRIVATE \notin Key
        BY NamespaceAssumption
      <3>6. \A g \in known : inode[g].key \in Key /\ keyEntry[inode[g].key] = g
                              => keyEntry'[inode[g].key] = g
        BY <3>1, <3>3, <1>a DEF TypeOK
      <3>7. \A g \in known' : g \in known \/ (g = f /\ (k \in Key => keyEntry'[k] = f))
        BY <3>1, <3>3, <3>5 DEF TypeOK
      <3> QED
        BY <3>1, <3>2, <3>4, <3>6, <3>7, <1>a DEF KnownSets, TypeOK
    <2>4. Keys'
      BY <1>9, <1>a
      DEF Link, Begin, Goto, Return, dir, bounds, TypeOK, Keys, Creators, Removers, Creator, Remover, Inode, KnownSets, Ids
    <2>5. Creators'
      BY <1>9, <1>a
      DEF Link, Begin, Goto, Return, dir, bounds, TypeOK, Creators, Creator, Removers, Remover, Ids, Inode, KnownSets
    <2>6. Removers'
      BY <1>9, <1>a, SMTT(30)
      DEF Link, Begin, Goto, Return, dir, bounds, TypeOK, Removers, Remover, Creators, Creator, KnownSets, Ids, Keys, Inode
    <2>7. Readers'
      BY <1>9, <1>a
      DEF Link, Begin, Goto, Return, dir, bounds, TypeOK, Readers, Keys, Inode
    <2> QED
      BY <2>1, <2>2, <2>3, <2>4, <2>5, <2>6, <2>7
  <1>10. ASSUME NEW p \in Process, UnlinkOwn(p) PROVE Inv'
    <2>1. TypeOK'
      BY <1>10, <1>a, NamespaceAssumption
      DEF UnlinkOwn, Begin, Goto, Return, dir, bounds, TypeOK, Place, Inode, Request
    <2>2. Ids'
      BY <1>10, <1>a
      DEF UnlinkOwn, Begin, Goto, Return, dir, bounds, TypeOK, Ids, Inode
    <2>3. KnownSets'
      BY <1>10, <1>a
      DEF UnlinkOwn, Begin, Goto, Return, dir, bounds, TypeOK, KnownSets, Keys, Creators, Removers, Creator, Remover, Readers, Inode, Ids
    <2>4. Keys'
      BY <1>10, <1>a
      DEF UnlinkOwn, Begin, Goto, Return, dir, bounds, TypeOK, Keys, Creators, Removers, Creator, Remover, Inode, KnownSets, Ids
    <2>5. Creators'
      BY <1>10, <1>a
      DEF UnlinkOwn, Begin, Goto, Return, dir, bounds, TypeOK, Creators, Creator, Removers, Remover, Ids, Inode, KnownSets
    <2>6. Removers'
      BY <1>10, <1>a
      DEF UnlinkOwn, Begin, Goto, Return, dir, bounds, TypeOK, Removers, Remover, Creators, Creator, KnownSets, Ids, Keys, Inode
    <2>7. Readers'
      BY <1>10, <1>a
      DEF UnlinkOwn, Begin, Goto, Return, dir, bounds, TypeOK, Readers, Keys, Inode
    <2> QED
      BY <2>1, <2>2, <2>3, <2>4, <2>5, <2>6, <2>7
  <1>11. ASSUME NEW p \in Process, CheckId(p) PROVE Inv'
    <2>1. TypeOK'
      <3>1. pc' \in [Process -> Place]
        BY <1>11 DEF CheckId, Begin, Goto, Return, TypeOK, Place
      <3>2. req' \in [Process -> Request] /\ rmids' \in Nat
        BY <1>11 DEF CheckId, TypeOK, bounds
      <3>3. file' \in [Process -> File \cup {NoFile}]
        BY <1>11 DEF CheckId, Return, TypeOK
      <3>4. id' \in [Process -> Id \cup {None}] /\ known' \subseteq File
        BY <1>11, <1>a DEF CheckId, TypeOK, Readers, Creators, Creator, Inode
      <3>5. inode' \in [File -> Inode]
        BY <1>11 DEF CheckId, TypeOK, Inode, Creators, Creator, Removers, Remover
      <3>6. /\ idEntry' \in [Id -> File \cup {NoFile}]
            /\ keyEntry' \in [Key -> File \cup {NoFile}]
        BY <1>11 DEF CheckId, TypeOK, dir
      <3>7. \A q \in Process :
              pc'[q] \in {"openkey", "readkey", "unlinkown"} => req'[q].key \in Key
        BY <1>11 DEF CheckId, Begin, Goto, Return, TypeOK, Request
      <3> QED
        BY <3>1, <3>2, <3>3, <3>4, <3>5, <3>6, <3>7 DEF TypeOK
    <2>2. Ids'
      BY <1>11, <1>a
      DEF CheckId, Begin, Goto, Return, dir, bounds, TypeOK, Ids, Inode
    <2>3. KnownSets'
      BY <1>11, <1>a
      DEF CheckId, Begin, Goto, Return, dir, bounds, TypeOK, KnownSets, Keys, Creators, Removers, Creator, Remover, Readers, Inode, Ids
    <2>4. Keys'
      BY <1>11, <1>a
      DEF CheckId, Begin, Goto, Return, dir, bounds, TypeOK, Keys, Creators, Removers, Creator, Remover, Inode, KnownSets, Ids
    <2>5. Creators'
      BY <1>11, <1>a, SMTT(30)
      DEF CheckId, Begin, Goto, Return, dir, bounds, TypeOK, Creators, Creator, Removers, Remover, Ids, Inode, KnownSets
    <2>6. Removers'
      BY <1>11, <1>a, SMTT(30)
      DEF CheckId, Begin, Goto, Return, dir, bounds, TypeOK, Removers, Remover, Creators, Creator, KnownSets, Ids, Keys, Inode
    <2>7. Readers'
      BY <1>11, <1>a
      DEF CheckId, Begin, Goto, Return, dir, bounds, TypeOK, Readers, Keys, Inode
    <2> QED
      BY <2>1, <2>2, <2>3, <2>4, <2>5, <2>6, <2>7
  <1>12. ASSUME NEW p \in Process, MarkRemoved(p) PROVE Inv'
    <2>1. TypeOK'
      <3>1. pc' \in [Process -> Place]
        BY <1>12 DEF MarkRemoved, Begin, Goto, Return, TypeOK, Place
      <3>2. req' \in [Process -> Request] /\ rmids' \in Nat
        BY <1>12 DEF MarkRemoved, TypeOK, bounds
      <3>3. file' \in [Process -> File \cup {NoFile}]
        BY <1>12 DEF MarkRemoved, Return, TypeOK
      <3>4. id' \in [Process -> Id \cup {None}] /\ known' \subseteq File
        BY <1>12, <1>a DEF MarkRemoved, TypeOK, Readers, Creators, Creator, Inode
      <3>5. inode' \in [File -> Inode]
        <4>1. file[p] \in File
          BY <1>12 DEF MarkRemoved, TypeOK, Removers, Remover
        <4>2. [inode[file[p]] EXCEPT !.removed = TRUE] \in Inode
          BY <4>1, ZenonT(30) DEF TypeOK, Inode
        <4> QED
          BY <1>12, <4>1, <4>2 DEF MarkRemoved, TypeOK
      <3>6. /\ idEntry' \in [Id -> File \cup {NoFile}]
            /\ keyEntry' \in [Key -> File \cup {NoFile}]
        BY <1>12 DEF MarkRemoved, TypeOK, dir
      <3>7. \A q \in Process :
              pc'[q] \in {"openkey", "readkey", "unlinkown"} => req'[q].key \in Key
        BY <1>12 DEF MarkRemoved, Begin, Goto, Return, TypeOK, Request
      <3> QED
        BY <3>1, <3>2, <3>3, <3>4, <3>5, <3>6, <3>7 DEF TypeOK
    <2>2. Ids'
      BY <1>12, <1>a, NamespaceAssumption
      DEF MarkRemoved, Begin, Goto, Return, dir, bounds, TypeOK, Ids, Inode, Request
    <2>3. KnownSets'
      BY <1>12, <1>a, NamespaceAssumption
      DEF MarkRemoved, Begin, Goto, Return, dir, bounds, TypeOK, KnownSets, Keys, Creators, Removers, Creator, Remover, Readers, Inode, Ids, Request
    <2>4. Keys'
      BY <1>12, <1>a, NamespaceAssumption
      DEF MarkRemoved, Begin, Goto, Return, dir, bounds, TypeOK, Keys, Creators, Removers, Creator, Remover, Inode, KnownSets, Ids, Request
    <2>5. Creators'
      BY <1>12, <1>a, NamespaceAssumption
      DEF MarkRemoved, Begin, Goto, Return, dir, bounds, TypeOK, Creators, Creator, Removers, Remover, Ids, Inode, KnownSets, Request
    <2>6. Removers'
      BY <1>12, <1>a, NamespaceAssumption
      DEF MarkRemoved, Begin, Goto, Return, dir, bounds, TypeOK, Removers, Remover, Creators, Creator, KnownSets, Ids, Keys, Inode, Request
    <2>7. Readers'
      BY <1>12, <1>a, NamespaceAssumption
      DEF MarkRemoved, Begin, Goto, Return, dir, bounds, TypeOK, Readers, Keys, Inode, Request
    <2> QED
      BY <2>1, <2>2, <2>3, <2>4, <2>5, <2>6, <2>7
  <1>13. ASSUME NEW p \in Process, UnlinkId(p) PROVE Inv'
    <2>1. TypeOK'
      BY <1>13, <1>a, NamespaceAssumption
      DEF UnlinkId, Begin, Goto, Return, dir, bounds, TypeOK, Place, Inode, Request
    <2>2. Ids'
      BY <1>13, <1>a
      DEF UnlinkId, Begin, Goto, Return, dir, bounds, TypeOK, Ids, Inode
    <2>3. KnownSets'
      BY <1>13, <1>a
      DEF UnlinkId, Begin, Goto, Return, dir, bounds, TypeOK, KnownSets, Keys, Creators, Removers, Creator, Remover, Readers, Inode, Ids
    <2>4. Keys'
      BY <1>13, <1>a
      DEF UnlinkId, Begin, Goto, Return, dir, bounds, TypeOK, Keys, Creators, Removers, Creator, Remover, Inode, KnownSets, Ids
    <2>5. Creators'
      BY <1>13, <1>a
      DEF UnlinkId, Begin, Goto, Return, dir, bounds, TypeOK, Creators, Creator, Removers, Remover, Ids, Inode, KnownSets
    <2>6. Removers'
      BY <1>13, <1>a
      DEF UnlinkId, Begin, Goto, Return, dir, bounds, TypeOK, Removers, Remover, Creators, Creator, KnownSets, Ids, Keys, Inode
    <2>7. Readers'
      BY <1>13, <1>a
      DEF UnlinkId, Begin, Goto, Return, dir, bounds, TypeOK, Readers, Keys, Inode
    <2> QED
      BY <2>1, <2>2, <2>3, <2>4, <2>5, <2>6, <2>7
  <1>14. ASSUME NEW p \in Process, UnlinkKey(p) PROVE Inv'
    <2>1. TypeOK'
      BY <1>14, <1>a, NamespaceAssumption
      DEF UnlinkKey, Begin, Goto, Return, dir, bounds, TypeOK, Place, Inode, Request
    <2>2. Ids'
      BY <1>14, <1>a
      DEF UnlinkKey, Begin, Goto, Return, dir, bounds, TypeOK, Ids, Inode
    <2>3. KnownSets'
      BY <1>14, <1>a
      DEF UnlinkKey, Begin, Goto, Return, dir, bounds, TypeOK, KnownSets, Keys, Creators, Removers, Creator, Remover, Readers, Inode, Ids
    <2>4. Keys'
      BY <1>14, <1>a
      DEF UnlinkKey, Begin, Goto, Return, dir, bounds, TypeOK, Keys, Creators, Removers, Creator, Remover, Inode, KnownSets, Ids
    <2>5. Creators'
      BY <1>14, <1>a
      DEF UnlinkKey, Begin, Goto, Return, dir, bounds, TypeOK, Creators, Creator, Removers, Remover, Ids, Inode, KnownSets
    <2>6. Removers'
      BY <1>14, <1>a
      DEF UnlinkKey, Begin, Goto, Return, dir, bounds, TypeOK, Removers, Remover, Creators, Creator, KnownSets, Ids, Keys, Inode
    <2>7. Readers'
      BY <1>14, <1>a
      DEF UnlinkKey, Begin, Goto, Return, dir, bounds, TypeOK, Readers, Keys, Inode
    <2> QED
      BY <2>1, <2>2, <2>3, <2>4, <2>5, <2>6, <2>7
  <1>15. ASSUME NEW p \in Process, Crash(p) PROVE Inv'
    <2>1. TypeOK'
      BY <1>15, <1>a, NamespaceAssumption
      DEF Crash, Begin, Goto, Return, dir, bounds, TypeOK, Place, Inode, Request
    <2>2. Ids'
      BY <1>15, <1>a
      DEF Crash, Begin, Goto, Return, dir, bounds, TypeOK, Ids, Inode
    <2>3. KnownSets'
      BY <1>15, <1>a
      DEF Crash, Begin, Goto, Return, dir, bounds, TypeOK, KnownSets, Keys, Creators, Removers, Creator, Remover, Readers, Inode, Ids
    <2>4. Keys'
      BY <1>15, <1>a
      DEF Crash, Begin, Goto, Return, dir, bounds, TypeOK, Keys, Creators, Removers, Creator, Remover, Inode, KnownSets, Ids
    <2>5. Creators'
      BY <1>15, <1>a
      DEF Crash, Begin, Goto, Return, dir, bounds, TypeOK, Creators, Creator, Removers, Remover, Ids, Inode, KnownSets
    <2>6. Removers'
      BY <1>15, <1>a
      DEF Crash, Begin, Goto, Return, dir, bounds, TypeOK, Removers, Remover, Creators, Creator, KnownSets, Ids, Keys, Inode
    <2>7. Readers'
      BY <1>15, <1>a
      DEF Crash, Begin, Goto, Return, dir, bounds, TypeOK, Readers, Keys, Inode
    <2> QED
      BY <2>1, <2>2, <2>3, <2>4, <2>5, <2>6, <2>7
  <1> QED
    BY <1>0, <1>1, <1>2, <1>3, <1>4, <1>5, <1>6, <1>7, <1>8, <1>9, <1>10, <1>11, <1>12, <1>13, <1>14, <1>15
    DEF Next, Step

LEMMA Invariance == MaxRmid \in {0, 1} => (Spec => []Inv)
  <1> SUFFICES ASSUME MaxRmid \in {0, 1} PROVE Spec => []Inv
    OBVIOUS
  <1>1. Inv /\ [Next]_vars => Inv'
    BY InvStep
  <1> QED
    BY <1>1, InvInit, PTL DEF Spec

\* A key that can be opened names a set that is complete and has that key:
\* create_state links the file after the magic, and neither a lost race for
\* the key, nor the death of a creator, nor one removal leaves another name.
THEOREM KeysNameCompleteSets == MaxRmid \in {0, 1} => (Spec => []KeyNamesCompleteSet)
  <1> SUFFICES ASSUME MaxRmid \in {0, 1} PROVE Spec => []KeyNamesCompleteSet
    OBVIOUS
  <1>1. Inv => KeyNamesCompleteSet
    BY DEF Inv, TypeOK, Keys, KnownSets, KeyNamesCompleteSet
  <1> QED
    BY <1>1, Invariance, PTL

\* The id that semget reads in the file of a key opens the same file, until
\* semctl(IPC_RMID) has marked the set.
THEOREM IdsAndKeysAgree == MaxRmid \in {0, 1} => (Spec => []IdAndKeyAgree)
  <1> SUFFICES ASSUME MaxRmid \in {0, 1} PROVE Spec => []IdAndKeyAgree
    OBVIOUS
  <1>1. Inv => IdAndKeyAgree
    BY DEF Inv, Keys, KnownSets, IdAndKeyAgree
  <1> QED
    BY <1>1, Invariance, PTL

\* Processes that agree on a key share one set: semget never returns two
\* usable sets for it, whichever of the creators wins the link.
THEOREM KeysAreUnambiguous == MaxRmid \in {0, 1} => (Spec => []OneSetPerKey)
  <1> SUFFICES ASSUME MaxRmid \in {0, 1} PROVE Spec => []OneSetPerKey
    OBVIOUS
  <1>1. Inv => OneSetPerKey
    BY DEF Inv, KnownSets, OneSetPerKey, Live
  <1> QED
    BY <1>1, Invariance, PTL

=============================================================================
