-------------------------- MODULE SpiffsVfsProofs ---------------------------
(***************************************************************************)
(* Proofs about SpiffsVfs: until an unlink closes a number that another    *)
(* call is using, descriptors keep their files, no SPIFFS file is lost,    *)
(* and unlink deletes what it looked up.                                   *)
(***************************************************************************)
EXTENDS SpiffsVfs, TLAPS

(* The calls that work on a descriptor, before it is given and after it is *)
(* taken back.                                                             *)
Opening == {"openStat", "openIsDir", "openFile", "openResult"}
FdPc == Opening \cup {"openMeta", "closeResult", "closeRemove"}
UnlinkPc == {"unlinkRemove", "unlinkClose"}

ArgsSet ==
    \A t \in Tasks :
        /\ pc[t] \in FdPc => arg[t].fd \in Fds
        /\ pc[t] \in Opening \cup {"unlinkOpen"} => arg[t].name \in Names
        /\ pc[t] \in UnlinkPc => arg[t].file \in Slots /\ arg[t].obj \in Objs

(* A descriptor is in the list and has one task and one use. *)
Holds(t, fd) == \E h \in held[t] : h.fd = fd
WorksOn(t, fd) == pc[t] \in FdPc /\ arg[t].fd = fd
OneUse ==
    \A fd \in Fds :
        /\ \A t \in Tasks : Holds(t, fd) \/ WorksOn(t, fd) => table[fd] # None
        /\ \A t, u \in Tasks : /\ Holds(t, fd) /\ Holds(u, fd) => t = u
                               /\ WorksOn(t, fd) /\ WorksOn(u, fd) => t = u
                               /\ ~(Holds(t, fd) /\ WorksOn(u, fd))
        /\ \A t \in Tasks : \A h, k \in held[t] : h.fd = fd /\ k.fd = fd => h = k

(* What an entry says of the file opened under its descriptor. *)
Stands(fd, o) == IF o = None THEN table[fd] = NoFile
                 ELSE table[fd] \in Slots /\ slot[table[fd]].obj = o
EntriesRight ==
    \A t \in Tasks :
        /\ \A h \in held[t] : Stands(h.fd, h.obj)
        /\ pc[t] = "openMeta" => Stands(arg[t].fd, arg[t].obj)
        /\ pc[t] \in Opening \cup {"closeResult"} =>
              table[arg[t].fd] = NoFile /\ arg[t].obj = None

(* A slot is open exactly as long as one entry or one unlink names it. *)
Live(fd) == table[fd] \in Slots /\ ~BeingRemoved(fd)
Removing(t, s) == pc[t] = "unlinkRemove" /\ arg[t].file = s
SlotsUsed ==
    /\ \A fd \in Fds : Live(fd) => slot[table[fd]].obj # None
    /\ \A fd, gd \in Fds : Live(fd) /\ Live(gd) /\ table[fd] = table[gd] => fd = gd
    /\ \A fd \in Fds, t \in Tasks : Live(fd) => ~Removing(t, table[fd])
    /\ \A s \in Slots : slot[s].obj # None =>
           \/ \E fd \in Fds : Live(fd) /\ table[fd] = s
           \/ \E t \in Tasks : Removing(t, s)

(* An unlink that has yet to remove its file has a slot of its own on it.  *)
OneUnlink ==
    /\ \A t, u \in Tasks, s \in Slots : Removing(t, s) /\ Removing(u, s) => t = u
    /\ \A t \in Tasks :
          pc[t] = "unlinkRemove" =>
                slot[arg[t].file].obj = arg[t].obj /\ slot[arg[t].file].write

Types == TypeOK /\ ArgsSet
IInv == Types /\ OneUse /\ EntriesRight /\ SlotsUsed /\ OneUnlink

-----------------------------------------------------------------------------
(* Lemmas *)

(* What a task holds, or is about to be given, is the file of a live entry. *)
LEMMA HeldLive ==
  ASSUME IInv, NEW t \in Tasks, NEW h \in held[t], h.obj # None
  PROVE  h.fd \in Fds /\ Live(h.fd) /\ slot[table[h.fd]].obj = h.obj
<1>1. h \in [fd : Fds, obj : Objs \cup {None}]
  BY DEF IInv, Types, TypeOK
<1>2. Holds(t, h.fd)
  BY DEF Holds
<1>3. \A u \in Tasks : ~WorksOn(u, h.fd)
  BY <1>1, <1>2 DEF IInv, Types, OneUse
<1> QED
  BY <1>1, <1>3 DEF IInv, Types, EntriesRight, Stands, Live, BeingRemoved, WorksOn, FdPc

(* So is what the last step of vfs_spiffs_open works on. *)
LEMMA MetaLive ==
  ASSUME IInv, NEW t \in Tasks, pc[t] = "openMeta", arg[t].obj # None
  PROVE  /\ arg[t].fd \in Fds /\ Live(arg[t].fd)
         /\ slot[table[arg[t].fd]].obj = arg[t].obj
<1>1. arg[t].fd \in Fds /\ WorksOn(t, arg[t].fd)
  BY DEF IInv, Types, ArgsSet, WorksOn, FdPc
<1>2. \A u \in Tasks : WorksOn(u, arg[t].fd) => u = t
  BY <1>1 DEF IInv, Types, OneUse
<1> QED
  BY <1>1, <1>2 DEF IInv, Types, EntriesRight, Stands, Live, BeingRemoved, WorksOn, FdPc

(* Slots stay as used when the live entries, the removing unlinks and what *)
(* is open do not change.                                                  *)
LEMMA SlotsFrame ==
  ASSUME SlotsUsed,
         \A s \in Slots : slot'[s].obj = slot[s].obj,
         \A fd \in Fds : Live(fd)' <=> Live(fd),
         \A fd \in Fds : Live(fd) => table'[fd] = table[fd],
         \A t \in Tasks, s \in Slots : Removing(t, s)' <=> Removing(t, s)
  PROVE  SlotsUsed'
<1>1. \A fd \in Fds : Live(fd) => table[fd] \in Slots
  BY DEF Live
<1> QED
  BY <1>1 DEF SlotsUsed

(* The same, for a step of task t that is no closing or removing. *)
LEMMA SlotsQuiet ==
  ASSUME SlotsUsed, NEW t \in Tasks,
         \A u \in Tasks : u # t => pc'[u] = pc[u] /\ arg'[u] = arg[u],
         pc[t] \notin {"closeRemove", "unlinkRemove"},
         pc'[t] \notin {"closeRemove", "unlinkRemove"},
         \A s \in Slots : slot'[s].obj = slot[s].obj,
         \A fd \in Fds : table[fd] \in Slots \/ table'[fd] \in Slots => table'[fd] = table[fd]
  PROVE  SlotsUsed'
<1>1. \A fd \in Fds : BeingRemoved(fd)' <=> BeingRemoved(fd)
  BY DEF BeingRemoved
<1>2. \A u \in Tasks, s \in Slots : Removing(u, s)' <=> Removing(u, s)
  BY DEF Removing
<1>3. \A fd \in Fds : Live(fd)' <=> Live(fd)
  BY <1>1 DEF Live
<1>4. \A fd \in Fds : Live(fd) => table'[fd] = table[fd]
  BY DEF Live
<1> QED
  BY <1>2, <1>3, <1>4, SlotsFrame

(* Unlinks under way keep their slots when another call leaves these alone. *)
LEMMA UnlinksFrame ==
  ASSUME OneUnlink, NEW t \in Tasks,
         \A u \in Tasks : u # t => pc'[u] = pc[u] /\ arg'[u] = arg[u],
         pc'[t] # "unlinkRemove",
         \/ UNCHANGED slot
         \/ \A u \in Tasks : pc[u] = "unlinkRemove" => slot'[arg[u].file] = slot[arg[u].file]
  PROVE  OneUnlink'
<1>1. \A u \in Tasks, s \in Slots : Removing(u, s)' => Removing(u, s)
  BY DEF Removing
<1>2. \A u \in Tasks : pc'[u] = "unlinkRemove" =>
          /\ pc[u] = "unlinkRemove" /\ arg'[u] = arg[u]
          /\ slot'[arg[u].file] = slot[arg[u].file]
  OBVIOUS
<1> QED
  BY <1>1, <1>2 DEF OneUnlink

(* SPIFFS_open gives task t a slot that no descriptor and no unlink names. *)
LEMMA OpenedEntry ==
  ASSUME IInv, NEW t \in Tasks, pc[t] = "openFile",
         NEW s \in Slots, slot[s].obj = None, NEW ob \in Objs, NEW write \in BOOLEAN,
         slot' = [slot EXCEPT ![s] = [obj |-> ob, write |-> write]],
         table' = [table EXCEPT ![arg[t].fd] = s],
         arg' = [arg EXCEPT ![t].obj = ob],
         pc' = [pc EXCEPT ![t] = "openMeta"], held' = held
  PROVE  /\ slot' \in [Slots -> [obj : Objs \cup {None}, write : BOOLEAN]]
         /\ table' \in [Fds -> Slots \cup {NoFile, None}]
         /\ EntriesRight' /\ SlotsUsed'
<1> DEFINE fd == arg[t].fd
<1>1. fd \in Fds /\ ob # None /\ WorksOn(t, fd) /\ ~Live(fd) /\ table[fd] = NoFile
  BY NoneAssumption, NoFileAssumption
  DEF IInv, Types, ArgsSet, WorksOn, FdPc, Opening, EntriesRight, Live
<1>2. /\ slot' \in [Slots -> [obj : Objs \cup {None}, write : BOOLEAN]]
      /\ table' \in [Fds -> Slots \cup {NoFile, None}]
  BY <1>1 DEF IInv, Types, TypeOK
<1>3. /\ slot'[s].obj = ob /\ \A r \in Slots \ {s} : slot'[r] = slot[r]
      /\ table'[fd] = s /\ \A gd \in Fds \ {fd} : table'[gd] = table[gd]
  BY <1>1 DEF IInv, Types, TypeOK
<1>4. /\ pc'[t] = "openMeta" /\ arg'[t].fd = fd /\ arg'[t].obj = ob
      /\ \A u \in Tasks \ {t} : pc'[u] = pc[u] /\ arg'[u] = arg[u]
  BY DEF IInv, Types, TypeOK
<1>5. \A u \in Tasks : WorksOn(u, fd) => u = t
  BY <1>1 DEF IInv, Types, OneUse
<1>6. \A u \in Tasks : ~Holds(u, fd)
  BY <1>1 DEF IInv, Types, OneUse
<1>7. \A gd \in Fds : Live(gd) => table[gd] \in Slots \ {s}
  BY DEF IInv, Types, SlotsUsed, Live
<1>8. EntriesRight'
  <2>1. ASSUME NEW u \in Tasks, NEW h \in held[u]
        PROVE  Stands(h.fd, h.obj)'
    <3>1. h.fd \in Fds \ {fd}
      BY <1>6 DEF Holds, IInv, Types, TypeOK
    <3>2. CASE h.obj = None
      BY <3>1 DEF IInv, Types, EntriesRight, Stands
    <3>3. CASE h.obj # None
      <4>1. Live(h.fd) /\ slot[table[h.fd]].obj = h.obj
        BY <3>3, HeldLive
      <4> QED
        BY <1>7, <3>1, <3>3, <4>1 DEF Stands
    <3> QED
      BY <3>2, <3>3
  <2>2. ASSUME NEW u \in Tasks, pc'[u] = "openMeta"
        PROVE  Stands(arg[u].fd, arg[u].obj)'
    <3>1. CASE u = t
      BY <1>1, <1>3, <1>4, <3>1 DEF Stands
    <3>2. CASE u # t
      <4>1. pc[u] = "openMeta" /\ arg'[u] = arg[u]
        BY <1>4, <2>2, <3>2
      <4>2. arg[u].fd \in Fds \ {fd}
        BY <1>5, <4>1 DEF WorksOn, FdPc, IInv, Types, ArgsSet
      <4>3. CASE arg[u].obj = None
        BY <4>1, <4>2 DEF IInv, Types, EntriesRight, Stands
      <4>4. CASE arg[u].obj # None
        <5>1. Live(arg[u].fd) /\ slot[table[arg[u].fd]].obj = arg[u].obj
          BY <4>1, <4>4, MetaLive
        <5> QED
          BY <1>7, <4>2, <4>4, <5>1 DEF Stands
      <4> QED
        BY <4>3, <4>4
    <3> QED
      BY <3>1, <3>2
  <2>3. ASSUME NEW u \in Tasks, pc'[u] \in Opening \cup {"closeResult"}
        PROVE  table'[arg'[u].fd] = NoFile /\ arg'[u].obj = None
    <3>1. u # t /\ pc[u] = pc'[u] /\ arg'[u] = arg[u]
      BY <1>4, <2>3 DEF Opening
    <3>2. arg[u].fd \in Fds \ {fd}
      BY <1>5, <2>3, <3>1 DEF WorksOn, FdPc, IInv, Types, ArgsSet
    <3> QED
      BY <2>3, <3>2 DEF IInv, Types, EntriesRight
  <2> QED
    BY <2>1, <2>2, <2>3 DEF EntriesRight
<1>9. SlotsUsed'
  <2>1. \A gd \in Fds : BeingRemoved(gd)' <=> BeingRemoved(gd)
    BY <1>4 DEF BeingRemoved
  <2>2. Live(fd)' /\ \A gd \in Fds \ {fd} : Live(gd)' <=> Live(gd)
    BY <1>3, <1>5 DEF Live, BeingRemoved, WorksOn, FdPc
  <2>3. \A u \in Tasks, r \in Slots : Removing(u, r)' <=> Removing(u, r)
    BY <1>4 DEF Removing
  <2>4. \A u \in Tasks : ~Removing(u, s)
    BY NoneAssumption DEF Removing, IInv, Types, OneUnlink, ArgsSet, UnlinkPc
  <2>5. \A gd \in Fds : Live(gd)' => slot'[table'[gd]].obj # None
    BY <1>1, <1>3, <2>2 DEF IInv, Types, SlotsUsed
  <2>6. \A gd, ed \in Fds : Live(gd)' /\ Live(ed)' /\ table'[gd] = table'[ed] => gd = ed
    BY <1>3, <2>2 DEF IInv, Types, SlotsUsed
  <2>7. \A gd \in Fds, u \in Tasks : Live(gd)' => ~Removing(u, table[gd])'
    <3>1. ASSUME NEW gd \in Fds, NEW u \in Tasks, Live(gd)', Removing(u, table[gd])'
          PROVE  FALSE
      <4>1. table'[gd] \in Slots /\ Removing(u, table'[gd])
        BY <1>4, <3>1 DEF Live, Removing
      <4>2. gd # fd
        BY <1>3, <2>4, <4>1
      <4> QED
        BY <2>2, <3>1, <4>1, <4>2 DEF IInv, Types, SlotsUsed
    <3> QED
      BY <3>1
  <2>8. ASSUME NEW r \in Slots, slot'[r].obj # None
        PROVE  \/ \E gd \in Fds : Live(gd)' /\ table'[gd] = r
               \/ \E u \in Tasks : Removing(u, r)'
    <3>1. CASE r = s
      BY <1>1, <1>3, <2>2, <3>1
    <3>2. CASE r # s
      <4>1. slot[r].obj # None
        BY <1>3, <2>8, <3>2
      <4>2. CASE \E gd \in Fds : Live(gd) /\ table[gd] = r
        BY <1>1, <1>3, <2>2, <4>2
      <4>3. CASE \E u \in Tasks : Removing(u, r)
        BY <2>3, <4>3
      <4> QED
        BY <4>1, <4>2, <4>3 DEF IInv, Types, SlotsUsed
    <3> QED
      BY <3>1, <3>2
  <2> QED
    BY <2>5, <2>6, <2>7, <2>8 DEF SlotsUsed
<1> QED
  BY <1>2, <1>8, <1>9

-----------------------------------------------------------------------------
(* Every step keeps the types, whatever an unlink has struck.              *)

LEMMA OpenAddTypes ==
  ASSUME Types, NEW t \in Tasks, OpenAdd(t)
  PROVE  Types'
<1> USE DEF vars, volume, At, Goto, Return
<1>1. TypeOK'
  BY DEF OpenAdd, Types, TypeOK, Pc, Args
<1>2. ArgsSet'
  BY DEF OpenAdd, Types, TypeOK, ArgsSet, UnlinkPc, Args
<1> QED
  BY <1>1, <1>2 DEF Types

LEMMA OpenStatTypes ==
  ASSUME Types, NEW t \in Tasks, OpenStat(t)
  PROVE  Types'
<1> USE DEF vars, volume, At, Goto, Return
<1>1. TypeOK'
  BY DEF OpenStat, Types, TypeOK, Pc, Code
<1>2. ArgsSet'
  BY DEF OpenStat, Types, ArgsSet, FdPc, Opening, UnlinkPc
<1> QED
  BY <1>1, <1>2 DEF Types

LEMMA OpenIsDirTypes ==
  ASSUME Types, NEW t \in Tasks, OpenIsDir(t)
  PROVE  Types'
<1> USE DEF vars, volume, At, Goto, Return
<1>1. TypeOK'
  BY DEF OpenIsDir, Types, TypeOK, Pc, Code
<1>2. ArgsSet'
  BY DEF OpenIsDir, Types, ArgsSet, FdPc, Opening, UnlinkPc
<1> QED
  BY <1>1, <1>2 DEF Types

LEMMA OpenExistingTypes ==
  ASSUME Types, NEW t \in Tasks, OpenExisting(t)
  PROVE  Types'
<1> USE DEF vars, volume, At, Goto, Return, Free
<1> DEFINE o == dir[arg[t].name]
<1>a. /\ arg[t].fd \in Fds /\ arg[t].name \in Names /\ arg[t].write \in BOOLEAN
      /\ pc[t] = "openFile" /\ pc' = [pc EXCEPT ![t] = "openMeta"] /\ held' = held
  BY DEF OpenExisting, Types, TypeOK, ArgsSet, FdPc, Opening
<1>b. o \in Objs
  BY <1>a DEF OpenExisting, Types, TypeOK
<1>c. PICK s \in Free : /\ slot' = [slot EXCEPT ![s] = [obj |-> o, write |-> arg[t].write]]
                        /\ table' = [table EXCEPT ![arg[t].fd] = s]
                        /\ arg' = [arg EXCEPT ![t].obj = o]
  BY DEF OpenExisting
<1>d. s \in Slots /\ slot[s].obj = None
  BY DEF Free
<1>e. /\ slot' \in [Slots -> [obj : Objs \cup {None}, write : BOOLEAN]]
      /\ table' \in [Fds -> Slots \cup {NoFile, None}]
      /\ struck' \in BOOLEAN
  BY <1>a, <1>b, <1>c, <1>d DEF OpenExisting, Types, TypeOK
<1>1. TypeOK'
  <2>1. dir' \in [Names -> Objs \cup {None}] /\ errCode' \in Code
    BY DEF OpenExisting, Types, TypeOK
  <2>2. pc' \in [Tasks -> Pc]
    BY <1>a DEF Types, TypeOK, Pc
  <2>3. arg' \in [Tasks -> [name : Names \cup {None}, write : BOOLEAN, fd : Fds \cup {None},
                           file : Slots \cup {NoFile}, obj : Objs \cup {None}]]
    BY <1>b, <1>c DEF Types, TypeOK
  <2> QED
    BY <1>a, <1>e, <2>1, <2>2, <2>3 DEF Types, TypeOK
<1>2. ArgsSet'
  BY DEF OpenExisting, Types, ArgsSet, FdPc, Opening, UnlinkPc
<1> QED
  BY <1>1, <1>2 DEF Types

LEMMA OpenCreatesTypes ==
  ASSUME Types, NEW t \in Tasks, OpenCreates(t)
  PROVE  Types'
<1> USE DEF vars, volume, At, Goto, Return, Free, Unused
<1>a. /\ arg[t].fd \in Fds /\ arg[t].name \in Names
      /\ pc[t] = "openFile" /\ pc' = [pc EXCEPT ![t] = "openMeta"] /\ held' = held
  BY DEF OpenCreates, Types, ArgsSet, FdPc, Opening
<1>c. PICK s \in Free, o \in Unused :
           /\ dir' = [dir EXCEPT ![arg[t].name] = o]
           /\ slot' = [slot EXCEPT ![s] = [obj |-> o, write |-> TRUE]]
           /\ table' = [table EXCEPT ![arg[t].fd] = s]
           /\ arg' = [arg EXCEPT ![t].obj = o]
  BY DEF OpenCreates
<1>b. o \in Objs
  BY DEF Unused
<1>d. s \in Slots /\ slot[s].obj = None
  BY DEF Free
<1>e. /\ slot' \in [Slots -> [obj : Objs \cup {None}, write : BOOLEAN]]
      /\ table' \in [Fds -> Slots \cup {NoFile, None}]
      /\ struck' \in BOOLEAN
  BY <1>a, <1>b, <1>c, <1>d DEF OpenCreates, Types, TypeOK
<1>1. TypeOK'
  <2>1. dir' \in [Names -> Objs \cup {None}] /\ errCode' \in Code
    BY <1>b, <1>c DEF OpenCreates, Types, TypeOK
  <2>2. pc' \in [Tasks -> Pc]
    BY <1>a DEF Types, TypeOK, Pc
  <2>3. arg' \in [Tasks -> [name : Names \cup {None}, write : BOOLEAN, fd : Fds \cup {None},
                           file : Slots \cup {NoFile}, obj : Objs \cup {None}]]
    BY <1>b, <1>c DEF Types, TypeOK
  <2> QED
    BY <1>a, <1>e, <2>1, <2>2, <2>3 DEF Types, TypeOK
<1>2. ArgsSet'
  BY DEF OpenCreates, Types, ArgsSet, FdPc, Opening, UnlinkPc
<1> QED
  BY <1>1, <1>2 DEF Types

LEMMA OpenFailsTypes ==
  ASSUME Types, NEW t \in Tasks, OpenFails(t)
  PROVE  Types'
<1> USE DEF vars, volume, At, Goto, Return
<1>1. TypeOK'
  BY DEF OpenFails, Types, TypeOK, Pc, Code
<1>2. ArgsSet'
  BY DEF OpenFails, Types, ArgsSet, FdPc, Opening, UnlinkPc
<1> QED
  BY <1>1, <1>2 DEF Types

LEMMA OpenResultTypes ==
  ASSUME Types, NEW t \in Tasks, OpenResult(t)
  PROVE  Types'
<1> USE DEF vars, volume, At, Goto, Return
<1>a. arg[t].fd \in Fds
  BY DEF OpenResult, Types, ArgsSet, FdPc, Opening
<1>b. \/ /\ pc' = [pc EXCEPT ![t] = "openMeta"] /\ UNCHANGED <<table, arg>>
      \/ /\ pc' = [pc EXCEPT ![t] = "idle"] /\ arg' = [arg EXCEPT ![t] = NoArg]
         /\ table' = [table EXCEPT ![arg[t].fd] = None]
  BY DEF OpenResult
<1>c. UNCHANGED <<dir, slot, errCode, held, struck>>
  BY DEF OpenResult
<1>1. TypeOK'
  <2>1. pc' \in [Tasks -> Pc]
    BY <1>b DEF Types, TypeOK, Pc
  <2>2. table' \in [Fds -> Slots \cup {NoFile, None}]
    BY <1>a, <1>b DEF Types, TypeOK
  <2>3. NoArg \in [name : Names \cup {None}, write : BOOLEAN, fd : Fds \cup {None},
                           file : Slots \cup {NoFile}, obj : Objs \cup {None}]
    BY NoFileAssumption DEF NoArg, Args
  <2>4. arg' \in [Tasks -> [name : Names \cup {None}, write : BOOLEAN, fd : Fds \cup {None},
                           file : Slots \cup {NoFile}, obj : Objs \cup {None}]]
    BY <1>b, <2>3 DEF Types, TypeOK
  <2> QED
    BY <1>c, <2>1, <2>2, <2>4 DEF Types, TypeOK
<1>2. ArgsSet'
  BY DEF OpenResult, Types, TypeOK, ArgsSet, FdPc, Opening, UnlinkPc
<1> QED
  BY <1>1, <1>2 DEF Types

LEMMA OpenMetaTypes ==
  ASSUME Types, NEW t \in Tasks, OpenMeta(t)
  PROVE  Types'
<1> USE DEF vars, volume, At, Goto, Return, IsOpen
<1>1. TypeOK'
  BY DEF OpenMeta, Types, TypeOK, ArgsSet, FdPc, Pc, Code, NoArg, Args
<1>2. ArgsSet'
  BY DEF OpenMeta, Types, TypeOK, ArgsSet, FdPc, Opening, UnlinkPc
<1> QED
  BY <1>1, <1>2 DEF Types

LEMMA UseTypes ==
  ASSUME Types, NEW t \in Tasks, Use(t)
  PROVE  Types'
<1> USE DEF vars, volume, At, Goto, Return, Code, IsOpen
<1>1. TypeOK'
  BY DEF Use, Types, TypeOK
<1>2. ArgsSet'
  BY DEF Use, Types, ArgsSet
<1> QED
  BY <1>1, <1>2 DEF Types

LEMMA CloseFileTypes ==
  ASSUME Types, NEW t \in Tasks, CloseFile(t)
  PROVE  Types'
<1> USE DEF vars, volume, At, Goto, Return, Closing, IsOpen
<1>1. TypeOK'
  BY DEF CloseFile, Types, TypeOK, Pc, Closed, Args
<1>2. ArgsSet'
  BY DEF CloseFile, Types, TypeOK, ArgsSet, Opening, UnlinkPc, Args
<1> QED
  BY <1>1, <1>2 DEF Types

LEMMA CloseFailsTypes ==
  ASSUME Types, NEW t \in Tasks, CloseFails(t)
  PROVE  Types'
<1> USE DEF vars, volume, At, Goto, Return, Closing, IsOpen
<1>1. TypeOK'
  BY DEF CloseFails, Types, TypeOK, Pc, Code, Args
<1>2. ArgsSet'
  BY DEF CloseFails, Types, TypeOK, ArgsSet, Opening, UnlinkPc, Args
<1> QED
  BY <1>1, <1>2 DEF Types

LEMMA CloseResultTypes ==
  ASSUME Types, NEW t \in Tasks, CloseResult(t)
  PROVE  Types'
<1> USE DEF vars, volume, At, Goto, Return
<1>b. \/ pc' = [pc EXCEPT ![t] = "idle"] /\ arg' = [arg EXCEPT ![t] = NoArg]
      \/ pc' = [pc EXCEPT ![t] = "closeRemove"] /\ arg' = arg
  BY DEF CloseResult
<1>c. UNCHANGED <<dir, slot, errCode, table, held, struck>>
  BY DEF CloseResult
<1>1. TypeOK'
  <2>1. pc' \in [Tasks -> Pc]
    BY <1>b DEF Types, TypeOK, Pc
  <2>2. NoArg \in [name : Names \cup {None}, write : BOOLEAN, fd : Fds \cup {None},
                           file : Slots \cup {NoFile}, obj : Objs \cup {None}]
    BY NoFileAssumption DEF NoArg, Args
  <2>3. arg' \in [Tasks -> [name : Names \cup {None}, write : BOOLEAN, fd : Fds \cup {None},
                           file : Slots \cup {NoFile}, obj : Objs \cup {None}]]
    BY <1>b, <2>2 DEF Types, TypeOK
  <2> QED
    BY <1>c, <2>1, <2>3 DEF Types, TypeOK
<1>2. ArgsSet'
  BY DEF CloseResult, Types, TypeOK, ArgsSet, FdPc, Opening, UnlinkPc
<1> QED
  BY <1>1, <1>2 DEF Types

LEMMA CloseRemoveTypes ==
  ASSUME Types, NEW t \in Tasks, CloseRemove(t)
  PROVE  Types'
<1> USE DEF vars, volume, At, Goto, Return
<1> DEFINE fd == arg[t].fd
<1>1. TypeOK'
  BY DEF CloseRemove, Types, TypeOK, ArgsSet, FdPc, Pc, NoArg, Args
<1>2. ArgsSet'
  BY DEF CloseRemove, Types, TypeOK, ArgsSet, FdPc, Opening, UnlinkPc
<1> QED
  BY <1>1, <1>2 DEF Types

LEMMA UnlinkIsDirTypes ==
  ASSUME Types, NEW t \in Tasks, UnlinkIsDir(t)
  PROVE  Types'
<1> USE DEF vars, volume, At, Goto, Return
<1>1. TypeOK'
  BY DEF UnlinkIsDir, Types, TypeOK, Pc, Code, Args
<1>2. ArgsSet'
  BY DEF UnlinkIsDir, Types, TypeOK, ArgsSet, FdPc, Opening, UnlinkPc, Args
<1> QED
  BY <1>1, <1>2 DEF Types

LEMMA UnlinkOpenTypes ==
  ASSUME Types, NEW t \in Tasks, UnlinkOpen(t)
  PROVE  Types'
<1> USE DEF vars, volume, At, Goto, Return, Free
<1> DEFINE o == dir[arg[t].name]
<1>a. /\ pc[t] = "unlinkOpen" /\ arg[t].name \in Names /\ o \in Objs
      /\ UNCHANGED <<dir, errCode, table, held, struck>> /\ pc' = [pc EXCEPT ![t] = "unlinkRemove"]
  BY DEF UnlinkOpen, Types, TypeOK, ArgsSet
<1>b. PICK s \in Free : /\ slot' = [slot EXCEPT ![s] = [obj |-> o, write |-> TRUE]]
                        /\ arg' = [arg EXCEPT ![t].file = s, ![t].obj = o]
  BY DEF UnlinkOpen
<1>c. s \in Slots /\ slot[s].obj = None /\ o # None
  BY <1>a, NoneAssumption DEF Free
<1>1. TypeOK'
  <2>1. pc' \in [Tasks -> Pc]
    BY <1>a DEF Types, TypeOK, Pc
  <2>2. slot' \in [Slots -> [obj : Objs \cup {None}, write : BOOLEAN]]
    BY <1>b DEF Types, TypeOK
  <2> DEFINE A == [name : Names \cup {None}, write : BOOLEAN, fd : Fds \cup {None},
                           file : Slots \cup {NoFile}, obj : Objs \cup {None}]
  <2>3. arg[t] \in A
    BY DEF Types, TypeOK
  <2>4. [arg[t] EXCEPT !.file = s, !.obj = o] \in A
    BY <1>a, <1>c, <2>3
  <2>5. arg' = [arg EXCEPT ![t] = [arg[t] EXCEPT !.file = s, !.obj = o]]
    BY <1>b DEF Types, TypeOK
  <2>6. arg' \in [Tasks -> A]
    BY <2>4, <2>5 DEF Types, TypeOK
  <2> QED
    BY <1>a, <2>1, <2>2, <2>6 DEF Types, TypeOK
<1>2. ArgsSet'
  BY DEF UnlinkOpen, Types, TypeOK, ArgsSet, FdPc, Opening
<1> QED
  BY <1>1, <1>2 DEF Types

LEMMA UnlinkFailsTypes ==
  ASSUME Types, NEW t \in Tasks, UnlinkFails(t)
  PROVE  Types'
<1> USE DEF vars, volume, At, Goto, Return
<1>1. TypeOK'
  BY DEF UnlinkFails, Types, TypeOK, Pc, Code, NoArg, Args
<1>2. ArgsSet'
  BY DEF UnlinkFails, Types, TypeOK, ArgsSet, FdPc, Opening, UnlinkPc
<1> QED
  BY <1>1, <1>2 DEF Types

LEMMA UnlinkRemoveTypes ==
  ASSUME Types, NEW t \in Tasks, UnlinkRemove(t)
  PROVE  Types'
<1> USE DEF vars, volume, At, Goto, Return
<1>a. /\ UNCHANGED <<table, held, arg>> /\ pc' = [pc EXCEPT ![t] = "unlinkClose"]
      /\ pc[t] = "unlinkRemove"
  BY DEF UnlinkRemove
<1>1. TypeOK'
  <2>1. pc' \in [Tasks -> Pc]
    BY <1>a DEF Types, TypeOK, Pc
  <2>2. dir' \in [Names -> Objs \cup {None}] /\ errCode' \in Code
    BY DEF UnlinkRemove, Types, TypeOK, Code
  <2>3. slot' \in [Slots -> [obj : Objs \cup {None}, write : BOOLEAN]]
    <3>1. Closed \in [obj : Objs \cup {None}, write : BOOLEAN]
      BY DEF Closed
    <3> QED
      BY <3>1 DEF UnlinkRemove, Types, TypeOK
  <2>4. struck' \in BOOLEAN
    BY DEF UnlinkRemove, Types, TypeOK
  <2> QED
    BY <1>a, <2>1, <2>2, <2>3, <2>4 DEF Types, TypeOK
<1>2. ArgsSet'
  BY <1>a DEF Types, TypeOK, ArgsSet, FdPc, Opening, UnlinkPc
<1> QED
  BY <1>1, <1>2 DEF Types

LEMMA UnlinkCloseTypes ==
  ASSUME Types, NEW t \in Tasks, UnlinkClose(t)
  PROVE  Types'
<1> USE DEF vars, volume, At, Goto, Return, IsOpen
<1>1. TypeOK'
  BY DEF UnlinkClose, Types, TypeOK, ArgsSet, FdPc, Opening, Pc, Code, Closed, NoArg, Args
<1>2. ArgsSet'
  BY DEF UnlinkClose, Types, TypeOK, ArgsSet, FdPc, Opening, UnlinkPc
<1> QED
  BY <1>1, <1>2 DEF Types

LEMMA RenameTypes ==
  ASSUME Types, NEW t \in Tasks, Rename(t)
  PROVE  Types'
<1> USE DEF vars, volume, At, Goto, Return
<1>1. TypeOK'
  BY DEF Rename, Types, TypeOK, Pc
<1>2. ArgsSet'
  BY DEF Rename, Types, ArgsSet
<1> QED
  BY <1>1, <1>2 DEF Types

LEMMA RenameFailsTypes ==
  ASSUME Types, NEW t \in Tasks, RenameFails(t)
  PROVE  Types'
<1> USE DEF vars, volume, At, Goto, Return
<1>1. TypeOK'
  BY DEF RenameFails, Types, TypeOK, Code
<1>2. ArgsSet'
  BY DEF RenameFails, Types, ArgsSet
<1> QED
  BY <1>1, <1>2 DEF Types

-----------------------------------------------------------------------------
(* Every step of a task that strikes nothing keeps the invariant.          *)

LEMMA OpenAddKeeps ==
  ASSUME IInv, ~struck', NEW t \in Tasks, OpenAdd(t)
  PROVE  IInv'
<1> USE DEF vars, volume, At, Goto, Return
<1>1. Types'
  BY OpenAddTypes DEF IInv, Types
<1>3. OneUse'
  BY NoFileAssumption DEF OpenAdd, IInv, Types, TypeOK, OneUse, Holds, WorksOn, Args
<1>4. EntriesRight'
  BY NoneAssumption DEF OpenAdd, IInv, Types, TypeOK, EntriesRight, Stands, Args
<1>5. SlotsUsed'
  <2>1. \A u \in Tasks : u # t => pc'[u] = pc[u] /\ arg'[u] = arg[u]
    BY DEF OpenAdd
  <2>2. /\ pc[t] \notin {"closeRemove", "unlinkRemove"}
        /\ pc'[t] \notin {"closeRemove", "unlinkRemove"}
    BY DEF OpenAdd, IInv, Types, TypeOK
  <2>3. \A fd \in Fds : table[fd] \in Slots \/ table'[fd] \in Slots => table'[fd] = table[fd]
    BY NoneAssumption, NoFileAssumption DEF OpenAdd
  <2>4. \A s \in Slots : slot'[s].obj = slot[s].obj
    BY DEF OpenAdd, IInv, Types, TypeOK
  <2> QED
    BY <2>1, <2>2, <2>3, <2>4, SlotsQuiet DEF IInv
<1>6. OneUnlink'
  BY DEF OpenAdd, IInv, Types, OneUnlink, Removing, UnlinkPc
<1> QED
  BY <1>1, <1>3, <1>4, <1>5, <1>6 DEF IInv, Types

LEMMA OpenStatKeeps ==
  ASSUME IInv, ~struck', NEW t \in Tasks, OpenStat(t)
  PROVE  IInv'
<1> USE DEF vars, volume, At, Goto, Return
<1>1. Types'
  BY OpenStatTypes DEF IInv, Types
<1>3. OneUse'
  BY DEF OpenStat, IInv, Types, OneUse, Holds, WorksOn, FdPc, Opening
<1>4. EntriesRight'
  BY DEF OpenStat, IInv, Types, EntriesRight, Stands, Opening
<1>5. SlotsUsed'
  BY NoneAssumption, FdsAssumption DEF OpenStat, IInv, Types, SlotsUsed, Live, Removing, BeingRemoved
<1>6. OneUnlink'
  BY DEF OpenStat, IInv, Types, OneUnlink, Removing, UnlinkPc
<1> QED
  BY <1>1, <1>3, <1>4, <1>5, <1>6 DEF IInv, Types

LEMMA OpenIsDirKeeps ==
  ASSUME IInv, ~struck', NEW t \in Tasks, OpenIsDir(t)
  PROVE  IInv'
<1> USE DEF vars, volume, At, Goto, Return
<1>1. Types'
  BY OpenIsDirTypes DEF IInv, Types
<1>3. OneUse'
  BY DEF OpenIsDir, IInv, Types, OneUse, Holds, WorksOn, FdPc, Opening
<1>4. EntriesRight'
  BY DEF OpenIsDir, IInv, Types, EntriesRight, Stands, Opening
<1>5. SlotsUsed'
  BY DEF OpenIsDir, IInv, Types, SlotsUsed, Live, Removing, BeingRemoved
<1>6. OneUnlink'
  BY DEF OpenIsDir, IInv, Types, OneUnlink, Removing, UnlinkPc
<1> QED
  BY <1>1, <1>3, <1>4, <1>5, <1>6 DEF IInv, Types

LEMMA OpenExistingKeeps ==
  ASSUME IInv, ~struck', NEW t \in Tasks, OpenExisting(t)
  PROVE  IInv'
<1> USE DEF vars, volume, At, Goto, Return, Free
<1> DEFINE o == dir[arg[t].name]
<1>a. /\ arg[t].fd \in Fds /\ arg[t].name \in Names /\ arg[t].write \in BOOLEAN
      /\ pc[t] = "openFile" /\ pc' = [pc EXCEPT ![t] = "openMeta"] /\ held' = held
  BY DEF OpenExisting, IInv, Types, TypeOK, ArgsSet, FdPc, Opening
<1>b. o \in Objs
  BY <1>a DEF OpenExisting, IInv, Types, TypeOK
<1>c. PICK s \in Free : /\ slot' = [slot EXCEPT ![s] = [obj |-> o, write |-> arg[t].write]]
                        /\ table' = [table EXCEPT ![arg[t].fd] = s]
                        /\ arg' = [arg EXCEPT ![t].obj = o]
  BY DEF OpenExisting
<1>d. s \in Slots /\ slot[s].obj = None
  BY DEF Free
<1>e. /\ slot' \in [Slots -> [obj : Objs \cup {None}, write : BOOLEAN]]
      /\ table' \in [Fds -> Slots \cup {NoFile, None}]
      /\ EntriesRight' /\ SlotsUsed'
  BY <1>a, <1>b, <1>c, <1>d, OpenedEntry
<1>1. Types'
  BY OpenExistingTypes DEF IInv, Types
<1>3. OneUse'
  BY NoneAssumption DEF OpenExisting, IInv, Types, OneUse, Holds, WorksOn, FdPc, Opening
<1>4. EntriesRight'
  BY <1>e
<1>5. SlotsUsed'
  BY <1>e
<1>6. OneUnlink'
  <2>1. \A u \in Tasks : u # t => pc'[u] = pc[u] /\ arg'[u] = arg[u]
    BY <1>a, <1>c DEF IInv, Types, TypeOK
  <2>2. pc'[t] # "unlinkRemove"
    BY <1>a DEF IInv, Types, TypeOK
  <2>3. \A u \in Tasks : pc[u] = "unlinkRemove" => slot'[arg[u].file] = slot[arg[u].file]
    BY <1>c, <1>d, NoneAssumption DEF IInv, Types, TypeOK, ArgsSet, UnlinkPc, OneUnlink
  <2> QED
    BY <2>1, <2>2, <2>3, UnlinksFrame DEF IInv
<1> QED
  BY <1>1, <1>3, <1>4, <1>5, <1>6 DEF IInv, Types

LEMMA OpenCreatesKeeps ==
  ASSUME IInv, ~struck', NEW t \in Tasks, OpenCreates(t)
  PROVE  IInv'
<1> USE DEF vars, volume, At, Goto, Return, Free, Unused
<1>a. /\ arg[t].fd \in Fds /\ arg[t].name \in Names
      /\ pc[t] = "openFile" /\ pc' = [pc EXCEPT ![t] = "openMeta"] /\ held' = held
  BY DEF OpenCreates, IInv, Types, ArgsSet, FdPc, Opening
<1>c. PICK s \in Free, o \in Unused :
           /\ dir' = [dir EXCEPT ![arg[t].name] = o]
           /\ slot' = [slot EXCEPT ![s] = [obj |-> o, write |-> TRUE]]
           /\ table' = [table EXCEPT ![arg[t].fd] = s]
           /\ arg' = [arg EXCEPT ![t].obj = o]
  BY DEF OpenCreates
<1>b. o \in Objs
  BY DEF Unused
<1>d. s \in Slots /\ slot[s].obj = None
  BY DEF Free
<1>e. /\ slot' \in [Slots -> [obj : Objs \cup {None}, write : BOOLEAN]]
      /\ table' \in [Fds -> Slots \cup {NoFile, None}]
      /\ EntriesRight' /\ SlotsUsed'
  BY <1>a, <1>b, <1>c, <1>d, OpenedEntry
<1>1. Types'
  BY OpenCreatesTypes DEF IInv, Types
<1>3. OneUse'
  BY NoneAssumption DEF OpenCreates, IInv, Types, OneUse, Holds, WorksOn, FdPc, Opening
<1>4. EntriesRight'
  BY <1>e
<1>5. SlotsUsed'
  BY <1>e
<1>6. OneUnlink'
  <2>1. \A u \in Tasks : u # t => pc'[u] = pc[u] /\ arg'[u] = arg[u]
    BY <1>a, <1>c DEF IInv, Types, TypeOK
  <2>2. pc'[t] # "unlinkRemove"
    BY <1>a DEF IInv, Types, TypeOK
  <2>3. \A u \in Tasks : pc[u] = "unlinkRemove" => slot'[arg[u].file] = slot[arg[u].file]
    BY <1>c, <1>d, NoneAssumption DEF IInv, Types, TypeOK, ArgsSet, UnlinkPc, OneUnlink
  <2> QED
    BY <2>1, <2>2, <2>3, UnlinksFrame DEF IInv
<1> QED
  BY <1>1, <1>3, <1>4, <1>5, <1>6 DEF IInv, Types

LEMMA OpenFailsKeeps ==
  ASSUME IInv, ~struck', NEW t \in Tasks, OpenFails(t)
  PROVE  IInv'
<1> USE DEF vars, volume, At, Goto, Return
<1>1. Types'
  BY OpenFailsTypes DEF IInv, Types
<1>3. OneUse'
  BY DEF OpenFails, IInv, Types, OneUse, Holds, WorksOn, FdPc, Opening
<1>4. EntriesRight'
  BY DEF OpenFails, IInv, Types, EntriesRight, Stands, Opening
<1>5. SlotsUsed'
  <2>1. \A u \in Tasks : u # t => pc'[u] = pc[u] /\ arg'[u] = arg[u]
    BY DEF OpenFails
  <2>2. /\ pc[t] \notin {"closeRemove", "unlinkRemove"}
        /\ pc'[t] \notin {"closeRemove", "unlinkRemove"}
    BY DEF OpenFails, IInv, Types, TypeOK
  <2>3. \A fd \in Fds : table[fd] \in Slots \/ table'[fd] \in Slots => table'[fd] = table[fd]
    BY DEF OpenFails
  <2>4. \A s \in Slots : slot'[s].obj = slot[s].obj
    BY DEF OpenFails, IInv, Types, TypeOK
  <2> QED
    BY <2>1, <2>2, <2>3, <2>4, SlotsQuiet DEF IInv
<1>6. OneUnlink'
  BY DEF OpenFails, IInv, Types, OneUnlink, Removing, UnlinkPc
<1> QED
  BY <1>1, <1>3, <1>4, <1>5, <1>6 DEF IInv, Types

LEMMA OpenResultKeeps ==
  ASSUME IInv, ~struck', NEW t \in Tasks, OpenResult(t)
  PROVE  IInv'
<1> USE DEF vars, volume, At, Goto, Return
<1>a. /\ arg[t].fd \in Fds /\ WorksOn(t, arg[t].fd) /\ pc[t] = "openResult"
      /\ table[arg[t].fd] = NoFile
  BY DEF OpenResult, IInv, Types, ArgsSet, FdPc, Opening, WorksOn, EntriesRight
<1>b. \/ /\ pc' = [pc EXCEPT ![t] = "openMeta"] /\ UNCHANGED <<table, arg>>
      \/ /\ pc' = [pc EXCEPT ![t] = "idle"] /\ arg' = [arg EXCEPT ![t] = NoArg]
         /\ table' = [table EXCEPT ![arg[t].fd] = None]
  BY DEF OpenResult
<1>c. UNCHANGED <<dir, slot, errCode, held>>
  BY DEF OpenResult
<1>d. /\ \A u \in Tasks : ~Holds(u, arg[t].fd)
      /\ \A u \in Tasks : WorksOn(u, arg[t].fd) => u = t
  BY <1>a DEF IInv, Types, OneUse
<1>1. Types'
  BY OpenResultTypes DEF IInv, Types
<1>3. OneUse'
  <2>1. CASE UNCHANGED <<table, arg>> /\ pc' = [pc EXCEPT ![t] = "openMeta"]
    BY <1>a, <1>c, <2>1 DEF IInv, Types, OneUse, Holds, WorksOn
  <2>2. CASE /\ pc' = [pc EXCEPT ![t] = "idle"] /\ arg' = [arg EXCEPT ![t] = NoArg]
             /\ table' = [table EXCEPT ![arg[t].fd] = None]
    <3>1. \A fd \in Fds : \A u \in Tasks : Holds(u, fd)' <=> Holds(u, fd)
      BY <1>c DEF Holds
    <3>2. \A fd \in Fds : \A u \in Tasks : WorksOn(u, fd)' <=> WorksOn(u, fd) /\ u # t
      BY <2>2 DEF IInv, Types, TypeOK, WorksOn, FdPc, Opening
    <3>3. \A fd \in Fds \ {arg[t].fd} : table'[fd] = table[fd]
      BY <2>2 DEF IInv, Types, TypeOK
    <3> QED
      BY <1>c, <1>d, <3>1, <3>2, <3>3 DEF IInv, Types, OneUse
  <2> QED
    BY <1>b, <2>1, <2>2
<1>4. EntriesRight'
  <2>1. CASE UNCHANGED <<table, arg>> /\ pc' = [pc EXCEPT ![t] = "openMeta"]
    <3>1. arg[t].obj = None
      BY <1>a DEF IInv, Types, EntriesRight, Opening
    <3> QED
      BY <1>a, <1>c, <2>1, <3>1 DEF IInv, Types, EntriesRight, Stands
  <2>2. CASE /\ pc' = [pc EXCEPT ![t] = "idle"] /\ arg' = [arg EXCEPT ![t] = NoArg]
             /\ table' = [table EXCEPT ![arg[t].fd] = None]
    <3>1. \A fd \in Fds \ {arg[t].fd} : table'[fd] = table[fd]
      BY <2>2 DEF IInv, Types, TypeOK
    <3>2. \A u \in Tasks : \A h \in held[u] : h.fd \in Fds \ {arg[t].fd}
      BY <1>d DEF IInv, Types, TypeOK, Holds
    <3>3. \A u \in Tasks : /\ pc'[u] \in FdPc => u # t
                           /\ u # t => pc'[u] = pc[u] /\ arg'[u] = arg[u]
      BY <2>2 DEF IInv, Types, TypeOK, FdPc, Opening
    <3>4. \A u \in Tasks : pc'[u] \in FdPc => arg[u].fd \in Fds \ {arg[t].fd}
      BY <1>d, <3>3 DEF IInv, Types, ArgsSet, WorksOn
    <3> QED
      BY <1>c, <3>1, <3>2, <3>3, <3>4 DEF IInv, Types, EntriesRight, Stands, FdPc
  <2> QED
    BY <1>b, <2>1, <2>2
<1>5. SlotsUsed'
  <2>1. \A u \in Tasks : u # t => pc'[u] = pc[u] /\ arg'[u] = arg[u]
    BY DEF OpenResult, IInv, Types, TypeOK
  <2>2. /\ pc[t] \notin {"closeRemove", "unlinkRemove"}
        /\ pc'[t] \notin {"closeRemove", "unlinkRemove"}
    BY DEF OpenResult, IInv, Types, TypeOK
  <2>3. \A fd \in Fds : table[fd] \in Slots \/ table'[fd] \in Slots => table'[fd] = table[fd]
    BY NoneAssumption, NoFileAssumption DEF OpenResult, IInv, Types, TypeOK, EntriesRight, Opening
  <2>4. \A s \in Slots : slot'[s].obj = slot[s].obj
    BY DEF OpenResult, IInv, Types, TypeOK
  <2> QED
    BY <2>1, <2>2, <2>3, <2>4, SlotsQuiet DEF IInv
<1>6. OneUnlink'
  <2>1. \A u \in Tasks : u # t => pc'[u] = pc[u] /\ arg'[u] = arg[u]
    BY <1>b DEF IInv, Types, TypeOK
  <2>2. pc'[t] # "unlinkRemove"
    BY <1>b DEF IInv, Types, TypeOK
  <2>3. UNCHANGED slot
    BY <1>c
  <2> QED
    BY <2>1, <2>2, <2>3, UnlinksFrame DEF IInv
<1> QED
  BY <1>1, <1>3, <1>4, <1>5, <1>6 DEF IInv, Types

LEMMA OpenMetaKeeps ==
  ASSUME IInv, ~struck', NEW t \in Tasks, OpenMeta(t)
  PROVE  IInv'
<1> USE DEF vars, volume, At, Goto, Return, IsOpen
<1>1. Types'
  BY OpenMetaTypes DEF IInv, Types
<1>3. OneUse'
  BY DEF OpenMeta, IInv, Types, TypeOK, OneUse, Holds, WorksOn, FdPc, Opening
<1>4. EntriesRight'
  BY DEF OpenMeta, IInv, Types, TypeOK, EntriesRight, Stands, Opening
<1>5. SlotsUsed'
  BY NoFileAssumption, FdsAssumption
  DEF OpenMeta, IInv, Types, SlotsUsed, Live, Removing, BeingRemoved
<1>6. OneUnlink'
  BY DEF OpenMeta, IInv, Types, OneUnlink, Removing, UnlinkPc
<1> QED
  BY <1>1, <1>3, <1>4, <1>5, <1>6 DEF IInv, Types

LEMMA UseKeeps ==
  ASSUME IInv, ~struck', NEW t \in Tasks, Use(t)
  PROVE  IInv'
<1> USE DEF vars, volume, At, Goto, Return, Code, IsOpen
<1>1. Types'
  BY UseTypes DEF IInv, Types
<1>3. OneUse'
  BY DEF Use, IInv, Types, OneUse, Holds, WorksOn
<1>4. EntriesRight'
  BY DEF Use, IInv, Types, EntriesRight, Stands
<1>5. SlotsUsed'
  BY NoFileAssumption, FdsAssumption DEF Use, IInv, Types, SlotsUsed, Live, Removing, BeingRemoved
<1>6. OneUnlink'
  BY DEF Use, IInv, Types, OneUnlink, Removing
<1> QED
  BY <1>1, <1>3, <1>4, <1>5, <1>6 DEF IInv, Types

LEMMA CloseFileKeeps ==
  ASSUME IInv, ~struck', NEW t \in Tasks, CloseFile(t)
  PROVE  IInv'
<1> USE DEF vars, volume, At, Goto, Return, Closing, IsOpen
<1>a. PICK h \in held[t] : /\ IsOpen(table[h.fd])
                           /\ held' = [held EXCEPT ![t] = @ \ {h}]
                           /\ arg' = [arg EXCEPT ![t] = Args(None, FALSE, h.fd)]
                           /\ slot' = [slot EXCEPT ![table[h.fd]] = Closed]
  BY DEF CloseFile
<1> DEFINE s == table[h.fd]
<1>b. /\ pc[t] = "idle" /\ pc' = [pc EXCEPT ![t] = "closeRemove"]
      /\ UNCHANGED <<dir, errCode, table>>
  BY DEF CloseFile
<1>c. h.fd \in Fds /\ s \in Slots /\ Live(h.fd)
  <2>1. h.obj # None
    BY <1>a, NoFileAssumption DEF IInv, Types, EntriesRight, Stands
  <2> QED
    BY <1>a, <2>1, HeldLive
<1>d. /\ slot'[s].obj = None /\ \A r \in Slots \ {s} : slot'[r] = slot[r]
  BY <1>a DEF IInv, Types, TypeOK, Closed
<1>e. /\ \A u \in Tasks : \A k \in held'[u] : k \in held[u] /\ k.fd \in Fds \ {h.fd}
      /\ \A u \in Tasks : ~WorksOn(u, h.fd)
  <2>1. Holds(t, h.fd)
    BY <1>c DEF Holds
  <2>2. ASSUME NEW u \in Tasks, NEW k \in held'[u]
        PROVE  k \in held[u] /\ k.fd \in Fds \ {h.fd}
    <3>1. k \in held[u] /\ (u = t => k # h)
      BY <1>a, <2>2 DEF IInv, Types, TypeOK
    <3>2. k.fd = h.fd => Holds(u, h.fd)
      BY <3>1 DEF Holds
    <3> QED
      BY <2>1, <3>1, <3>2 DEF IInv, Types, TypeOK, OneUse
  <2> QED
    BY <1>c, <2>1, <2>2 DEF IInv, Types, OneUse
<1>f. \A fd \in Fds \ {h.fd} : Live(fd) => table[fd] \in Slots \ {s}
  BY <1>c DEF IInv, Types, SlotsUsed, Live
<1>g. /\ pc'[t] = "closeRemove" /\ arg'[t].fd = h.fd
      /\ \A u \in Tasks \ {t} : pc'[u] = pc[u] /\ arg'[u] = arg[u]
  BY <1>a, <1>b DEF IInv, Types, TypeOK, Args
<1>1. Types'
  BY CloseFileTypes DEF IInv, Types
<1>3. OneUse'
  BY DEF CloseFile, IInv, Types, TypeOK, OneUse, Holds, WorksOn, Args
<1>4. EntriesRight'
  <2>1. ASSUME NEW u \in Tasks, NEW k \in held'[u]
        PROVE  Stands(k.fd, k.obj)'
    <3>1. CASE k.obj = None
      BY <1>b, <1>e, <3>1 DEF IInv, Types, EntriesRight, Stands
    <3>2. CASE k.obj # None
      <4>1. Live(k.fd) /\ slot[table[k.fd]].obj = k.obj
        BY <1>e, <3>2, HeldLive
      <4> QED
        BY <1>b, <1>d, <1>e, <1>f, <3>2, <4>1 DEF Stands
    <3> QED
      BY <3>1, <3>2
  <2>2. ASSUME NEW u \in Tasks, pc'[u] = "openMeta"
        PROVE  Stands(arg[u].fd, arg[u].obj)'
    <3>1. u # t /\ pc[u] = "openMeta" /\ arg'[u] = arg[u]
      BY <1>g, <2>2
    <3>2. arg[u].fd \in Fds \ {h.fd}
      BY <1>e, <3>1 DEF WorksOn, FdPc, IInv, Types, ArgsSet
    <3>3. CASE arg[u].obj = None
      BY <1>b, <3>1, <3>3 DEF IInv, Types, EntriesRight, Stands
    <3>4. CASE arg[u].obj # None
      <4>1. Live(arg[u].fd) /\ slot[table[arg[u].fd]].obj = arg[u].obj
        BY <3>1, <3>4, MetaLive
      <4> QED
        BY <1>b, <1>d, <1>f, <3>1, <3>2, <3>4, <4>1 DEF Stands
    <3> QED
      BY <3>3, <3>4
  <2>3. ASSUME NEW u \in Tasks, pc'[u] \in Opening \cup {"closeResult"}
        PROVE  table'[arg'[u].fd] = NoFile /\ arg'[u].obj = None
    <3>1. u # t /\ pc[u] = pc'[u] /\ arg'[u] = arg[u]
      BY <1>g, <2>3 DEF Opening
    <3> QED
      BY <1>b, <2>3, <3>1 DEF IInv, Types, EntriesRight
  <2> QED
    BY <2>1, <2>2, <2>3 DEF EntriesRight
<1>5. SlotsUsed'
  <2>1. \A fd \in Fds : BeingRemoved(fd)' <=> BeingRemoved(fd) \/ fd = h.fd
    BY <1>b, <1>g DEF BeingRemoved
  <2>2. \A fd \in Fds : Live(fd)' <=> Live(fd) /\ fd # h.fd
    BY <1>b, <2>1 DEF Live
  <2>3. \A u \in Tasks, r \in Slots : Removing(u, r)' <=> Removing(u, r)
    BY <1>b, <1>g DEF Removing
  <2>4. \A fd \in Fds, u \in Tasks : Live(fd)' => ~Removing(u, table[fd])'
    BY <1>b, <2>2, <2>3 DEF IInv, Types, SlotsUsed, Live
  <2>5. ASSUME NEW r \in Slots, slot'[r].obj # None
        PROVE  \/ \E fd \in Fds : Live(fd)' /\ table'[fd] = r
               \/ \E u \in Tasks : Removing(u, r)'
    <3>1. r # s /\ slot[r].obj # None
      BY <1>d, <2>5
    <3>2. CASE \E fd \in Fds : Live(fd) /\ table[fd] = r
      BY <1>b, <2>2, <3>1, <3>2
    <3>3. CASE \E u \in Tasks : Removing(u, r)
      BY <2>3, <3>3
    <3> QED
      BY <3>1, <3>2, <3>3 DEF IInv, Types, SlotsUsed
  <2>6. \A fd \in Fds : Live(fd)' => slot'[table'[fd]].obj # None
    BY <1>b, <1>d, <1>f, <2>2 DEF IInv, Types, SlotsUsed
  <2>7. \A fd, gd \in Fds : Live(fd)' /\ Live(gd)' /\ table'[fd] = table'[gd] => fd = gd
    BY <1>b, <2>2 DEF IInv, Types, SlotsUsed
  <2> QED
    BY <2>4, <2>5, <2>6, <2>7 DEF SlotsUsed
<1>6. OneUnlink'
  <2>1. \A u \in Tasks : pc'[u] = "unlinkRemove" => u # t /\ pc'[u] = pc[u] /\ arg'[u] = arg[u]
    BY <1>g
  <2>2. \A u \in Tasks : pc[u] \in UnlinkPc => arg[u].file \in Slots /\ arg[u].obj \in Objs
    BY DEF IInv, Types, ArgsSet
  <2>3. \A u \in Tasks : pc[u] = "unlinkRemove" => arg[u].file # s
    BY <1>c DEF IInv, Types, SlotsUsed, Removing
  <2>4. \A u \in Tasks : pc'[u] = "unlinkRemove" =>
            slot'[arg'[u].file].obj = arg'[u].obj /\ slot'[arg'[u].file].write
    BY <1>d, <2>1, <2>2, <2>3 DEF IInv, OneUnlink, UnlinkPc
  <2>5. \A u \in Tasks, r \in Slots : Removing(u, r)' => Removing(u, r)
    BY <2>1 DEF Removing
  <2> QED
    BY <2>4, <2>5 DEF IInv, OneUnlink
<1> QED
  BY <1>1, <1>3, <1>4, <1>5, <1>6 DEF IInv, Types

LEMMA CloseFailsKeeps ==
  ASSUME IInv, ~struck', NEW t \in Tasks, CloseFails(t)
  PROVE  IInv'
<1> USE DEF vars, volume, At, Goto, Return, Closing, IsOpen
<1>1. Types'
  BY CloseFailsTypes DEF IInv, Types
<1>3. OneUse'
  BY DEF CloseFails, IInv, Types, TypeOK, OneUse, Holds, WorksOn, Args
<1>4. EntriesRight'
  BY DEF CloseFails, IInv, Types, TypeOK, EntriesRight, Stands, Args
<1>5. SlotsUsed'
  <2>1. \A u \in Tasks : u # t => pc'[u] = pc[u] /\ arg'[u] = arg[u]
    BY DEF CloseFails
  <2>2. /\ pc[t] \notin {"closeRemove", "unlinkRemove"}
        /\ pc'[t] \notin {"closeRemove", "unlinkRemove"}
    BY DEF CloseFails, IInv, Types, TypeOK
  <2>3. \A fd \in Fds : table[fd] \in Slots \/ table'[fd] \in Slots => table'[fd] = table[fd]
    BY DEF CloseFails
  <2>4. \A s \in Slots : slot'[s].obj = slot[s].obj
    BY DEF CloseFails, IInv, Types, TypeOK
  <2> QED
    BY <2>1, <2>2, <2>3, <2>4, SlotsQuiet DEF IInv
<1>6. OneUnlink'
  <2>1. \A u \in Tasks : u # t => pc'[u] = pc[u] /\ arg'[u] = arg[u]
    BY DEF CloseFails
  <2>2. pc'[t] # "unlinkRemove"
    BY DEF CloseFails, IInv, Types, TypeOK
  <2>3. UNCHANGED slot
    BY DEF CloseFails
  <2> QED
    BY <2>1, <2>2, <2>3, UnlinksFrame DEF IInv
<1> QED
  BY <1>1, <1>3, <1>4, <1>5, <1>6 DEF IInv, Types

LEMMA CloseResultKeeps ==
  ASSUME IInv, ~struck', NEW t \in Tasks, CloseResult(t)
  PROVE  IInv'
<1> USE DEF vars, volume, At, Goto, Return
<1>a. /\ arg[t].fd \in Fds /\ WorksOn(t, arg[t].fd) /\ pc[t] = "closeResult"
      /\ table[arg[t].fd] = NoFile
  BY DEF CloseResult, IInv, Types, ArgsSet, FdPc, WorksOn, EntriesRight
<1>b. \/ pc' = [pc EXCEPT ![t] = "idle"] /\ arg' = [arg EXCEPT ![t] = NoArg]
      \/ pc' = [pc EXCEPT ![t] = "closeRemove"] /\ arg' = arg
  BY DEF CloseResult
<1>c. UNCHANGED <<dir, slot, errCode, table, held>>
  BY DEF CloseResult
<1>1. Types'
  BY CloseResultTypes DEF IInv, Types
<1>3. OneUse'
  <2>1. \A fd \in Fds : \A u \in Tasks : Holds(u, fd)' <=> Holds(u, fd)
    BY <1>c DEF Holds
  <2>2. \A fd \in Fds : \A u \in Tasks : WorksOn(u, fd)' => WorksOn(u, fd)
    BY <1>a, <1>b DEF IInv, Types, TypeOK, WorksOn, FdPc, Opening
  <2> QED
    BY <1>c, <2>1, <2>2 DEF IInv, Types, OneUse
<1>4. EntriesRight'
  BY DEF CloseResult, IInv, Types, TypeOK, EntriesRight, Stands, Opening
<1>5. SlotsUsed'
  <2>1. \A fd \in Fds \ {arg[t].fd} : BeingRemoved(fd)' <=> BeingRemoved(fd)
    BY <1>b DEF IInv, Types, TypeOK, BeingRemoved
  <2>2. \A fd \in Fds : Live(fd)' <=> Live(fd)
    BY <1>a, <1>c, <2>1, NoFileAssumption DEF Live
  <2>3. \A u \in Tasks, s \in Slots : Removing(u, s)' <=> Removing(u, s)
    BY <1>a, <1>b DEF IInv, Types, TypeOK, Removing
  <2> QED
    BY <1>c, <2>2, <2>3, SlotsFrame DEF IInv
<1>6. OneUnlink'
  <2>1. \A u \in Tasks : u # t => pc'[u] = pc[u] /\ arg'[u] = arg[u]
    BY <1>b DEF IInv, Types, TypeOK
  <2>2. pc'[t] # "unlinkRemove"
    BY <1>b DEF IInv, Types, TypeOK
  <2>3. UNCHANGED slot
    BY <1>c
  <2> QED
    BY <2>1, <2>2, <2>3, UnlinksFrame DEF IInv
<1> QED
  BY <1>1, <1>3, <1>4, <1>5, <1>6 DEF IInv, Types

LEMMA CloseRemoveKeeps ==
  ASSUME IInv, ~struck', NEW t \in Tasks, CloseRemove(t)
  PROVE  IInv'
<1> USE DEF vars, volume, At, Goto, Return
<1> DEFINE fd == arg[t].fd
<1>a. /\ pc[t] = "closeRemove" /\ fd \in Fds /\ WorksOn(t, fd) /\ BeingRemoved(fd)
      /\ pc' = [pc EXCEPT ![t] = "idle"] /\ arg' = [arg EXCEPT ![t] = NoArg]
      /\ table' = [table EXCEPT ![fd] = None] /\ UNCHANGED <<dir, slot, errCode, held>>
  BY DEF CloseRemove, IInv, Types, ArgsSet, FdPc, WorksOn, BeingRemoved
<1>b. /\ \A u \in Tasks : ~Holds(u, fd)
      /\ \A u \in Tasks : WorksOn(u, fd) => u = t
  BY <1>a DEF IInv, Types, OneUse
<1>c. /\ table'[fd] = None /\ \A gd \in Fds \ {fd} : table'[gd] = table[gd]
      /\ pc'[t] = "idle" /\ \A u \in Tasks \ {t} : pc'[u] = pc[u] /\ arg'[u] = arg[u]
  BY <1>a DEF IInv, Types, TypeOK
<1>1. Types'
  BY CloseRemoveTypes DEF IInv, Types
<1>3. OneUse'
  BY DEF CloseRemove, IInv, Types, TypeOK, OneUse, Holds, WorksOn, FdPc, Opening
<1>4. EntriesRight'
  <2>1. \A u \in Tasks : \A h \in held'[u] : h \in held[u] /\ h.fd \in Fds \ {fd}
    BY <1>a, <1>b DEF IInv, Types, TypeOK, Holds
  <2>2. \A u \in Tasks : pc'[u] \in FdPc =>
            u # t /\ pc'[u] = pc[u] /\ arg'[u] = arg[u] /\ arg[u].fd \in Fds \ {fd}
    BY <1>b, <1>c DEF IInv, Types, ArgsSet, WorksOn, FdPc, Opening
  <2> QED
    BY <1>a, <2>1, <2>2 DEF IInv, Types, EntriesRight, Stands, FdPc
<1>5. SlotsUsed'
  <2>1. \A gd \in Fds \ {fd} : BeingRemoved(gd)' <=> BeingRemoved(gd)
    BY <1>a, <1>c DEF BeingRemoved
  <2>2. \A gd \in Fds : Live(gd)' <=> Live(gd)
    BY <1>a, <1>c, <2>1, NoneAssumption DEF Live
  <2>3. \A u \in Tasks, s \in Slots : Removing(u, s)' <=> Removing(u, s)
    BY <1>a, <1>c DEF Removing
  <2>4. \A gd \in Fds : Live(gd) => table'[gd] = table[gd]
    BY <1>a, <1>c DEF Live
  <2> QED
    BY <1>a, <2>2, <2>3, <2>4, SlotsFrame DEF IInv
<1>6. OneUnlink'
  BY DEF CloseRemove, IInv, Types, OneUnlink, Removing, UnlinkPc
<1> QED
  BY <1>1, <1>3, <1>4, <1>5, <1>6 DEF IInv, Types

LEMMA UnlinkIsDirKeeps ==
  ASSUME IInv, ~struck', NEW t \in Tasks, UnlinkIsDir(t)
  PROVE  IInv'
<1> USE DEF vars, volume, At, Goto, Return
<1>1. Types'
  BY UnlinkIsDirTypes DEF IInv, Types
<1>3. OneUse'
  BY DEF UnlinkIsDir, IInv, Types, OneUse, Holds, WorksOn, FdPc, Opening, Args
<1>4. EntriesRight'
  BY DEF UnlinkIsDir, IInv, Types, EntriesRight, Stands, Opening, Args
<1>5. SlotsUsed'
  <2>1. \A u \in Tasks : u # t => pc'[u] = pc[u] /\ arg'[u] = arg[u]
    BY DEF UnlinkIsDir
  <2>2. /\ pc[t] \notin {"closeRemove", "unlinkRemove"}
        /\ pc'[t] \notin {"closeRemove", "unlinkRemove"}
    BY DEF UnlinkIsDir, IInv, Types, TypeOK
  <2>3. \A fd \in Fds : table[fd] \in Slots \/ table'[fd] \in Slots => table'[fd] = table[fd]
    BY DEF UnlinkIsDir
  <2>4. \A s \in Slots : slot'[s].obj = slot[s].obj
    BY DEF UnlinkIsDir, IInv, Types, TypeOK
  <2> QED
    BY <2>1, <2>2, <2>3, <2>4, SlotsQuiet DEF IInv
<1>6. OneUnlink'
  <2>1. \A u \in Tasks : u # t => pc'[u] = pc[u] /\ arg'[u] = arg[u]
    BY DEF UnlinkIsDir
  <2>2. pc'[t] # "unlinkRemove"
    BY DEF UnlinkIsDir, IInv, Types, TypeOK
  <2>3. UNCHANGED slot
    BY DEF UnlinkIsDir
  <2> QED
    BY <2>1, <2>2, <2>3, UnlinksFrame DEF IInv
<1> QED
  BY <1>1, <1>3, <1>4, <1>5, <1>6 DEF IInv, Types

LEMMA UnlinkOpenKeeps ==
  ASSUME IInv, ~struck', NEW t \in Tasks, UnlinkOpen(t)
  PROVE  IInv'
<1> USE DEF vars, volume, At, Goto, Return, Free
<1> DEFINE o == dir[arg[t].name]
<1>a. /\ pc[t] = "unlinkOpen" /\ arg[t].name \in Names /\ o \in Objs
      /\ UNCHANGED <<dir, errCode, table, held>> /\ pc' = [pc EXCEPT ![t] = "unlinkRemove"]
  BY DEF UnlinkOpen, IInv, Types, TypeOK, ArgsSet
<1>b. PICK s \in Free : /\ slot' = [slot EXCEPT ![s] = [obj |-> o, write |-> TRUE]]
                        /\ arg' = [arg EXCEPT ![t].file = s, ![t].obj = o]
  BY DEF UnlinkOpen
<1>c. s \in Slots /\ slot[s].obj = None /\ o # None
  BY <1>a, NoneAssumption DEF Free
<1>d. /\ slot'[s].obj = o /\ \A r \in Slots \ {s} : slot'[r] = slot[r]
      /\ pc'[t] = "unlinkRemove" /\ arg'[t].file = s
      /\ \A u \in Tasks \ {t} : pc'[u] = pc[u] /\ arg'[u] = arg[u]
  BY <1>a, <1>b DEF IInv, Types, TypeOK
<1>1. Types'
  BY UnlinkOpenTypes DEF IInv, Types
<1>3. OneUse'
  BY DEF UnlinkOpen, IInv, Types, TypeOK, OneUse, Holds, WorksOn, FdPc, Opening
<1>4. EntriesRight'
  BY DEF UnlinkOpen, IInv, Types, TypeOK, EntriesRight, Stands, Opening
<1>5. SlotsUsed'
  <2>1. \A fd \in Fds : Live(fd)' <=> Live(fd)
    BY <1>a, <1>d DEF Live, BeingRemoved
  <2>2. \A fd \in Fds : Live(fd) => table[fd] \in Slots \ {s}
    BY <1>c DEF IInv, Types, SlotsUsed, Live
  <2>3. /\ Removing(t, s)' /\ \A r \in Slots \ {s} : ~Removing(t, r)'
        /\ \A u \in Tasks \ {t}, r \in Slots : Removing(u, r)' <=> Removing(u, r)
        /\ \A r \in Slots : ~Removing(t, r)
    BY <1>a, <1>d DEF Removing
  <2>4. \A fd \in Fds : Live(fd)' => slot'[table'[fd]].obj # None
    BY <1>a, <1>d, <2>1, <2>2 DEF IInv, Types, SlotsUsed
  <2>5. \A fd, gd \in Fds : Live(fd)' /\ Live(gd)' /\ table'[fd] = table'[gd] => fd = gd
    BY <1>a, <2>1 DEF IInv, Types, SlotsUsed
  <2>6. ASSUME NEW fd \in Fds, NEW u \in Tasks, Live(fd)'
        PROVE  ~Removing(u, table[fd])'
    <3>1. /\ table'[fd] = table[fd] /\ table[fd] \in Slots \ {s}
          /\ ~Removing(u, table[fd])
      BY <1>a, <2>1, <2>2, <2>6 DEF IInv, Types, SlotsUsed
    <3> QED
      BY <1>d, <3>1 DEF Removing
  <2>7. ASSUME NEW r \in Slots, slot'[r].obj # None
        PROVE  \/ \E fd \in Fds : Live(fd)' /\ table'[fd] = r
               \/ \E u \in Tasks : Removing(u, r)'
    <3>1. CASE r = s
      BY <2>3, <3>1
    <3>2. CASE r # s
      <4>1. slot[r].obj # None
        BY <1>d, <2>7, <3>2
      <4>2. CASE \E fd \in Fds : Live(fd) /\ table[fd] = r
        BY <1>a, <2>1, <4>2
      <4>3. CASE \E u \in Tasks : Removing(u, r)
        BY <2>3, <4>3
      <4> QED
        BY <4>1, <4>2, <4>3 DEF IInv, Types, SlotsUsed
    <3> QED
      BY <3>1, <3>2
  <2> QED
    BY <2>4, <2>5, <2>6, <2>7 DEF SlotsUsed
<1>6. OneUnlink'
  <2>1. \A u \in Tasks \ {t} : pc[u] = "unlinkRemove" =>
            arg[u].file \in Slots \ {s} /\ slot'[arg[u].file] = slot[arg[u].file]
    BY <1>c, <1>d, NoneAssumption DEF IInv, Types, ArgsSet, UnlinkPc, OneUnlink
  <2>2. slot'[s].write /\ slot'[s].obj = o /\ arg'[t].file = s /\ arg'[t].obj = o
    BY <1>b, <1>c, <1>d DEF IInv, Types, TypeOK
  <2>3. \A u \in Tasks \ {t}, r \in Slots : Removing(u, r)' => Removing(u, r) /\ r # s
    BY <1>d, <2>1 DEF Removing
  <2>4. \A r \in Slots : Removing(t, r)' => r = s
    BY <2>2 DEF Removing
  <2>5. \A u, w \in Tasks, r \in Slots : Removing(u, r)' /\ Removing(w, r)' => u = w
    BY <2>3, <2>4 DEF IInv, OneUnlink
  <2>6. \A u \in Tasks : pc'[u] = "unlinkRemove" =>
            slot'[arg'[u].file].obj = arg'[u].obj /\ slot'[arg'[u].file].write
    BY <1>d, <2>1, <2>2 DEF IInv, OneUnlink
  <2> QED
    BY <2>5, <2>6 DEF OneUnlink
<1> QED
  BY <1>1, <1>3, <1>4, <1>5, <1>6 DEF IInv, Types

LEMMA UnlinkFailsKeeps ==
  ASSUME IInv, ~struck', NEW t \in Tasks, UnlinkFails(t)
  PROVE  IInv'
<1> USE DEF vars, volume, At, Goto, Return
<1>1. Types'
  BY UnlinkFailsTypes DEF IInv, Types
<1>3. OneUse'
  BY DEF UnlinkFails, IInv, Types, OneUse, Holds, WorksOn, FdPc, Opening
<1>4. EntriesRight'
  BY DEF UnlinkFails, IInv, Types, EntriesRight, Stands, Opening
<1>5. SlotsUsed'
  BY NoFileAssumption, FdsAssumption
  DEF UnlinkFails, IInv, Types, SlotsUsed, Live, Removing, BeingRemoved
<1>6. OneUnlink'
  BY DEF UnlinkFails, IInv, Types, OneUnlink, Removing, UnlinkPc
<1> QED
  BY <1>1, <1>3, <1>4, <1>5, <1>6 DEF IInv, Types

LEMMA UnlinkRemoveKeeps ==
  ASSUME IInv, ~struck', NEW t \in Tasks, UnlinkRemove(t)
  PROVE  IInv'
<1> USE DEF vars, volume, At, Goto, Return, IsOpen
<1> DEFINE file == arg[t].file
           o == arg[t].obj
<1>x. /\ pc[t] = "unlinkRemove" /\ file \in Slots /\ o \in Objs /\ Removing(t, file)
      /\ slot[file].obj = o /\ slot[file].write
  BY DEF UnlinkRemove, IInv, Types, ArgsSet, UnlinkPc, OneUnlink, Removing
<1>y. \A s \in Slots \ {file} : slot[s].obj # o
  BY <1>x DEF UnlinkRemove
<1>a. /\ pc[t] = "unlinkRemove" /\ file \in Slots /\ o \in Objs /\ Removing(t, file)
      /\ slot[file].obj = o /\ slot[file].write
      /\ \A s \in Slots : slot[s].obj = o => s = file
  BY <1>x, <1>y
<1>b. /\ pc' = [pc EXCEPT ![t] = "unlinkClose"]
      /\ dir' = [n \in Names |-> IF dir[n] = o THEN None ELSE dir[n]]
      /\ slot' = [s \in Slots |-> IF slot[s].obj = o THEN Closed ELSE slot[s]]
      /\ UNCHANGED <<errCode, table, held, arg>>
  BY <1>a DEF UnlinkRemove
<1>c. /\ slot'[file] = Closed /\ \A r \in Slots \ {file} : slot'[r] = slot[r]
      /\ pc'[t] = "unlinkClose" /\ \A u \in Tasks \ {t} : pc'[u] = pc[u]
  BY <1>a, <1>b DEF IInv, Types, TypeOK
<1>d. \A fd \in Fds : Live(fd) => table[fd] \in Slots \ {file}
  BY <1>a DEF IInv, Types, SlotsUsed, Live
<1>1. Types'
  BY UnlinkRemoveTypes DEF IInv, Types
<1>3. OneUse'
  BY DEF UnlinkRemove, IInv, Types, OneUse, Holds, WorksOn, FdPc, Opening
<1>4. EntriesRight'
  <2>1. ASSUME NEW u \in Tasks, NEW h \in held[u]
        PROVE  Stands(h.fd, h.obj)'
    <3>1. CASE h.obj = None
      BY <1>b, <3>1 DEF IInv, Types, EntriesRight, Stands
    <3>2. CASE h.obj # None
      <4>1. h.fd \in Fds /\ Live(h.fd) /\ slot[table[h.fd]].obj = h.obj
        BY <3>2, HeldLive
      <4> QED
        BY <1>b, <1>c, <1>d, <3>2, <4>1 DEF Stands
    <3> QED
      BY <3>1, <3>2
  <2>2. ASSUME NEW u \in Tasks, pc'[u] = "openMeta"
        PROVE  Stands(arg[u].fd, arg[u].obj)'
    <3>1. pc[u] = "openMeta"
      BY <1>c, <2>2
    <3>2. CASE arg[u].obj = None
      BY <1>b, <3>1, <3>2 DEF IInv, Types, EntriesRight, Stands
    <3>3. CASE arg[u].obj # None
      <4>1. arg[u].fd \in Fds /\ Live(arg[u].fd) /\ slot[table[arg[u].fd]].obj = arg[u].obj
        BY <3>1, <3>3, MetaLive
      <4> QED
        BY <1>b, <1>c, <1>d, <3>3, <4>1 DEF Stands
    <3> QED
      BY <3>2, <3>3
  <2>3. \A u \in Tasks : pc'[u] \in Opening \cup {"closeResult"} =>
            table'[arg'[u].fd] = NoFile /\ arg'[u].obj = None
    BY <1>b DEF IInv, Types, EntriesRight, Opening
  <2> QED
    BY <1>b, <2>1, <2>2, <2>3 DEF EntriesRight
<1>5. SlotsUsed'
  <2>1. \A fd \in Fds : Live(fd)' <=> Live(fd)
    BY <1>a, <1>b DEF Live, BeingRemoved
  <2>2. \A u \in Tasks, r \in Slots : Removing(u, r)' <=> Removing(u, r) /\ u # t
    BY <1>b, <1>c DEF Removing
  <2>3. \A fd \in Fds : Live(fd)' => slot'[table'[fd]].obj # None
    BY <1>b, <1>c, <1>d, <2>1 DEF IInv, Types, SlotsUsed
  <2>4. \A fd, gd \in Fds : Live(fd)' /\ Live(gd)' /\ table'[fd] = table'[gd] => fd = gd
    BY <1>b, <2>1 DEF IInv, Types, SlotsUsed
  <2>5. ASSUME NEW fd \in Fds, NEW u \in Tasks, Live(fd)'
        PROVE  ~Removing(u, table[fd])'
    <3>1. table'[fd] = table[fd] /\ ~Removing(u, table[fd])
      BY <1>b, <2>1, <2>5 DEF IInv, Types, SlotsUsed
    <3> QED
      BY <1>b, <1>c, <3>1 DEF Removing
  <2>6. ASSUME NEW r \in Slots, slot'[r].obj # None
        PROVE  \/ \E fd \in Fds : Live(fd)' /\ table'[fd] = r
               \/ \E u \in Tasks : Removing(u, r)'
    <3>1. r # file /\ slot[r].obj # None
      BY <1>c, <2>6 DEF Closed
    <3>2. CASE \E fd \in Fds : Live(fd) /\ table[fd] = r
      BY <1>b, <2>1, <3>2
    <3>3. CASE \E u \in Tasks : Removing(u, r)
      BY <2>2, <3>1, <3>3 DEF Removing
    <3> QED
      BY <3>1, <3>2, <3>3 DEF IInv, Types, SlotsUsed
  <2> QED
    BY <2>3, <2>4, <2>5, <2>6 DEF SlotsUsed
<1>6. OneUnlink'
  BY DEF UnlinkRemove, IInv, Types, TypeOK, OneUnlink, Removing, UnlinkPc, Closed, ArgsSet
<1> QED
  BY <1>1, <1>3, <1>4, <1>5, <1>6 DEF IInv, Types

LEMMA UnlinkCloseKeeps ==
  ASSUME IInv, ~struck', NEW t \in Tasks, UnlinkClose(t)
  PROVE  IInv'
<1> USE DEF vars, volume, At, Goto, Return, IsOpen
<1>x. arg[t].file \in Slots
  BY DEF UnlinkClose, IInv, Types, ArgsSet, UnlinkPc
<1>a. /\ pc[t] = "unlinkClose" /\ pc' = [pc EXCEPT ![t] = "idle"]
      /\ arg' = [arg EXCEPT ![t] = NoArg] /\ UNCHANGED <<dir, table, held>>
      /\ slot' = [slot EXCEPT ![arg[t].file] = Closed] /\ slot[arg[t].file].obj = None
  BY <1>x DEF UnlinkClose
<1>b. /\ \A s \in Slots : slot'[s].obj = slot[s].obj
      /\ pc'[t] = "idle" /\ \A u \in Tasks \ {t} : pc'[u] = pc[u] /\ arg'[u] = arg[u]
  BY <1>a DEF IInv, Types, TypeOK, Closed
<1>1. Types'
  BY UnlinkCloseTypes DEF IInv, Types
<1>3. OneUse'
  BY DEF UnlinkClose, IInv, Types, OneUse, Holds, WorksOn, FdPc, Opening
<1>4. EntriesRight'
  BY <1>a DEF IInv, Types, EntriesRight, Stands, Opening
<1>5. SlotsUsed'
  <2>1. \A fd \in Fds : table'[fd] = table[fd]
    BY <1>a
  <2> QED
    BY <1>a, <1>b, SlotsQuiet DEF IInv
<1>6. OneUnlink'
  <2>1. \A u \in Tasks : u # t => pc'[u] = pc[u] /\ arg'[u] = arg[u]
    BY <1>b
  <2>2. pc'[t] # "unlinkRemove"
    BY <1>b
  <2>3. \A u \in Tasks : pc[u] = "unlinkRemove" => slot'[arg[u].file] = slot[arg[u].file]
    BY <1>x, <1>a, NoneAssumption DEF IInv, Types, TypeOK, ArgsSet, UnlinkPc, OneUnlink
  <2> QED
    BY <2>1, <2>2, <2>3, UnlinksFrame DEF IInv
<1> QED
  BY <1>1, <1>3, <1>4, <1>5, <1>6 DEF IInv, Types

LEMMA RenameKeeps ==
  ASSUME IInv, ~struck', NEW t \in Tasks, Rename(t)
  PROVE  IInv'
<1> USE DEF vars, volume, At, Goto, Return
<1>1. Types'
  BY RenameTypes DEF IInv, Types
<1>3. OneUse'
  BY DEF Rename, IInv, Types, OneUse, Holds, WorksOn
<1>4. EntriesRight'
  BY DEF Rename, IInv, Types, EntriesRight, Stands
<1>5. SlotsUsed'
  BY NoneAssumption, NoFileAssumption, FdsAssumption
  DEF Rename, IInv, Types, SlotsUsed, Live, Removing, BeingRemoved
<1>6. OneUnlink'
  BY DEF Rename, IInv, Types, OneUnlink, Removing
<1> QED
  BY <1>1, <1>3, <1>4, <1>5, <1>6 DEF IInv, Types

LEMMA RenameFailsKeeps ==
  ASSUME IInv, ~struck', NEW t \in Tasks, RenameFails(t)
  PROVE  IInv'
<1> USE DEF vars, volume, At, Goto, Return
<1>1. Types'
  BY RenameFailsTypes DEF IInv, Types
<1>3. OneUse'
  BY DEF RenameFails, IInv, Types, OneUse, Holds, WorksOn
<1>4. EntriesRight'
  BY DEF RenameFails, IInv, Types, EntriesRight, Stands
<1>5. SlotsUsed'
  BY DEF RenameFails, IInv, Types, SlotsUsed, Live, Removing, BeingRemoved
<1>6. OneUnlink'
  BY DEF RenameFails, IInv, Types, OneUnlink, Removing
<1> QED
  BY <1>1, <1>3, <1>4, <1>5, <1>6 DEF IInv, Types

-----------------------------------------------------------------------------
(* Theorems *)

LEMMA InitHolds == Init => IInv
<1> USE NoneAssumption, NoFileAssumption, FdsAssumption DEF Init
<1>1. Init => Types
  <2>1. NoArg \in [name : Names \cup {None}, write : BOOLEAN, fd : Fds \cup {None},
                   file : Slots \cup {NoFile}, obj : Objs \cup {None}]
    BY DEF NoArg, Args
  <2>2. Closed \in [obj : Objs \cup {None}, write : BOOLEAN]
    BY DEF Closed
  <2>3. Init => TypeOK
    <3>1. Init => /\ dir \in [Names -> Objs \cup {None}]
                  /\ slot \in [Slots -> [obj : Objs \cup {None}, write : BOOLEAN]]
      BY <2>2
    <3>2. Init => /\ table \in [Fds -> Slots \cup {NoFile, None}]
                  /\ held \in [Tasks -> SUBSET [fd : Fds, obj : Objs \cup {None}]]
      OBVIOUS
    <3>3. Init => /\ errCode \in Code /\ pc \in [Tasks -> Pc]
                  /\ arg \in [Tasks -> [name : Names \cup {None}, write : BOOLEAN,
                                        fd : Fds \cup {None}, file : Slots \cup {NoFile},
                                        obj : Objs \cup {None}]]
      BY <2>1 DEF Code, Pc
    <3> QED
      BY <3>1, <3>2, <3>3 DEF TypeOK
  <2>4. Init => ArgsSet
    BY DEF ArgsSet, FdPc, Opening, UnlinkPc
  <2> QED
    BY <2>3, <2>4 DEF Types
<1>2. Init => OneUse /\ EntriesRight
  BY DEF OneUse, EntriesRight, Holds, WorksOn, Stands, FdPc, Opening
<1>3. Init => SlotsUsed /\ OneUnlink
  BY DEF SlotsUsed, OneUnlink, Live, Removing, Closed
<1> QED
  BY <1>1, <1>2, <1>3 DEF IInv

LEMMA TypesKept == ASSUME Types, [Next]_vars PROVE Types'
<1>1. CASE UNCHANGED vars
  BY <1>1 DEF vars, volume, Types, TypeOK, ArgsSet
<1>2. ASSUME NEW t \in Tasks, Open(t)
      PROVE  Types'
  BY <1>2, OpenAddTypes, OpenStatTypes, OpenIsDirTypes, OpenExistingTypes, OpenCreatesTypes,
     OpenFailsTypes, OpenResultTypes, OpenMetaTypes DEF Open
<1>3. ASSUME NEW t \in Tasks, Close(t)
      PROVE  Types'
  BY <1>3, CloseFileTypes, CloseFailsTypes, CloseResultTypes, CloseRemoveTypes DEF Close
<1>4. ASSUME NEW t \in Tasks, Unlink(t)
      PROVE  Types'
  BY <1>4, UnlinkIsDirTypes, UnlinkOpenTypes, UnlinkFailsTypes, UnlinkRemoveTypes,
     UnlinkCloseTypes DEF Unlink
<1> QED
  BY <1>1, <1>2, <1>3, <1>4, UseTypes, RenameTypes, RenameFailsTypes DEF Next

LEMMA StepKeeps == ASSUME IInv, ~struck', [Next]_vars PROVE IInv'
<1>1. CASE UNCHANGED vars
  BY <1>1 DEF vars, volume, IInv, Types, TypeOK, ArgsSet, OneUse, EntriesRight, SlotsUsed,
              OneUnlink, Holds, WorksOn, Stands, Live, BeingRemoved, Removing
<1>2. ASSUME NEW t \in Tasks, Open(t)
      PROVE  IInv'
  BY <1>2, OpenAddKeeps, OpenStatKeeps, OpenIsDirKeeps, OpenExistingKeeps, OpenCreatesKeeps,
     OpenFailsKeeps, OpenResultKeeps, OpenMetaKeeps DEF Open
<1>3. ASSUME NEW t \in Tasks, Close(t)
      PROVE  IInv'
  BY <1>3, CloseFileKeeps, CloseFailsKeeps, CloseResultKeeps, CloseRemoveKeeps DEF Close
<1>4. ASSUME NEW t \in Tasks, Unlink(t)
      PROVE  IInv'
  BY <1>4, UnlinkIsDirKeeps, UnlinkOpenKeeps, UnlinkFailsKeeps, UnlinkRemoveKeeps,
     UnlinkCloseKeeps DEF Unlink
<1> QED
  BY <1>1, <1>2, <1>3, <1>4, UseKeeps, RenameKeeps, RenameFailsKeeps DEF Next

(* What an unlink has struck stays so. *)
LEMMA StruckStays == ASSUME [Next]_vars, struck PROVE struck'
BY DEF Next, vars, volume, Open, Close, Unlink, OpenAdd, OpenStat, OpenIsDir, OpenExisting,
   OpenCreates, OpenFails, OpenResult, OpenMeta, Use, CloseFile, CloseFails, CloseResult,
   CloseRemove, UnlinkIsDir, UnlinkOpen, UnlinkFails, UnlinkRemove, UnlinkClose, Rename,
   RenameFails

(* The types hold throughout, the invariant until an unlink strikes.       *)
Guarded == Types /\ (~struck => IInv)

LEMMA InvariantHolds == Spec => []Guarded
<1>1. Init => Guarded
  BY InitHolds DEF Guarded, IInv
<1>2. Guarded /\ [Next]_vars => Guarded'
  BY TypesKept, StepKeeps, StruckStays DEF Guarded
<1> QED
  BY <1>1, <1>2, PTL DEF Spec

(* The variables of vfs_spiffs_open, close and unlink stay in range.        *)
THEOREM TypeCorrect == Spec => []TypeOK
<1>1. Guarded => TypeOK
  BY DEF Guarded, Types
<1> QED
  BY <1>1, InvariantHolds, PTL

(* A descriptor of vfs_spiffs_open stands for its file until it is closed,  *)
(* whatever other tasks open, close, rename and unlink, as long as no       *)
(* unlink has closed a number under its user.                               *)
THEOREM KeepsFiles == Spec => []HeldStaysOpen
<1>1. Guarded => HeldStaysOpen
  <2>1. ASSUME IInv, NEW t \in Tasks, NEW h \in held[t], h.obj # None
        PROVE  IsOpen(table[h.fd]) /\ slot[table[h.fd]].obj = h.obj
    BY <2>1, HeldLive DEF Live, IsOpen
  <2> QED
    BY <2>1 DEF HeldStaysOpen, Guarded
<1> QED
  BY <1>1, InvariantHolds, PTL

(* An open SPIFFS file has one user, a list entry or an unlink, as long as  *)
(* no unlink has closed a number under its user.                            *)
THEOREM NothingLost == Spec => []SlotsAccounted
<1>1. ASSUME IInv, NEW s \in Slots, IsOpen(s)
      PROVE  \E user \in Fds \cup Tasks : Users(s) = {user}
  <2>1. /\ \A fd \in Fds : fd \in Users(s) <=> (Live(fd) /\ table[fd] = s)
        /\ \A t \in Tasks : t \in Users(s) <=> Removing(t, s)
        /\ Users(s) \subseteq Fds \cup Tasks
    BY FdsAssumption DEF Users, Live, Removing
  <2>2. slot[s].obj # None
    BY <1>1 DEF IsOpen
  <2>3. CASE \E fd \in Fds : Live(fd) /\ table[fd] = s
    <3>1. PICK fd \in Fds : Live(fd) /\ table[fd] = s
      BY <2>3
    <3>2. \A gd \in Fds : Live(gd) /\ table[gd] = s => gd = fd
      BY <1>1, <3>1 DEF IInv, Types, SlotsUsed
    <3>3. \A t \in Tasks : ~Removing(t, s)
      BY <1>1, <3>1 DEF IInv, Types, SlotsUsed
    <3> QED
      BY <2>1, <3>1, <3>2, <3>3
  <2>4. CASE /\ ~ \E fd \in Fds : Live(fd) /\ table[fd] = s
             /\ \E t \in Tasks : Removing(t, s)
    <3>1. PICK t \in Tasks : Removing(t, s)
      BY <2>4
    <3>2. \A u \in Tasks : Removing(u, s) => u = t
      BY <1>1, <3>1 DEF IInv, OneUnlink
    <3> QED
      BY <2>1, <2>4, <3>1, <3>2
  <2> QED
    BY <1>1, <2>2, <2>3, <2>4 DEF IInv, Types, SlotsUsed
<1>2. Guarded => SlotsAccounted
  BY <1>1 DEF SlotsAccounted, Guarded
<1> QED
  BY <1>2, InvariantHolds, PTL

(* vfs_spiffs_unlink deletes the file it looked up, and nothing else        *)
(* deletes one, as long as no unlink has closed a number under its user.    *)
THEOREM DeletesOwn == Spec => UnlinkRemovesOwn
<1> DEFINE Own(ob) == \E t \in Tasks : pc[t] = "unlinkRemove" /\ arg[t].obj = ob
<1>1. ASSUME IInv, [Next]_vars, NEW ob \in Objs, Exists(ob), ~Exists(ob)'
      PROVE  Own(ob)
  <2>1. PICK n \in Names : dir[n] = ob
    BY <1>1 DEF Exists
  <2>2. ~ UNCHANGED dir
    BY <1>1 DEF Exists
  <2>3. PICK t \in Tasks : OpenCreates(t) \/ UnlinkRemove(t) \/ Rename(t)
    BY <1>1, <2>2 DEF Next, vars, volume, Open, Close, Unlink, OpenAdd, OpenStat, OpenIsDir,
       OpenExisting, OpenFails, OpenResult, OpenMeta, Use, CloseFile, CloseFails, CloseResult,
       CloseRemove, UnlinkIsDir, UnlinkOpen, UnlinkFails, UnlinkClose, RenameFails
  <2>4. CASE OpenCreates(t)
    BY <1>1, <2>4, NoneAssumption DEF OpenCreates, Exists
  <2>5. CASE Rename(t)
    <3>1. PICK old, new \in Names :
             /\ dir[old] # None /\ dir[new] = None
             /\ dir' = [dir EXCEPT ![old] = None, ![new] = dir[old]]
      BY <2>5 DEF Rename
    <3>2. IF n = old THEN dir'[new] = ob ELSE dir'[n] = ob
      BY <1>1, <2>1, <3>1, NoneAssumption DEF IInv, Types, TypeOK
    <3> QED
      BY <1>1, <3>2 DEF Exists
  <2>6. CASE UnlinkRemove(t)
    <3>1. pc[t] = "unlinkRemove" /\ slot[arg[t].file].obj = arg[t].obj
      BY <1>1, <2>6 DEF UnlinkRemove, At, IInv, Types, OneUnlink
    <3>2. dir'[n] = IF dir[n] = arg[t].obj THEN None ELSE dir[n]
      BY <2>2, <2>6, <3>1 DEF UnlinkRemove, volume
    <3> QED
      BY <1>1, <2>1, <3>1, <3>2 DEF Exists
  <2> QED
    BY <2>3, <2>4, <2>5, <2>6
<1>2. Guarded /\ [Next]_vars => [~struck => DeletedByOwn]_vars
  BY <1>1 DEF Guarded, DeletedByOwn
<1> QED
  BY <1>2, InvariantHolds, PTL DEF Spec, UnlinkRemovesOwn

=============================================================================
