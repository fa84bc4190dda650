----------------------------- MODULE SpiffsVfs ------------------------------
(***************************************************************************)
(* spiffs_vfs.c: the POSIX calls of several tasks.  A call is a sequence   *)
(* of list and SPIFFS calls, each atomic under a mutex of its own, and     *)
(* fs.err_code, which every failing SPIFFS call of any task overwrites, is *)
(* read between them.  A SPIFFS file number is an index of fd_space, given *)
(* to the next open as soon as it is closed.  The list is the table that   *)
(* FdTable promises and FdList implements.  Names are plain files, and     *)
(* closing never finds the flash full.  stat is an open, a use and a       *)
(* close.  Any task may open or unlink a file at any time, also while it   *)
(* is being unlinked.                                                      *)
(***************************************************************************)
CONSTANTS
    Tasks, Names,
    Objs,          \* object ids
    Slots,         \* the entries of fd_space
    Fds,           \* the indexes of the list of files
    None,          \* no object, no entry
    NoFile         \* a spiffs_file that is no slot: 0 or an error

ASSUME NoneAssumption == None \notin Objs /\ None \notin Slots
ASSUME NoFileAssumption == NoFile \notin Slots \cup {None}
ASSUME FdsAssumption == None \notin Fds /\ Fds \cap Tasks = {}


VARIABLES
    dir,       \* the object of every name
    slot,      \* fd_space: the object each slot is open on, and whether for writing
    errCode,   \* fs.err_code, as spiffs_result sees it
    table,     \* the list of files: spiffs_file of each entry
    held,      \* the descriptors each task was given, with the object it opened
    pc, arg,   \* per task: where it is in a call, and the call's variables
    struck     \* history: an unlink has closed a number another call was using

volume == <<dir, slot>>
vars == <<volume, errCode, table, held, pc, arg, struck>>

(* spiffs_result: SPIFFS_OK and SPIFFS_ERR_END_OF_OBJECT give 0, a few      *)
(* errors an errno value, and the others stay negative.                    *)
Code == {"zero", "errno", "negative"}

Closed == [obj |-> None, write |-> FALSE]
Args(n, write, fd) == [name |-> n, write |-> write, fd |-> fd, file |-> NoFile, obj |-> None]
NoArg == Args(None, FALSE, None)

Init == /\ dir = [n \in Names |-> None] /\ slot = [s \in Slots |-> Closed]
        /\ errCode = "zero" /\ table = [fd \in Fds |-> None]
        /\ held = [t \in Tasks |-> {}]
        /\ pc = [t \in Tasks |-> "idle"] /\ arg = [t \in Tasks |-> NoArg]
        /\ struck = FALSE

At(t, here) == pc[t] = here
Goto(t, there) == pc' = [pc EXCEPT ![t] = there]
Return(t) == Goto(t, "idle") /\ arg' = [arg EXCEPT ![t] = NoArg]

Free == {s \in Slots : slot[s].obj = None}
IsOpen(file) == file \in Slots /\ slot[file].obj # None
Unused == Objs \ {dir[n] : n \in Names}

-----------------------------------------------------------------------------
(* vfs_spiffs_open *)

OpenAdd(t) ==
    /\ At(t, "idle")
    /\ \E n \in Names, write \in BOOLEAN, fd \in Fds :
          /\ table[fd] = None
          /\ table' = [table EXCEPT ![fd] = NoFile]
          /\ arg' = [arg EXCEPT ![t] = Args(n, write, fd)]
    /\ Goto(t, "openStat")
    /\ UNCHANGED <<volume, errCode, held, struck>>

(* SPIFFS_stat *)
OpenStat(t) ==
    /\ At(t, "openStat") /\ Goto(t, "openIsDir")
    /\ errCode' = IF dir[arg[t].name] = None THEN "errno" ELSE errCode
    /\ UNCHANGED <<volume, table, held, arg, struck>>

(* is_dir reads the directory to its end, which is an error to readdir. *)
OpenIsDir(t) ==
    /\ At(t, "openIsDir") /\ Goto(t, "openFile")
    /\ errCode' = "negative"
    /\ UNCHANGED <<volume, table, held, arg, struck>>

(* Faulty variant: the first slot is taken, free or not. *)
OpenTakesAny(t) ==
    LET n == arg[t].name
    IN  /\ At(t, "openFile") /\ dir[n] # None
        /\ \E s \in Slots :
              /\ slot' = [slot EXCEPT ![s] = [obj |-> dir[n], write |-> arg[t].write]]
              /\ table' = [table EXCEPT ![arg[t].fd] = s]
        /\ arg' = [arg EXCEPT ![t].obj = dir[n]]
        /\ Goto(t, "openMeta")
        /\ UNCHANGED <<dir, errCode, held, struck>>

(* SPIFFS_open of a file that exists *)
OpenExisting(t) ==
    LET n == arg[t].name
    IN  /\ At(t, "openFile") /\ dir[n] # None
        /\ \E s \in Free :
              /\ slot' = [slot EXCEPT ![s] = [obj |-> dir[n], write |-> arg[t].write]]
              /\ table' = [table EXCEPT ![arg[t].fd] = s]
        /\ arg' = [arg EXCEPT ![t].obj = dir[n]]
        /\ Goto(t, "openMeta")
        /\ UNCHANGED <<dir, errCode, held, struck>>

(* ... and of one that SPIFFS_CREAT creates *)
OpenCreates(t) ==
    LET n == arg[t].name
    IN  /\ At(t, "openFile") /\ dir[n] = None /\ arg[t].write
        /\ \E s \in Free, o \in Unused :
              /\ dir' = [dir EXCEPT ![n] = o]
              /\ slot' = [slot EXCEPT ![s] = [obj |-> o, write |-> TRUE]]
              /\ table' = [table EXCEPT ![arg[t].fd] = s]
              /\ arg' = [arg EXCEPT ![t].obj = o]
        /\ Goto(t, "openMeta")
        /\ UNCHANGED <<errCode, held, struck>>

(* A file that does not exist is not created when no object id or no page  *)
(* is to be had.                                                           *)
OpenFails(t) ==
    LET missing == dir[arg[t].name] = None
    IN  /\ At(t, "openFile") /\ Goto(t, "openResult")
        /\ \/ Free = {} /\ errCode' = "negative"
           \/ Free # {} /\ missing /\ ~arg[t].write /\ errCode' = "errno"
           \/ Free # {} /\ missing /\ arg[t].write /\ errCode' = "negative"
        /\ UNCHANGED <<volume, table, held, arg, struck>>

(* An error that another call has replaced by 0 opens no file, but gives a *)
(* descriptor.                                                             *)
OpenResult(t) ==
    /\ At(t, "openResult")
    /\ IF errCode = "zero"
         THEN Goto(t, "openMeta") /\ UNCHANGED <<table, arg>>
         ELSE Return(t) /\ table' = [table EXCEPT ![arg[t].fd] = None]
    /\ UNCHANGED <<volume, errCode, held, struck>>

(* Faulty variant: the descriptor is not the one list_add gave. *)
OpenForgetsFd(t) ==
    LET file == table[arg[t].fd]
    IN  /\ At(t, "openMeta")
        /\ errCode' = IF ~IsOpen(file) THEN "negative"
                      ELSE IF ~slot[file].write THEN "errno" ELSE errCode
        /\ held' = [held EXCEPT ![t] = @ \cup {[fd |-> file, obj |-> arg[t].obj]}]
        /\ Return(t)
        /\ UNCHANGED <<volume, table, struck>>

(* SPIFFS_fstat and SPIFFS_fupdate_meta, which fails on a read-only file. *)
OpenMeta(t) ==
    LET file == table[arg[t].fd]
    IN  /\ At(t, "openMeta")
        /\ errCode' = IF ~IsOpen(file) THEN "negative"
                      ELSE IF ~slot[file].write THEN "errno" ELSE errCode
        /\ held' = [held EXCEPT ![t] = @ \cup {[fd |-> arg[t].fd, obj |-> arg[t].obj]}]
        /\ Return(t)
        /\ UNCHANGED <<volume, table, struck>>

-----------------------------------------------------------------------------
(* vfs_spiffs_read, vfs_spiffs_write, vfs_spiffs_lseek, vfs_spiffs_fstat:  *)
(* at the end of the file, without the right or on a full flash they leave *)
(* an error, though they may succeed.                                      *)
Use(t) ==
    /\ At(t, "idle")
    /\ \E h \in held[t] :
          errCode' \in IF IsOpen(table[h.fd]) THEN Code ELSE {"negative"}
    /\ UNCHANGED <<volume, table, held, pc, arg, struck>>

-----------------------------------------------------------------------------
(* vfs_spiffs_close *)

Closing(t, h) ==
    /\ At(t, "idle")
    /\ held' = [held EXCEPT ![t] = @ \ {h}]
    /\ arg' = [arg EXCEPT ![t] = Args(None, FALSE, h.fd)]

(* Faulty variant: the file stays open. *)
CloseForgets(t) ==
    \E h \in held[t] :
        /\ IsOpen(table[h.fd]) /\ Closing(t, h)
        /\ Goto(t, "closeRemove")
        /\ UNCHANGED <<volume, errCode, table, struck>>

CloseFile(t) ==
    \E h \in held[t] :
        /\ IsOpen(table[h.fd]) /\ Closing(t, h)
        /\ slot' = [slot EXCEPT ![table[h.fd]] = Closed]
        /\ Goto(t, "closeRemove")
        /\ UNCHANGED <<dir, errCode, table, struck>>

CloseFails(t) ==
    \E h \in held[t] :
        /\ ~IsOpen(table[h.fd]) /\ Closing(t, h)
        /\ errCode' = "negative" /\ Goto(t, "closeResult")
        /\ UNCHANGED <<volume, table, struck>>

(* An error that stays negative keeps the entry, for ever. *)
CloseResult(t) ==
    /\ At(t, "closeResult")
    /\ IF errCode = "negative" THEN Return(t)
                               ELSE Goto(t, "closeRemove") /\ UNCHANGED arg
    /\ UNCHANGED <<volume, errCode, table, held, struck>>

CloseRemove(t) ==
    /\ At(t, "closeRemove") /\ Return(t)
    /\ table' = [table EXCEPT ![arg[t].fd] = None]
    /\ UNCHANGED <<volume, errCode, held, struck>>

-----------------------------------------------------------------------------
(* vfs_spiffs_unlink and vfs_spiffs_rename *)

UnlinkIsDir(t) ==
    /\ At(t, "idle") /\ Goto(t, "unlinkOpen")
    /\ \E n \in Names : arg' = [arg EXCEPT ![t] = Args(n, FALSE, None)]
    /\ errCode' = "negative"
    /\ UNCHANGED <<volume, table, held, struck>>

UnlinkOpen(t) ==
    LET o == dir[arg[t].name]
    IN  /\ At(t, "unlinkOpen") /\ o # None
        /\ \E s \in Free :
              /\ slot' = [slot EXCEPT ![s] = [obj |-> o, write |-> TRUE]]
              /\ arg' = [arg EXCEPT ![t].file = s, ![t].obj = o]
        /\ Goto(t, "unlinkRemove")
        /\ UNCHANGED <<dir, errCode, table, held, struck>>

UnlinkFails(t) ==
    /\ At(t, "unlinkOpen") /\ Return(t)
    /\ \/ Free = {} /\ errCode' = "negative"
       \/ Free # {} /\ dir[arg[t].name] = None /\ errCode' = "errno"
    /\ UNCHANGED <<volume, table, held, struck>>

(* Faulty variant: the name is looked up again. *)
UnlinkByName(t) ==
    LET o == dir[arg[t].name]
    IN  /\ At(t, "unlinkRemove") /\ Goto(t, "unlinkClose")
        /\ dir' = [n \in Names |-> IF dir[n] = o THEN None ELSE dir[n]]
        /\ slot' = [s \in Slots |-> IF slot[s].obj = o THEN Closed ELSE slot[s]]
        /\ UNCHANGED <<errCode, table, held, arg, struck>>

(* SPIFFS_fremove closes every descriptor of the object: its own, and      *)
(* those of calls that opened the same file.  Only a number that means     *)
(* another file by now lacks the right.                                    *)
UnlinkRemove(t) ==
    LET file == arg[t].file
        o == slot[file].obj
    IN  /\ At(t, "unlinkRemove") /\ Goto(t, "unlinkClose")
        /\ IF slot[file].write
             THEN /\ dir' = [n \in Names |-> IF dir[n] = o THEN None ELSE dir[n]]
                  /\ slot' = [s \in Slots |-> IF slot[s].obj = o THEN Closed ELSE slot[s]]
                  /\ struck' = (struck \/ \E s \in Slots \ {file} : slot[s].obj = o)
                  /\ UNCHANGED errCode
             ELSE /\ errCode' = IF IsOpen(file) THEN "errno" ELSE "negative"
                  /\ UNCHANGED <<volume, struck>>
        /\ UNCHANGED <<table, held, arg>>

(* SPIFFS_close of the number that fremove has given back already: if it   *)
(* is open, it is another call's.                                          *)
UnlinkClose(t) ==
    LET file == arg[t].file
    IN  /\ At(t, "unlinkClose") /\ Return(t)
        /\ slot' = [slot EXCEPT ![file] = Closed]
        /\ struck' = (struck \/ IsOpen(file))
        /\ errCode' = IF IsOpen(file) THEN errCode ELSE "negative"
        /\ UNCHANGED <<dir, table, held>>

Rename(t) ==
    /\ At(t, "idle") /\ Free # {}
    /\ \E old, new \in Names :
          /\ dir[old] # None /\ dir[new] = None
          /\ dir' = [dir EXCEPT ![old] = None, ![new] = dir[old]]
    /\ UNCHANGED <<slot, errCode, table, held, pc, arg, struck>>

RenameFails(t) ==
    /\ At(t, "idle")
    /\ errCode' \in {"errno", "negative"}
    /\ UNCHANGED <<volume, table, held, pc, arg, struck>>

Open(t) == \/ OpenAdd(t) \/ OpenStat(t) \/ OpenIsDir(t) \/ OpenExisting(t)
           \/ OpenCreates(t) \/ OpenFails(t) \/ OpenResult(t) \/ OpenMeta(t)
Close(t) == CloseFile(t) \/ CloseFails(t) \/ CloseResult(t) \/ CloseRemove(t)
Unlink(t) == \/ UnlinkIsDir(t) \/ UnlinkOpen(t) \/ UnlinkFails(t)
             \/ UnlinkRemove(t) \/ UnlinkClose(t)

Next == \E t \in Tasks : \/ Open(t) \/ Use(t) \/ Close(t) \/ Unlink(t)
                         \/ Rename(t) \/ RenameFails(t)

Spec == Init /\ [][Next]_vars

-----------------------------------------------------------------------------
(* Properties *)

Pc == {"idle", "openStat", "openIsDir", "openFile", "openResult", "openMeta",
       "closeResult", "closeRemove", "unlinkOpen", "unlinkRemove", "unlinkClose"}

TypeOK ==
    /\ dir \in [Names -> Objs \cup {None}]
    /\ slot \in [Slots -> [obj : Objs \cup {None}, write : BOOLEAN]]
    /\ errCode \in Code
    /\ table \in [Fds -> Slots \cup {NoFile, None}]
    /\ held \in [Tasks -> SUBSET [fd : Fds, obj : Objs \cup {None}]]
    /\ pc \in [Tasks -> Pc]
    /\ arg \in [Tasks -> [name : Names \cup {None}, write : BOOLEAN, fd : Fds \cup {None},
                          file : Slots \cup {NoFile}, obj : Objs \cup {None}]]
    /\ struck \in BOOLEAN

(* A descriptor that vfs_spiffs_open gave for a file stands for that file   *)
(* until its task closes it; nothing but an unlink that closes a number     *)
(* another call is using takes it away.                                    *)
HeldStaysOpen ==
    ~struck => \A t \in Tasks : \A h \in held[t] :
        h.obj # None => IsOpen(table[h.fd]) /\ slot[table[h.fd]].obj = h.obj

(* An open SPIFFS file is that of one descriptor or of one unlink, until   *)
(* an unlink strikes: none is lost by vfs_spiffs_close, vfs_spiffs_unlink  *)
(* or a failing open.                                                      *)
BeingRemoved(fd) == \E t \in Tasks : pc[t] = "closeRemove" /\ arg[t].fd = fd
Users(s) == {fd \in Fds : table[fd] = s /\ ~BeingRemoved(fd)}
            \cup {t \in Tasks : pc[t] = "unlinkRemove" /\ arg[t].file = s}
SlotsAccounted ==
    ~struck => \A s \in Slots : IsOpen(s) => \E user \in Fds \cup Tasks : Users(s) = {user}

(* An object is deleted by the unlink that looked it up and by no other,   *)
(* as long as no unlink has closed a number another call was using.        *)
Exists(o) == \E n \in Names : dir[n] = o
DeletedByOwn ==
    \A o \in Objs : Exists(o) /\ ~Exists(o)'
        => \E t \in Tasks : pc[t] = "unlinkRemove" /\ arg[t].obj = o
UnlinkRemovesOwn == [][~struck => DeletedByOwn]_vars

(* What spiffs.h says of the number given to SPIFFS_fremove, that it is    *)
(* "the filehandle of the file to remove": the file removed is always the  *)
(* one that was looked up.                                                 *)
AlwaysRemovesOwn == [][DeletedByOwn]_vars

=============================================================================
