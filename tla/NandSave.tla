------------------------------ MODULE NandSave ------------------------------
(***************************************************************************)
(* The system save file and its write shadow: NANDOpen, NANDClose,         *)
(* NANDWrite, NANDCreate and NANDDelete (hle/storage/nand_api.cpp),        *)
(* NANDSafeOpen, NANDSafeClose and CommitAndCloseFd (nand_async.cpp), and  *)
(* the probe of reading opens (nand_save_probe.h).                         *)
(*                                                                         *)
(* A handler never switches fibers, so only a crash comes between two of   *)
(* its host calls: `op' is the handler in progress, one step per host call *)
(* that changes the disk.  The host keeps, beside what the program sees,   *)
(* what a crash may leave: `older' are the directories not yet superseded  *)
(* on disk, and disk[i][b] the versions block b of file i may hold.        *)
(***************************************************************************)
EXTENDS Naturals, FiniteSets

CONSTANTS
    Worlds,      \* hosts and guests: which host ("posix", "fat" for the
                 \* Switch's card, "win32"), which of its calls may fail for
                 \* reasons of their own, what the guest does, on which infos
    Infos,       \* the guest's NANDFileInfo structures
    NumInodes,   \* files the host can hold, those only a crash shows included
    NumBlocks,   \* parts of the save that the guest writes separately
    MaxVersion,  \* bound on the writes of a behaviour
    MaxOlder     \* bound on the directories that a crash may bring back

Inodes == 1 .. NumInodes
NoInode == 0
Blocks == 1 .. NumBlocks
Versions == 0 .. MaxVersion
Names == {"save", "temp"}

Hosts == {"posix", "fat", "win32"}
HostCalls == {"inspect", "remove", "copy", "open", "flush", "rename", "dirsync"}
GuestActs == {"read", "plain", "safe", "create", "delete", "retry", "careful"}

ASSUME NandAssumption ==
    /\ Worlds \subseteq [host : Hosts, fails : SUBSET HostCalls,
                        does : SUBSET GuestActs, infos : SUBSET Infos]
    /\ NumInodes \in Nat \ {0}
    /\ NumBlocks \in Nat \ {0}
    /\ MaxVersion \in Nat \ {0}
    /\ MaxOlder \in Nat \ {0}

VARIABLES
    dir,       \* name -> inode: the directory as the program sees it
    older,     \* directories that a crash may bring back
    data,      \* inode -> contents as the program sees them
    disk,      \* inode -> block -> versions that a crash may leave
    handle,    \* NANDFileInfo -> its entry of g_fileHandles
    flag,      \* NANDFileInfo -> openFlag
    created,   \* g_savesCreatedThisSession holds the save
    probe,     \* what the last reading open of this session told the guest
    op,        \* the handler in progress
    version,   \* number of writes so far
    promised,  \* contents of the save that the guest may find after a crash
    failed,    \* infos whose close reported a failure since they were opened
    world      \* the host and the guest, one of Worlds

host == <<dir, older, data, disk>>
guest == <<handle, flag, created, probe>>
ghosts == <<version, promised, failed, world>>
vars == <<dir, older, data, disk, handle, flag, created, probe, op, version,
          promised, failed, world>>

\* Contents of a file: a version for each block, 0 for zero bytes.
Blank == [b \in Blocks |-> 0]
Missing == << >>
Contents == [Blocks -> Versions]

NoHandle == [inode |-> NoInode, commit |-> FALSE, write |-> FALSE]
Handles == [inode : Inodes, commit : BOOLEAN, write : BOOLEAN] \cup {NoHandle}

Flags == {"none", "open", "closed", "safeOpen", "safeClosed"}
OpenSteps == {"discard", "copy", "fopen", "drop", "inPlace"}
CloseSteps == {"flush", "rename", "unlink", "rename2", "dirsync", "dropShadow"}
Idle == [step |-> "idle"]
Ops == {Idle} \cup [step : OpenSteps, info : Infos, safe : BOOLEAN]
              \cup [step : CloseSteps, info : Infos, safe : BOOLEAN,
                    inode : Inodes, commit : BOOLEAN,
                    before : Contents \cup {Missing}]

Visible(n) == IF dir[n] = NoInode THEN Missing ELSE data[dir[n]]

\* What a crash may leave: one of the directories, and under its names one
\* of the contents the disk may hold.
OnDisk == older \cup {dir}
Left(d, n) ==
    IF d[n] = NoInode THEN {Missing}
    ELSE {c \in Contents : \A b \in Blocks : c[b] \in disk[d[n]][b]}

(***************************************************************************)
(* Host files.                                                             *)
(***************************************************************************)
\* Files with a FILE* open on them; FlushFileToDisk runs before fclose.
OpenFiles ==
    {handle[i].inode : i \in Infos}
        \cup (IF op.step = "flush" THEN {op.inode} ELSE {})

UsedInodes == OpenFiles \cup UNION {{d[n] : n \in Names} : d \in OnDisk}

FreeInodes == Inodes \ UsedInodes
FreshInode == CHOOSE i \in FreeInodes : \A j \in FreeInodes : i <= j

Does(act) == act \in world.does
MayFail(call) == call \in world.fails

\* Only a POSIX host removes or replaces a file that is open.
Removable(n) ==
    /\ dir[n] # NoInode
    /\ world.host = "posix" \/ dir[n] \notin OpenFiles

\* A change of the directory that a crash may still undo.
Relinked(d) ==
    /\ Cardinality(older) < MaxOlder
    /\ dir' = d
    /\ older' = older \cup {dir}

\* std::filesystem::remove.
Removed(n) ==
    /\ Removable(n)
    /\ Relinked([dir EXCEPT ![n] = NoInode])

Filled(i, contents) ==
    /\ data' = [data EXCEPT ![i] = contents]
    /\ disk' = [disk EXCEPT ![i] = [b \in Blocks |-> {0, contents[b]}]]

\* A new file under a name that has none; its bytes are not on disk yet.
CreatedFile(n, contents) ==
    /\ FreeInodes # {}
    /\ Relinked([dir EXCEPT ![n] = FreshInode])
    /\ Filled(FreshInode, contents)

\* fsync or _commit: what the program sees is what a crash leaves.
Synced_Nothing(i) == disk
Synced(i) == [disk EXCEPT ![i] = [b \in Blocks |-> {data[i][b]}]]

\* Directory d is on disk: the older ones are gone, and the files with them
\* that nothing else refers to.
Settled(d, onDisk) ==
    LET kept == OpenFiles \cup {d[n] : n \in Names}
    IN  /\ older' = {}
        /\ data' = [i \in Inodes |-> IF i \in kept THEN data[i] ELSE Blank]
        /\ disk' = [i \in Inodes |-> IF i \in kept THEN onDisk[i]
                                     ELSE [b \in Blocks |-> {0}]]

Renamed_KeepsTemp == [dir EXCEPT !["save"] = dir["temp"]]
Renamed == [dir EXCEPT !["save"] = dir["temp"], !["temp"] = NoInode]

\* Whether rename (MoveFileEx on Windows) can replace the save by the shadow.
Replaceable ==
    /\ dir["temp"] # NoInode
    /\ \/ world.host = "posix"
       \/ dir["save"] = NoInode
       \/ world.host = "win32" /\ dir["save"] \notin OpenFiles

(***************************************************************************)
(* Opening.                                                                *)
(***************************************************************************)
Nonzero(n) == Visible(n) \notin {Missing, Blank}

\* A blank or absent save is not called missing while the shadow has data.
CheckRead_IgnoresShadow ==
    CASE Nonzero("save") -> "proceed"
      [] Visible("save") = Blank -> "missing"
      [] OTHER -> "proceed"

CheckRead ==
    CASE Nonzero("save") -> "proceed"
      [] ~ Nonzero("save") /\ Nonzero("temp") -> "recovery"
      [] Visible("save") = Blank /\ ~ Nonzero("temp") -> "missing"
      [] OTHER -> "proceed"

CreateMayReplace == CheckRead = "missing"

\* What a reading open tells the guest; "ok" is an open file.
ReadAnswer ==
    CASE CheckRead = "recovery" -> "error"
      [] CheckRead = "missing" -> IF created THEN "ok" ELSE "missing"
      [] OTHER -> IF Visible("save") = Missing THEN "missing" ELSE "ok"

IsHostPathOpen == \E i \in Infos : handle[i] # NoHandle

Opened(i, h, f) ==
    /\ handle' = [handle EXCEPT ![i] = h]
    /\ flag' = [flag EXCEPT ![i] = f]
    /\ failed' = failed \ {i}

OpenFlag(safe) == IF safe THEN "safeOpen" ELSE "open"
ClosedFlag(safe) == IF safe THEN "safeClosed" ELSE "closed"

\* The guest reuses a NANDFileInfo only when no handle is behind it.
MayOpen(i) == op = Idle /\ i \in world.infos /\ handle[i] = NoHandle

OpensForReading(i, safe) ==
    /\ MayOpen(i)
    /\ Does("read")
    /\ safe => Does("safe")
    /\ \/ /\ probe' = ReadAnswer
          /\ IF ReadAnswer = "ok"
             THEN Opened(i, [inode |-> dir["save"], commit |-> FALSE, write |-> FALSE],
                         OpenFlag(safe))
             ELSE UNCHANGED <<handle, flag, failed>>
       \/ /\ MayFail("inspect")
          /\ probe' = "error"
          /\ UNCHANGED <<handle, flag, failed>>
    /\ UNCHANGED <<host, created, op, version, world, promised>>

\* A careful guest writes only a save that it has read, or created because
\* reading said there was none; any other answer is shown to the player.
MayWrite == Does("careful") => probe = "ok" \/ created
MayCreate == Does("careful") => probe = "missing"

\* NANDOpen in a writing mode: through a shadow unless the save is missing
\* or open already.
NANDOpen(i) ==
    /\ MayOpen(i)
    /\ Does("plain")
    /\ MayWrite
    /\ op' = [step |-> IF Visible("save") # Missing /\ ~ IsHostPathOpen
                       THEN "discard" ELSE "inPlace",
              info |-> i, safe |-> FALSE]
    /\ UNCHANGED <<host, guest, ghosts>>

\* NANDSafeOpen in a writing mode never creates the save.
NANDSafeOpen(i) ==
    /\ MayOpen(i)
    /\ Does("safe")
    /\ MayWrite
    /\ Visible("save") # Missing
    /\ op' = [step |-> "discard", info |-> i, safe |-> TRUE]
    /\ UNCHANGED <<host, guest, ghosts>>

\* Without a shadow a safe open fails and a plain one writes in place.
WithoutShadow == IF op.safe THEN Idle ELSE [op EXCEPT !.step = "inPlace"]

\* DiscardStaleSafeTemp.
DiscardStep ==
    /\ op.step = "discard"
    /\ \/ /\ dir["temp"] = NoInode
          /\ op' = [op EXCEPT !.step = "copy"]
          /\ UNCHANGED <<dir, older>>
       \/ /\ Removed("temp")
          /\ op' = [op EXCEPT !.step = "copy"]
       \/ /\ dir["temp"] # NoInode
          /\ MayFail("remove") \/ ~ Removable("temp")
          /\ op' = WithoutShadow
          /\ UNCHANGED <<dir, older>>
    /\ UNCHANGED <<data, disk, guest, ghosts>>

\* copy_file, or NandCopyFileBytes where the host lacks it.
CopyStep ==
    /\ op.step = "copy"
    /\ \/ /\ CreatedFile("temp", Visible("save"))
          /\ op' = [op EXCEPT !.step = "fopen"]
       \/ /\ MayFail("copy")
          /\ CreatedFile("temp", Blank)
          /\ op' = [op EXCEPT !.step = "drop"]
    /\ UNCHANGED <<guest, ghosts>>

FopenStep ==
    /\ op.step = "fopen"
    /\ \/ /\ Opened(op.info, [inode |-> dir["temp"], commit |-> TRUE, write |-> TRUE],
                    OpenFlag(op.safe))
          /\ op' = Idle
       \/ /\ MayFail("open")
          /\ op' = [op EXCEPT !.step = "drop"]
          /\ UNCHANGED <<handle, flag, failed>>
    /\ UNCHANGED <<host, created, probe, version, world, promised>>

\* NandRemove of the shadow; its result is ignored.
Dropped ==
    \/ Removed("temp")
    \/ /\ MayFail("remove") \/ ~ Removable("temp")
       /\ UNCHANGED <<dir, older>>

DropStep ==
    /\ op.step = "drop"
    /\ Dropped
    /\ op' = WithoutShadow
    /\ UNCHANGED <<data, disk, guest, ghosts>>

\* fopen "r+b", then "w+b", which creates a missing file and empties one
\* that "r+b" could not open.
InPlaceStep ==
    /\ op.step = "inPlace"
    /\ op' = Idle
    /\ \/ /\ dir["save"] # NoInode
          /\ Opened(op.info, [inode |-> dir["save"], commit |-> FALSE, write |-> TRUE], "open")
          /\ UNCHANGED host
       \/ /\ dir["save"] = NoInode
          /\ CreatedFile("save", Blank)
          /\ Opened(op.info, [inode |-> FreshInode, commit |-> FALSE, write |-> TRUE], "open")
       \/ /\ dir["save"] # NoInode
          /\ MayFail("open")
          /\ data' = [data EXCEPT ![dir["save"]] = Blank]
          /\ disk' = [disk EXCEPT ![dir["save"]] = [b \in Blocks |-> @[b] \cup {0}]]
          /\ Opened(op.info, [inode |-> dir["save"], commit |-> FALSE, write |-> TRUE], "open")
          /\ UNCHANGED <<dir, older>>
       \/ /\ MayFail("open")
          /\ UNCHANGED <<host, handle, flag, failed>>
    /\ promised' = Contents \cup {Missing}
    /\ UNCHANGED <<created, probe, version, world>>

(***************************************************************************)
(* Writing, creating and deleting.                                         *)
(***************************************************************************)
NANDWrite(i, b) ==
    /\ op = Idle
    /\ handle[i].write
    /\ version < MaxVersion
    /\ version' = version + 1
    /\ data' = [data EXCEPT ![handle[i].inode][b] = version']
    /\ disk' = [disk EXCEPT ![handle[i].inode][b] = @ \cup {version'}]
    /\ UNCHANGED <<dir, older, guest, op, promised, failed, world>>

\* NANDCreate: a save that reading calls missing is emptied, not refused.
NANDCreate ==
    /\ op = Idle
    /\ Does("create")
    /\ MayCreate
    /\ \/ dir["save"] = NoInode /\ CreatedFile("save", Blank)
       \/ /\ dir["save"] # NoInode
          /\ CreateMayReplace
          /\ UNCHANGED host
    /\ created' = TRUE
    /\ promised' = promised \cup {Blank}
    /\ UNCHANGED <<handle, flag, probe, op, version, world, failed>>

NANDDelete ==
    /\ op = Idle
    /\ Does("delete")
    /\ Removed("save")
    /\ promised' = promised \cup {Missing}
    /\ UNCHANGED <<data, disk, guest, op, version, world, failed>>

(***************************************************************************)
(* Closing: CommitAndCloseFd.                                              *)
(***************************************************************************)
\* The entry of g_fileHandles goes first; only writable files are flushed.
Retire(i, safe) ==
    /\ handle' = [handle EXCEPT ![i] = NoHandle]
    /\ IF handle[i].write
       THEN /\ op' = [step |-> "flush", info |-> i, safe |-> safe,
                      inode |-> handle[i].inode, commit |-> handle[i].commit,
                      before |-> Visible("save")]
            /\ UNCHANGED flag
       ELSE /\ flag' = [flag EXCEPT ![i] = ClosedFlag(safe)]
            /\ UNCHANGED op
    /\ UNCHANGED <<host, created, probe, ghosts>>

NANDClose(i) ==
    /\ op = Idle
    /\ flag[i] = "open"
    /\ handle[i] # NoHandle
    /\ Retire(i, FALSE)

\* NANDSafeClose hands a plain handle to NANDClose.
NANDSafeClose(i) ==
    /\ op = Idle
    /\ flag[i] = "safeOpen"
    /\ handle[i] # NoHandle
    /\ Retire(i, TRUE)

\* A second NANDClose after one that failed finds no entry: missingFdIsError
\* is false there, so it reports success.  NANDSafeClose reports the error.
MissingFdIsError_Never(safe) == FALSE
MissingFdIsError(safe) == safe

RetryClose(i) ==
    /\ op = Idle
    /\ Does("retry")
    /\ flag[i] \in {"open", "safeOpen"}
    /\ handle[i] = NoHandle
    /\ ~ MissingFdIsError(flag[i] = "safeOpen")
    /\ flag' = [flag EXCEPT ![i] = ClosedFlag(flag[i] = "safeOpen")]
    /\ UNCHANGED <<host, handle, created, probe, op, ghosts>>

CloseReturns(ok) ==
    /\ op' = Idle
    /\ flag' = IF ok THEN [flag EXCEPT ![op.info] = ClosedFlag(op.safe)] ELSE flag
    /\ failed' = IF ok THEN failed ELSE failed \cup {op.info}
    /\ UNCHANGED <<handle, created, probe, version, world>>

Goes(step) ==
    /\ op' = [op EXCEPT !.step = step]
    /\ UNCHANGED <<guest, version, world, failed>>

FlushStep ==
    /\ op.step = "flush"
    /\ \/ /\ disk' = Synced(op.inode)
          /\ IF op.commit
             THEN /\ Goes("rename")
                  /\ promised' = promised \cup {data[op.inode]}
             ELSE CloseReturns(TRUE) /\ UNCHANGED promised
       \/ /\ MayFail("flush")
          /\ IF op.commit THEN Goes("dropShadow") ELSE CloseReturns(FALSE)
          /\ UNCHANGED <<disk, promised>>
    /\ UNCHANGED <<dir, older, data>>

\* After a failed rename: remove the save and try again, where it exists.
AfterFailedRename_OnEveryHost == IF dir["save"] # NoInode THEN "unlink" ELSE "dropShadow"
AfterFailedRename ==
    IF world.host # "win32" /\ dir["save"] # NoInode THEN "unlink" ELSE "dropShadow"

\* AtomicReplaceHostFile.  MoveFileEx writes through; elsewhere the directory
\* is synced afterwards.
RenameStep ==
    /\ op.step = "rename"
    /\ \/ /\ Replaceable
          /\ IF world.host = "win32"
             THEN /\ dir' = Renamed
                  /\ Settled(Renamed, disk)
                  /\ CloseReturns(TRUE)
                  /\ promised' = {data[dir["temp"]]}
             ELSE /\ Relinked(Renamed)
                  /\ Goes("dirsync")
                  /\ UNCHANGED <<data, disk, promised>>
       \/ /\ MayFail("rename") \/ ~ Replaceable
          /\ Goes(AfterFailedRename)
          /\ UNCHANGED <<host, promised>>

UnlinkStep ==
    /\ op.step = "unlink"
    /\ \/ Removed("save") /\ Goes("rename2")
       \/ /\ MayFail("remove") \/ ~ Removable("save")
          /\ Goes("dropShadow")
          /\ UNCHANGED <<dir, older>>
    /\ UNCHANGED <<data, disk, promised>>

SecondRenameStep ==
    /\ op.step = "rename2"
    /\ \/ /\ Replaceable
          /\ Relinked(Renamed)
          /\ Goes("dirsync")
       \/ /\ MayFail("rename") \/ ~ Replaceable
          /\ Goes("dropShadow")
          /\ UNCHANGED <<dir, older>>
    /\ UNCHANGED <<data, disk, promised>>

DirSyncStep_Forgotten ==
    /\ op.step = "dirsync"
    /\ CloseReturns(TRUE)
    /\ UNCHANGED <<host, promised>>

\* A directory that cannot be opened or synced is not reported.
DirSyncStep ==
    /\ op.step = "dirsync"
    /\ CloseReturns(TRUE)
    /\ \/ Settled(dir, disk) /\ promised' = {Visible("save")}
       \/ MayFail("dirsync") /\ UNCHANGED <<older, data, disk, promised>>
    /\ UNCHANGED dir

DropShadowStep ==
    /\ op.step = "dropShadow"
    /\ Dropped
    /\ CloseReturns(FALSE)
    /\ UNCHANGED <<data, disk, promised>>

(***************************************************************************)
(* The environment.                                                        *)
(***************************************************************************)
\* The host writes everything back on its own.
HostWritesBack ==
    /\ Settled(dir, [i \in Inodes |-> [b \in Blocks |-> {data[i][b]}]])
    /\ <<older', disk'>> # <<older, disk>>
    /\ UNCHANGED <<dir, guest, op, ghosts>>

\* The machine stops and the program starts again on what the disk holds.
Crash ==
    \E d \in OnDisk :
        \E save \in Left(d, "save"), temp \in Left(d, "temp") :
            /\ dir' = d
            /\ older' = {}
            /\ data' = [i \in Inodes |-> CASE i = d["save"] -> save
                                           [] i = d["temp"] -> temp
                                           [] OTHER -> Blank]
            /\ disk' = [i \in Inodes |-> [b \in Blocks |-> {data'[i][b]}]]
            /\ handle' = [i \in Infos |-> NoHandle]
            /\ flag' = [i \in Infos |-> "none"]
            /\ created' = FALSE
            /\ probe' = "unread"
            /\ op' = Idle
            /\ failed' = {}
            /\ promised' = {save}
            /\ UNCHANGED <<version, world>>

-----------------------------------------------------------------------------

\* The program starts with a save, with a blank one, or with none.
Init ==
    /\ dir \in {[save |-> 1, temp |-> NoInode], [save |-> NoInode, temp |-> NoInode]}
    /\ older = {}
    /\ version \in {0, 1}
    /\ data = [i \in Inodes |-> IF i = 1 /\ version = 1 THEN [b \in Blocks |-> 1] ELSE Blank]
    /\ disk = [i \in Inodes |-> [b \in Blocks |-> {data[i][b]}]]
    /\ handle = [i \in Infos |-> NoHandle]
    /\ flag = [i \in Infos |-> "none"]
    /\ created = FALSE
    /\ probe = "unread"
    /\ op = Idle
    /\ promised = {Visible("save")}
    /\ failed = {}
    /\ world \in Worlds

Next ==
    \/ \E i \in Infos, safe \in BOOLEAN : OpensForReading(i, safe)
    \/ \E i \in Infos : NANDOpen(i) \/ NANDSafeOpen(i)
    \/ DiscardStep \/ CopyStep \/ FopenStep \/ DropStep \/ InPlaceStep
    \/ \E i \in Infos, b \in Blocks : NANDWrite(i, b)
    \/ NANDCreate \/ NANDDelete
    \/ \E i \in Infos : NANDClose(i) \/ NANDSafeClose(i) \/ RetryClose(i)
    \/ FlushStep \/ RenameStep \/ UnlinkStep \/ SecondRenameStep \/ DirSyncStep
    \/ DropShadowStep
    \/ HostWritesBack
    \/ Crash

Spec == Init /\ [][Next]_vars

-----------------------------------------------------------------------------

TypeOK ==
    /\ dir \in [Names -> Inodes \cup {NoInode}]
    /\ dir["save"] = dir["temp"] => dir["save"] = NoInode
    /\ older \subseteq [Names -> Inodes \cup {NoInode}]
    /\ data \in [Inodes -> Contents]
    /\ disk \in [Inodes -> [Blocks -> SUBSET Versions]]
    /\ \A i \in Inodes, b \in Blocks : data[i][b] \in disk[i][b]
    /\ handle \in [Infos -> Handles]
    /\ flag \in [Infos -> Flags]
    /\ created \in BOOLEAN
    /\ probe \in {"unread", "ok", "missing", "error"}
    /\ op \in Ops
    /\ version \in Versions
    /\ promised \subseteq Contents \cup {Missing}
    /\ failed \subseteq Infos

\* A crash at any moment leaves the save with contents that were committed:
\* those of the last close that succeeded or, while a close is publishing its
\* shadow, the new ones.  Never torn or partial, and never gone unless the
\* guest deleted it (AtomicReplaceHostFile and the shadow of NANDOpen).  Where
\* the save has to be removed before the shadow takes its name, a crash that
\* leaves no save leaves the whole of the shadow.
CrashLeavesSaveOrShadow ==
    \A d \in OnDisk : \/ Left(d, "save") \subseteq promised
                      \/ /\ world.host = "fat"
                         /\ d["save"] = NoInode
                         /\ Left(d, "temp") \subseteq promised

\* What a commit has reported as saved is not undone by a crash: no directory that
\* the disk may still have names another file ("so the rename itself survives a
\* crash", nand_async.cpp:299), unless the sync of the directory may fail, which
\* the code does not look at.
ReportedRenameSurvives ==
    [][/\ op.step \in CloseSteps
       /\ op.commit
       /\ flag'[op.info] = ClosedFlag(op.safe)
       /\ ~ MayFail("dirsync")
       => \A d \in OnDisk' : d["save"] = op.inode]_vars

\* A commit that reports a failure has left the original exactly as it was
\* (CommitAndCloseFd).
FailedCloseLeavesOriginal ==
    [][\A i \in failed' \ failed : op.commit => Visible("save")' = op.before]_vars

\* A NANDSafeClose never reports success after an earlier one of the same
\* handle failed and dropped what was written.
SafeOkMeansSaved == \A i \in failed : flag[i] # "safeClosed"

\* While the save is missing or blank and the shadow of an earlier session
\* holds data, a guest that heeds what reading tells it never makes the program
\* destroy that data (RecoveryNeeded in nand_save_probe.h).
RecoverySourceKept ==
    [][/\ Does("careful")
       /\ ~ Nonzero("save")
       /\ Nonzero("temp")
       /\ op.step \notin CloseSteps
       /\ dir["temp"] \notin OpenFiles
       => \/ Visible("temp")' = Visible("temp")
          \/ Crash]_vars

=============================================================================
