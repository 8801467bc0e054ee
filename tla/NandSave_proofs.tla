--------------------------- MODULE NandSave_proofs ---------------------------
(***************************************************************************)
(* Proofs about the system save file and its shadow.                       *)
(***************************************************************************)
EXTENDS NandSave, LeastNumber

Directories == [Names -> Inodes \cup {NoInode}]
OpenOps == [step : OpenSteps, info : Infos, safe : BOOLEAN]
CloseOps == [step : CloseSteps, info : Infos, safe : BOOLEAN, inode : Inodes,
             commit : BOOLEAN, before : Contents \cup {Missing}]

\* No directory names one file twice.
Distinct(d) == d["save"] = d["temp"] => d["save"] = NoInode

\* The host's half of the type invariant, with every directory that a crash
\* may bring back.
HostOK ==
    /\ dir \in Directories
    /\ older \subseteq Directories
    /\ \A d \in OnDisk : Distinct(d)
    /\ data \in [Inodes -> Contents]
    /\ disk \in [Inodes -> [Blocks -> SUBSET Versions]]
    /\ \A i \in Inodes, b \in Blocks : data[i][b] \in disk[i][b]

\* The guest's half, and the handler in progress.
GuestOK ==
    /\ handle \in [Infos -> Handles]
    /\ flag \in [Infos -> Flags]
    /\ created \in BOOLEAN
    /\ probe \in {"unread", "ok", "missing", "error"}
    /\ version \in Versions
    /\ promised \subseteq Contents \cup {Missing}
    /\ failed \subseteq Infos
    /\ world \in Worlds

OpOK == op \in Ops

\* A handler that makes a shadow found the save; the shadow is there from the
\* copy until it is removed.
ShadowSteps == {"discard", "copy", "fopen", "drop"}
OpeningOK ==
    /\ op.step \in ShadowSteps => dir["save"] # NoInode
    /\ op.step \in {"fopen", "drop"} => dir["temp"] # NoInode

Typed == HostOK /\ GuestOK /\ OpOK /\ OpeningOK

-----------------------------------------------------------------------------
(***************************************************************************)
(* Facts about the model's operators.                                      *)
(***************************************************************************)

\* A handler in progress has the fields of its step.
LEMMA OpFields ==
    ASSUME OpOK
    PROVE  /\ op.step \in OpenSteps => op \in OpenOps
           /\ op.step \in CloseSteps => op \in CloseOps
           /\ op.step \notin OpenSteps \cup CloseSteps => op = Idle
BY DEF OpOK, Ops, OpenOps, CloseOps, OpenSteps, CloseSteps, Idle

\* The contents of a file are never mistaken for its absence.
LEMMA BlankIsNotMissing == Missing \notin Contents /\ Blank \in Contents
<1>1. 1 \in Blocks /\ 0 \in Versions
  BY NandAssumption DEF Blocks, Versions
<1>2. Blank \in Contents
  BY <1>1 DEF Blank, Contents
<1>3. Missing \notin Contents
  <2>1. SUFFICES ASSUME Missing \in Contents PROVE FALSE
    OBVIOUS
  <2>2. DOMAIN Missing = Blocks
    BY <2>1 DEF Contents
  <2>3. DOMAIN Missing = {}
    BY DEF Missing
  <2> QED
    BY <2>2, <2>3, <1>1
<1> QED
  BY <1>2, <1>3

\* A new file is one that nothing on the host refers to (the host never gives
\* two files the same inode).
LEMMA FreshIsFree ==
    ASSUME FreeInodes # {}
    PROVE  FreshInode \in FreeInodes
<1>1. FreeInodes \subseteq Nat
  BY NandAssumption DEF FreeInodes, Inodes
<1>2. \E i \in FreeInodes : \A j \in FreeInodes : i <= j
  BY <1>1, HasLeast
<1> QED
  BY <1>2 DEF FreshInode

\* A free file is in no directory and behind no handle.
LEMMA FreeIsUnused ==
    ASSUME NEW i \in FreeInodes
    PROVE  /\ i \in Inodes /\ i # NoInode
           /\ i \notin OpenFiles
           /\ \A d \in OnDisk : i # d["save"] /\ i # d["temp"]
BY NandAssumption DEF FreeInodes, UsedInodes, Inodes, Names, NoInode

\* What the program sees under a name that has a file.
LEMMA VisibleOK ==
    ASSUME HostOK, NEW n \in Names
    PROVE  /\ Visible(n) \in Contents \cup {Missing}
           /\ Visible(n) # Missing => /\ dir[n] \in Inodes
                                      /\ Visible(n) = data[dir[n]]
                                      /\ Visible(n) \in Contents
           /\ dir[n] # NoInode => dir[n] \in Inodes /\ Visible(n) = data[dir[n]]
                                  /\ Visible(n) # Missing
BY BlankIsNotMissing DEF HostOK, Visible, Directories

\* A reading open that succeeds has a file to open.
LEMMA ReadOpensFile ==
    ASSUME HostOK, ReadAnswer = "ok"
    PROVE  dir["save"] \in Inodes
<1>1. Visible("save") # Missing
  BY BlankIsNotMissing DEF ReadAnswer, CheckRead
<1> QED
  BY <1>1, VisibleOK DEF Names

\* A reading open answers one of three things.
LEMMA ReadAnswers == ReadAnswer \in {"ok", "missing", "error"}
BY DEF ReadAnswer

-----------------------------------------------------------------------------
(***************************************************************************)
(* What each change of the disk preserves.                                 *)
(***************************************************************************)

\* The half of HostOK about the contents of files.
FilesOK ==
    /\ data \in [Inodes -> Contents]
    /\ disk \in [Inodes -> [Blocks -> SUBSET Versions]]
    /\ \A i \in Inodes, b \in Blocks : data[i][b] \in disk[i][b]

\* The half about names.
DirsOK ==
    /\ dir \in Directories
    /\ older \subseteq Directories
    /\ \A d \in OnDisk : Distinct(d)

\* The host state, in two halves that change apart.
LEMMA HostHalves == HostOK <=> DirsOK /\ FilesOK
BY DEF HostOK, DirsOK, FilesOK

\* A change of the directory keeps the former one as a possible leftover.
LEMMA RelinkedOK ==
    ASSUME DirsOK, NEW d \in Directories, Distinct(d), Relinked(d)
    PROVE  DirsOK'
BY DEF DirsOK, Relinked, OnDisk, Distinct

\* Removing a name.
LEMMA RemovedOK ==
    ASSUME DirsOK, NEW n \in Names, Removed(n)
    PROVE  DirsOK' /\ dir' = [dir EXCEPT ![n] = NoInode]
<1> DEFINE d == [dir EXCEPT ![n] = NoInode]
<1>1. d \in Directories
  BY DEF DirsOK, Directories
<1>2. Distinct(d)
  BY DEF DirsOK, Directories, Distinct, OnDisk, Names
<1>3. Relinked(d)
  BY DEF Removed
<1> HIDE DEF d
<1>4. DirsOK' /\ dir' = d
  BY <1>1, <1>2, <1>3, RelinkedOK DEF Relinked
<1> QED
  BY <1>4 DEF d

\* Filling a file.
LEMMA FilledOK ==
    ASSUME FilesOK, NEW i \in Inodes, NEW c \in Contents, Filled(i, c)
    PROVE  FilesOK'
<1>0. 0 \in Versions
  BY NandAssumption DEF Versions
<1>1. data' \in [Inodes -> Contents]
  BY DEF FilesOK, Filled
<1>2. \A b \in Blocks : c[b] \in Versions
  BY DEF Contents
<1>3. [b \in Blocks |-> {0, c[b]}] \in [Blocks -> SUBSET Versions]
  BY <1>0, <1>2
<1>4. disk' \in [Inodes -> [Blocks -> SUBSET Versions]]
  BY <1>3 DEF FilesOK, Filled
<1>5. ASSUME NEW j \in Inodes, NEW b \in Blocks PROVE data'[j][b] \in disk'[j][b]
  <2>1. CASE j = i
    BY <2>1 DEF FilesOK, Filled
  <2>2. CASE j # i
    BY <2>2 DEF FilesOK, Filled
  <2> QED
    BY <2>1, <2>2
<1> QED
  BY <1>1, <1>4, <1>5 DEF FilesOK

\* Creating a file under a name that has none.
LEMMA CreatedOK ==
    ASSUME HostOK, NEW n \in Names, NEW c \in Contents,
           CreatedFile(n, c)
    PROVE  /\ HostOK'
           /\ FreshInode \in FreeInodes
           /\ dir' = [dir EXCEPT ![n] = FreshInode]
<1>1. FreshInode \in FreeInodes
  BY FreshIsFree DEF CreatedFile
<1>2. /\ FreshInode \in Inodes /\ FreshInode # NoInode
      /\ FreshInode # dir["save"] /\ FreshInode # dir["temp"]
  BY <1>1, FreeIsUnused DEF OnDisk
<1> DEFINE d == [dir EXCEPT ![n] = FreshInode]
<1>3. d \in Directories
  BY <1>2 DEF HostOK, Directories
<1>4. Distinct(d)
  BY <1>2 DEF HostOK, Directories, Distinct, Names
<1>5. Relinked(d) /\ Filled(FreshInode, c)
  BY DEF CreatedFile
<1>6. FilesOK'
  BY <1>2, <1>5, FilledOK, HostHalves
<1> HIDE DEF d
<1>7. DirsOK' /\ dir' = d
  BY <1>3, <1>4, <1>5, RelinkedOK, HostHalves DEF Relinked
<1>8. HostOK'
  BY <1>6, <1>7 DEF HostOK, FilesOK, DirsOK
<1> QED
  BY <1>1, <1>7, <1>8 DEF d

\* Once a directory is on disk the files that it or a handle refers to are
\* those of before.
LEMMA SettledOK ==
    ASSUME NEW d \in Directories, Distinct(d), dir' = d,
           NEW onDisk \in [Inodes -> [Blocks -> SUBSET Versions]],
           \A i \in Inodes, b \in Blocks : data[i][b] \in onDisk[i][b],
           FilesOK, Settled(d, onDisk)
    PROVE  /\ HostOK'
           /\ older' = {}
           /\ \A n \in Names : d[n] # NoInode =>
                 data'[d[n]] = data[d[n]] /\ disk'[d[n]] = onDisk[d[n]]
<1>0. 0 \in Versions
  BY NandAssumption DEF Versions
<1> DEFINE kept == OpenFiles \cup {d[n] : n \in Names}
<1>1. /\ data' = [i \in Inodes |-> IF i \in kept THEN data[i] ELSE Blank]
      /\ disk' = [i \in Inodes |-> IF i \in kept THEN onDisk[i]
                                   ELSE [b \in Blocks |-> {0}]]
      /\ older' = {}
  BY DEF Settled
<1>2. \A n \in Names : d[n] \in kept
  OBVIOUS
<1>3. \A n \in Names : d[n] # NoInode => d[n] \in Inodes
  BY DEF Directories
<1> HIDE DEF kept
<1>4. data' \in [Inodes -> Contents]
  BY <1>1, BlankIsNotMissing DEF FilesOK
<1>5. [b \in Blocks |-> {0}] \in [Blocks -> SUBSET Versions]
  BY <1>0
<1>6. disk' \in [Inodes -> [Blocks -> SUBSET Versions]]
  BY <1>1, <1>5
<1>7. ASSUME NEW i \in Inodes, NEW b \in Blocks PROVE data'[i][b] \in disk'[i][b]
  BY <1>1 DEF Blank
<1>8. FilesOK'
  BY <1>4, <1>6, <1>7 DEF FilesOK
<1>9. DirsOK'
  BY <1>1 DEF DirsOK, OnDisk
<1>10. HostOK'
  BY <1>8, <1>9 DEF HostOK, FilesOK, DirsOK
<1>11. \A n \in Names : d[n] # NoInode =>
          data'[d[n]] = data[d[n]] /\ disk'[d[n]] = onDisk[d[n]]
  BY <1>1, <1>2, <1>3
<1> QED
  BY <1>1, <1>10, <1>11

\* Every name or none of a directory that a rename has changed.
LEMMA RenamedOK ==
    ASSUME DirsOK, dir["temp"] # NoInode
    PROVE  /\ Renamed \in Directories
           /\ Distinct(Renamed)
           /\ Renamed["save"] = dir["temp"]
           /\ Renamed["temp"] = NoInode
BY DEF DirsOK, Directories, Renamed, Distinct, Names

-----------------------------------------------------------------------------
(***************************************************************************)
(* Type correctness.                                                       *)
(***************************************************************************)

\* A step that leaves the disk alone.
LEMMA HostSame ==
    ASSUME HostOK, UNCHANGED host
    PROVE  HostOK'
BY DEF HostOK, host, OnDisk, Distinct

\* A close that returns.
LEMMA CloseReturnsOK ==
    ASSUME GuestOK, OpOK, op \in CloseOps, NEW ok \in BOOLEAN, CloseReturns(ok),
           promised' \subseteq Contents \cup {Missing}
    PROVE  GuestOK' /\ OpOK' /\ OpeningOK'
<1>1. op.info \in Infos /\ ClosedFlag(op.safe) \in Flags
  BY DEF CloseOps, ClosedFlag, Flags
<1>2. op' \in Ops
  BY DEF CloseReturns, Ops
<1> QED
  BY <1>1, <1>2 DEF CloseReturns, GuestOK, OpOK, OpeningOK, ShadowSteps, Idle

\* A close that goes on.
LEMMA GoesOK ==
    ASSUME GuestOK, OpOK, op \in CloseOps, NEW step \in CloseSteps, Goes(step),
           promised' \subseteq Contents \cup {Missing}
    PROVE  GuestOK' /\ OpOK' /\ OpeningOK'
<1>0. op.step \in CloseSteps /\ step \notin ShadowSteps
  BY DEF CloseOps, CloseSteps, ShadowSteps
<1>1. op' \in CloseOps /\ op'.step = step
  BY DEF Goes, CloseOps
<1> QED
  BY <1>0, <1>1 DEF Goes, GuestOK, OpOK, Ops, CloseOps, guest, OpeningOK,
                   ShadowSteps

\* An open that returns with a handle.
LEMMA OpenedOK ==
    ASSUME GuestOK, NEW i \in Infos, NEW h \in Handles, NEW f \in Flags,
           Opened(i, h, f)
    PROVE  /\ handle' \in [Infos -> Handles]
           /\ flag' \in [Infos -> Flags]
           /\ failed' \subseteq Infos
BY DEF GuestOK, Opened

\* The types hold at the start.
LEMMA TypedInit == Init => Typed
<1> SUFFICES ASSUME Init PROVE Typed
  OBVIOUS
<1>0. /\ 1 \in Inodes /\ 0 \in Versions /\ 1 \in Versions
  BY NandAssumption DEF Inodes, Versions
<1>1. DirsOK
  BY <1>0 DEF Init, DirsOK, Directories, OnDisk, Distinct, Names
<1>2. [b \in Blocks |-> 1] \in Contents
  BY <1>0 DEF Contents
<1>3. data \in [Inodes -> Contents]
  BY <1>2, BlankIsNotMissing DEF Init
<1>4. \A i \in Inodes, b \in Blocks : data[i][b] \in Versions
  BY <1>3 DEF Contents
<1>5. FilesOK
  BY <1>3, <1>4 DEF Init, FilesOK
<1>6. HostOK
  BY <1>1, <1>5, HostHalves
<1>7. Visible("save") \in Contents \cup {Missing}
  BY <1>6, VisibleOK DEF Names
<1>8. GuestOK
  BY <1>0, <1>7 DEF Init, GuestOK, Handles, Flags
<1>9. OpOK
  BY DEF Init, OpOK, Ops
<1> QED
  BY <1>6, <1>8, <1>9 DEF Typed, Init, OpeningOK, ShadowSteps, Idle

\* Opening for reading changes the handle alone.
LEMMA TypedRead ==
    ASSUME Typed, NEW i \in Infos, NEW safe \in BOOLEAN, OpensForReading(i, safe)
    PROVE  Typed'
<1>1. HostOK'
  BY HostSame DEF Typed, OpensForReading
<1>2. OpOK' /\ OpeningOK'
  BY DEF Typed, OpensForReading, OpOK, OpeningOK, host
<1>3. probe' \in {"unread", "ok", "missing", "error"}
  BY ReadAnswers DEF OpensForReading
<1>4. CASE UNCHANGED <<handle, flag, failed>>
  BY <1>1, <1>2, <1>3, <1>4 DEF Typed, GuestOK, OpensForReading
<1> DEFINE h == [inode |-> dir["save"], commit |-> FALSE, write |-> FALSE]
<1>5. CASE ReadAnswer = "ok" /\ Opened(i, h, OpenFlag(safe))
  <2>1. dir["save"] \in Inodes
    BY <1>5, ReadOpensFile DEF Typed
  <2>2. h \in Handles
    BY <2>1 DEF Handles
  <2>3. OpenFlag(safe) \in Flags
    BY DEF OpenFlag, Flags
  <2> HIDE DEF h
  <2>4. /\ handle' \in [Infos -> Handles]
        /\ flag' \in [Infos -> Flags]
        /\ failed' \subseteq Infos
    BY <1>5, <2>2, <2>3, OpenedOK DEF Typed
  <2> QED
    BY <1>1, <1>2, <1>3, <2>4 DEF Typed, GuestOK, OpensForReading
<1> QED
  BY <1>4, <1>5 DEF OpensForReading

\* A handler that starts to open, or goes on opening, and returns nothing yet.
LEMMA OpeningStepOK ==
    ASSUME GuestOK, HostOK', UNCHANGED <<guest, ghosts>>,
           op' \in OpenOps \cup {Idle},
           op'.step \in ShadowSteps => dir'["save"] # NoInode,
           op'.step \in {"fopen", "drop"} => dir'["temp"] # NoInode
    PROVE  Typed'
BY DEF GuestOK, Typed, guest, ghosts, OpOK, Ops, OpenOps, OpeningOK

\* The next step of an opening, or giving up its shadow.
LEMMA NextOpening ==
    ASSUME OpOK, op.step \in OpenSteps
    PROVE  /\ op \in OpenOps
           /\ \A s \in OpenSteps : /\ [op EXCEPT !.step = s] \in OpenOps
                                   /\ [op EXCEPT !.step = s].step = s
           /\ WithoutShadow \in OpenOps \cup {Idle}
           /\ WithoutShadow.step \notin ShadowSteps
           /\ WithoutShadow.step \notin {"fopen", "drop"}
BY OpFields DEF OpenOps, WithoutShadow, OpenSteps, ShadowSteps, Idle

\* Opening in a writing mode.
LEMMA TypedNANDOpen ==
    ASSUME Typed, NEW i \in Infos, NANDOpen(i) \/ NANDSafeOpen(i)
    PROVE  Typed'
<1>1. HostOK' /\ dir' = dir
  BY HostSame DEF NANDOpen, NANDSafeOpen, Typed, host
<1>2. UNCHANGED <<guest, ghosts>>
  BY DEF NANDOpen, NANDSafeOpen
<1>3. /\ op' \in OpenOps
      /\ op'.step \in {"discard", "inPlace"}
      /\ op'.step = "discard" => Visible("save") # Missing
  <2>1. PICK st \in {"discard", "inPlace"}, safe \in BOOLEAN :
           /\ op' = [step |-> st, info |-> i, safe |-> safe]
           /\ st = "discard" => Visible("save") # Missing
    BY DEF NANDOpen, NANDSafeOpen
  <2> QED
    BY <2>1 DEF OpenOps, OpenSteps
<1>4. op'.step = "discard" => dir'["save"] # NoInode
  BY <1>1, <1>3 DEF Visible
<1> QED
  BY <1>1, <1>2, <1>3, <1>4, OpeningStepOK DEF Typed, ShadowSteps

\* An orphaned shadow is discarded.
LEMMA TypedDiscard ==
    ASSUME Typed, DiscardStep
    PROVE  Typed'
<1>0. op.step \in OpenSteps /\ op.step \in ShadowSteps /\ "copy" \in OpenSteps
  BY DEF DiscardStep, OpenSteps, ShadowSteps
<1>1. FilesOK'
  BY HostHalves DEF DiscardStep, FilesOK, Typed
<1>2. DirsOK' /\ dir'["save"] = dir["save"]
  <2>1. CASE Removed("temp")
    BY <2>1, RemovedOK, HostHalves DEF Names, Typed, DirsOK, Directories
  <2>2. CASE UNCHANGED <<dir, older>>
    BY <2>2, HostHalves DEF DirsOK, OnDisk, Typed
  <2> QED
    BY <2>1, <2>2 DEF DiscardStep
<1>3. HostOK'
  BY <1>1, <1>2 DEF HostOK, DirsOK, FilesOK
<1>4. op' = [op EXCEPT !.step = "copy"] \/ op' = WithoutShadow
  BY DEF DiscardStep
<1> QED
  BY <1>0, <1>2, <1>3, <1>4, NextOpening, OpeningStepOK
  DEF DiscardStep, Typed, OpeningOK

\* A shadow is made of the original.
LEMMA TypedCopy ==
    ASSUME Typed, CopyStep
    PROVE  Typed'
<1>0. op.step \in OpenSteps /\ op.step \in ShadowSteps /\ {"fopen", "drop"} \subseteq OpenSteps
  BY DEF CopyStep, OpenSteps, ShadowSteps
<1>1. PICK c \in Contents : CreatedFile("temp", c)
  BY <1>0, VisibleOK, BlankIsNotMissing DEF CopyStep, Typed, OpeningOK, Names
<1>2. HostOK' /\ FreshInode # NoInode /\ dir' = [dir EXCEPT !["temp"] = FreshInode]
  BY <1>1, CreatedOK, FreeIsUnused DEF Typed, Names
<1>3. dir'["temp"] # NoInode /\ dir'["save"] = dir["save"]
  BY <1>2 DEF Typed, HostOK, Directories, Names
<1>4. op' = [op EXCEPT !.step = "fopen"] \/ op' = [op EXCEPT !.step = "drop"]
  BY DEF CopyStep
<1> QED
  BY <1>0, <1>2, <1>3, <1>4, NextOpening, OpeningStepOK
  DEF CopyStep, Typed, OpeningOK

\* An open that fails drops its shadow.
LEMMA TypedDrop ==
    ASSUME Typed, DropStep
    PROVE  Typed'
<1>0. op.step \in OpenSteps
  BY DEF DropStep, OpenSteps
<1>1. FilesOK'
  BY HostHalves DEF DropStep, FilesOK, Typed
<1>2. DirsOK'
  <2>1. CASE Removed("temp")
    BY <2>1, RemovedOK, HostHalves DEF Names, Typed
  <2>2. CASE UNCHANGED <<dir, older>>
    BY <2>2, HostHalves DEF DirsOK, OnDisk, Typed
  <2> QED
    BY <2>1, <2>2 DEF DropStep, Dropped
<1>3. HostOK'
  BY <1>1, <1>2 DEF HostOK, DirsOK, FilesOK
<1> QED
  BY <1>0, <1>3, NextOpening, OpeningStepOK DEF DropStep, Typed

\* The host file is opened.
LEMMA TypedFopen ==
    ASSUME Typed, FopenStep
    PROVE  Typed'
<1>0. op.step \in OpenSteps /\ op.step \in ShadowSteps /\ "drop" \in OpenSteps
  BY DEF FopenStep, OpenSteps, ShadowSteps
<1>1. HostOK' /\ dir' = dir
  BY HostSame DEF FopenStep, Typed, host
<1>2. op \in OpenOps
  BY <1>0, OpFields DEF Typed
<1> DEFINE h == [inode |-> dir["temp"], commit |-> TRUE, write |-> TRUE]
<1>3. h \in Handles /\ OpenFlag(op.safe) \in Flags
  BY DEF FopenStep, Typed, OpeningOK, HostOK, Directories, Names, Handles,
         OpenFlag, Flags
<1> HIDE DEF h
<1>4. CASE Opened(op.info, h, OpenFlag(op.safe)) /\ op' = Idle
  <2>1. /\ handle' \in [Infos -> Handles]
        /\ flag' \in [Infos -> Flags]
        /\ failed' \subseteq Infos
    BY <1>2, <1>3, <1>4, OpenedOK DEF Typed, OpenOps
  <2> QED
    BY <1>1, <1>4, <2>1 DEF FopenStep, Typed, GuestOK, OpOK, Ops, OpeningOK,
                            ShadowSteps, Idle
<1>5. CASE op' = [op EXCEPT !.step = "drop"] /\ UNCHANGED <<handle, flag, failed>>
  BY <1>0, <1>1, <1>5, NextOpening, OpeningStepOK
  DEF FopenStep, Typed, OpeningOK, guest, ghosts
<1> QED
  BY <1>4, <1>5 DEF FopenStep, h

\* A file is opened in place.
LEMMA TypedInPlace ==
    ASSUME Typed, InPlaceStep
    PROVE  Typed'
<1>0. "save" \in Names /\ 0 \in Versions
  BY NandAssumption DEF Names, Versions
<1>1. HostOK'
  <2>1. CASE UNCHANGED host
    BY <2>1, HostSame DEF Typed
  <2>2. CASE CreatedFile("save", Blank)
    BY <1>0, <2>2, CreatedOK, BlankIsNotMissing DEF Typed
  <2>3. CASE /\ dir["save"] # NoInode
             /\ data' = [data EXCEPT ![dir["save"]] = Blank]
             /\ disk' = [disk EXCEPT ![dir["save"]] = [b \in Blocks |-> @[b] \cup {0}]]
             /\ UNCHANGED <<dir, older>>
    <3>1. dir["save"] \in Inodes
      BY <1>0, <2>3, VisibleOK DEF Typed
    <3> DEFINE i == dir["save"]
               new == [b \in Blocks |-> disk[i][b] \cup {0}]
    <3>2. new \in [Blocks -> SUBSET Versions]
      BY <1>0, <3>1 DEF Typed, HostOK
    <3>3. /\ disk' = [disk EXCEPT ![i] = new]
          /\ \A b \in Blocks : 0 \in new[b]
      BY <2>3
    <3> HIDE DEF i, new
    <3>4. data' = [data EXCEPT ![i] = Blank] /\ i \in Inodes
      BY <2>3, <3>1 DEF i
    <3>5. disk' \in [Inodes -> [Blocks -> SUBSET Versions]]
      BY <3>2, <3>3 DEF Typed, HostOK
    <3>6. data' \in [Inodes -> Contents]
      BY <3>4, BlankIsNotMissing DEF Typed, HostOK
    <3>7. ASSUME NEW j \in Inodes, NEW b \in Blocks PROVE data'[j][b] \in disk'[j][b]
      BY <3>3, <3>4 DEF Typed, HostOK, Blank
    <3> QED
      BY <2>3, <3>5, <3>6, <3>7 DEF Typed, HostOK, OnDisk
  <2> QED
    BY <2>1, <2>2, <2>3 DEF InPlaceStep, host
<1>2. PICK i \in Inodes :
         \/ Opened(op.info, [inode |-> i, commit |-> FALSE, write |-> TRUE], "open")
         \/ UNCHANGED <<handle, flag, failed>>
  <2>1. 1 \in Inodes
    BY NandAssumption DEF Inodes
  <2>2. dir["save"] # NoInode => dir["save"] \in Inodes
    BY <1>0, VisibleOK DEF Typed
  <2>3. CreatedFile("save", Blank) => FreshInode \in Inodes
    BY FreshIsFree, FreeIsUnused DEF CreatedFile
  <2> QED
    BY <2>1, <2>2, <2>3 DEF InPlaceStep
<1> DEFINE h == [inode |-> i, commit |-> FALSE, write |-> TRUE]
<1>3. h \in Handles /\ "open" \in Flags /\ op.info \in Infos
  BY OpFields DEF InPlaceStep, Typed, OpenOps, OpenSteps, Handles, Flags
<1> HIDE DEF h
<1>4. /\ handle' \in [Infos -> Handles]
      /\ flag' \in [Infos -> Flags]
      /\ failed' \subseteq Infos
  <2>1. CASE Opened(op.info, h, "open")
    BY <1>3, <2>1, OpenedOK DEF Typed
  <2>2. CASE UNCHANGED <<handle, flag, failed>>
    BY <2>2 DEF Typed, GuestOK
  <2> QED
    BY <1>2, <2>1, <2>2 DEF h
<1> QED
  BY <1>1, <1>4 DEF InPlaceStep, Typed, GuestOK, OpOK, Ops, OpeningOK,
                    ShadowSteps, Idle

\* A write.
LEMMA TypedWrite ==
    ASSUME Typed, NEW i \in Infos, NEW b \in Blocks, NANDWrite(i, b)
    PROVE  Typed'
<1>1. version' \in Versions
  BY NandAssumption DEF NANDWrite, Typed, GuestOK, Versions
<1>2. PICK f \in Inodes : f = handle[i].inode
  BY DEF NANDWrite, Typed, GuestOK, Handles, NoHandle
<1> DEFINE v == version'
           content == [data[f] EXCEPT ![b] = v]
           blocks == [disk[f] EXCEPT ![b] = disk[f][b] \cup {v}]
<1>a. v \in Versions
  BY <1>1
<1> HIDE DEF v
<1>b. data' = [data EXCEPT ![f] = content]
  BY <1>2 DEF NANDWrite, v
<1>c. disk' = [disk EXCEPT ![f] = blocks]
  BY <1>2 DEF NANDWrite, v
<1>3. data[f] \in [Blocks -> Versions] /\ disk[f] \in [Blocks -> SUBSET Versions]
  BY DEF Typed, HostOK, Contents
<1>4. content \in Contents
  BY <1>a, <1>3 DEF Contents
<1>5. blocks \in [Blocks -> SUBSET Versions]
  BY <1>a, <1>3
<1>d. \A c \in Blocks : content[c] \in blocks[c]
  BY <1>3 DEF Typed, HostOK
<1> HIDE DEF content, blocks
<1>6. data' \in [Inodes -> Contents]
  BY <1>b, <1>4 DEF Typed, HostOK
<1>7. disk' \in [Inodes -> [Blocks -> SUBSET Versions]]
  BY <1>c, <1>5 DEF Typed, HostOK
<1>8. ASSUME NEW j \in Inodes, NEW c \in Blocks PROVE data'[j][c] \in disk'[j][c]
  BY <1>b, <1>c, <1>d DEF Typed, HostOK
<1>9. HostOK'
  BY <1>6, <1>7, <1>8 DEF NANDWrite, Typed, HostOK, OnDisk
<1> QED
  BY <1>1, <1>9 DEF NANDWrite, Typed, GuestOK, guest, OpOK, OpeningOK

\* A file is created.
LEMMA TypedCreate ==
    ASSUME Typed, NANDCreate
    PROVE  Typed'
<1>1. HostOK'
  BY CreatedOK, HostSame, BlankIsNotMissing DEF NANDCreate, Typed, Names
<1> QED
  BY <1>1, BlankIsNotMissing
  DEF NANDCreate, Typed, GuestOK, OpOK, OpeningOK, ShadowSteps, Idle

\* A file is deleted.
LEMMA TypedDelete ==
    ASSUME Typed, NANDDelete
    PROVE  Typed'
<1>1. DirsOK' /\ FilesOK'
  BY RemovedOK, HostHalves DEF NANDDelete, Typed, Names, FilesOK
<1>2. HostOK'
  BY <1>1 DEF HostOK, DirsOK, FilesOK
<1> QED
  BY <1>2 DEF NANDDelete, Typed, GuestOK, guest, OpOK, OpeningOK, ShadowSteps, Idle

\* The call that starts a close, and one that finds its handle gone.
LEMMA TypedClose ==
    ASSUME Typed, NEW i \in Infos,
           NANDClose(i) \/ NANDSafeClose(i) \/ RetryClose(i)
    PROVE  Typed'
<1>1. HostOK' /\ dir' = dir
  BY HostSame DEF NANDClose, NANDSafeClose, RetryClose, Retire, Typed, host
<1>2. ASSUME NEW safe \in BOOLEAN, op = Idle, Retire(i, safe) PROVE Typed'
  <2>1. CASE handle[i].write
    <3>1. handle[i].inode \in Inodes /\ handle[i].commit \in BOOLEAN
      BY <2>1 DEF Typed, GuestOK, Handles, NoHandle
    <3>2. Visible("save") \in Contents \cup {Missing}
      BY VisibleOK DEF Typed, Names
    <3>3. op' \in CloseOps /\ op'.step = "flush"
      BY <1>2, <2>1, <3>1, <3>2 DEF Retire, CloseOps, CloseSteps
    <3> QED
      BY <1>1, <1>2, <2>1, <3>3
      DEF Retire, Typed, GuestOK, ghosts, OpOK, Ops, CloseOps, OpeningOK,
          ShadowSteps, Handles
  <2>2. CASE ~ handle[i].write
    BY <1>1, <1>2, <2>2
    DEF Retire, Typed, GuestOK, ghosts, OpOK, OpeningOK, ShadowSteps, Handles,
        ClosedFlag, Flags
  <2> QED
    BY <2>1, <2>2
<1>3. CASE RetryClose(i)
  BY <1>1, <1>3 DEF RetryClose, Typed, GuestOK, ghosts, OpOK, OpeningOK,
                    ClosedFlag, Flags
<1> QED
  BY <1>2, <1>3 DEF NANDClose, NANDSafeClose

\* A close flushes and closes the host file.
LEMMA TypedFlush ==
    ASSUME Typed, FlushStep
    PROVE  Typed'
<1>1. op \in CloseOps /\ op.inode \in Inodes /\ {"rename", "dropShadow"} \subseteq CloseSteps
  BY OpFields DEF FlushStep, Typed, CloseSteps, CloseOps
<1>2. HostOK'
  <2>1. CASE disk' = disk
    BY <2>1, HostSame DEF FlushStep, Typed, host
  <2>2. CASE disk' = Synced(op.inode)
    <3> DEFINE new == [b \in Blocks |-> {data[op.inode][b]}]
    <3>1. new \in [Blocks -> SUBSET Versions]
      BY <1>1 DEF Typed, HostOK, Contents
    <3>2. \A b \in Blocks : data[op.inode][b] \in new[b]
      OBVIOUS
    <3>3. disk' = [disk EXCEPT ![op.inode] = new]
      BY <2>2 DEF Synced
    <3> HIDE DEF new
    <3> QED
      BY <1>1, <3>1, <3>2, <3>3 DEF FlushStep, Typed, HostOK, OnDisk
  <2> QED
    BY <2>1, <2>2 DEF FlushStep
<1>3. data[op.inode] \in Contents
  BY <1>1 DEF Typed, HostOK
<1>4. promised' \subseteq Contents \cup {Missing}
  BY <1>3 DEF FlushStep, Typed, GuestOK
<1> QED
  BY <1>1, <1>2, <1>4, GoesOK, CloseReturnsOK DEF FlushStep, Typed

\* A close renames the shadow over the original.
LEMMA TypedRename ==
    ASSUME Typed, RenameStep
    PROVE  Typed'
<1>1. op \in CloseOps /\ {"dirsync", "unlink", "dropShadow"} \subseteq CloseSteps
  BY OpFields DEF RenameStep, Typed, CloseSteps
<1>2. CASE /\ Replaceable /\ world.host = "win32"
           /\ dir' = Renamed /\ Settled(Renamed, disk)
           /\ CloseReturns(TRUE) /\ promised' = {data[dir["temp"]]}
  <2>1. dir["temp"] \in Inodes /\ data[dir["temp"]] \in Contents
    BY <1>2 DEF Replaceable, Typed, HostOK, Directories, Names
  <2>2. HostOK'
    <3>2. Renamed \in Directories /\ Distinct(Renamed)
      BY <1>2, RenamedOK, HostHalves DEF Replaceable, Typed
    <3>3. FilesOK
      BY HostHalves DEF Typed
    <3> QED
      BY <1>2, <3>2, <3>3, SettledOK DEF FilesOK
  <2>3. promised' \subseteq Contents \cup {Missing} /\ CloseReturns(TRUE)
    BY <1>2, <2>1 DEF Typed, GuestOK
  <2> QED
    BY <1>1, <2>2, <2>3, CloseReturnsOK DEF Typed
<1>3. CASE Replaceable /\ world.host # "win32" /\ Relinked(Renamed)
           /\ Goes("dirsync") /\ UNCHANGED <<data, disk, promised>>
  <2>1. DirsOK'
    BY <1>3, RenamedOK, RelinkedOK, HostHalves DEF Replaceable, Typed
  <2>2. HostOK'
    BY <1>3, <2>1 DEF Typed, HostOK, DirsOK
  <2> QED
    BY <1>1, <1>3, <2>2, GoesOK DEF Typed, GuestOK
<1>4. CASE Goes(AfterFailedRename) /\ UNCHANGED <<host, promised>>
  <2>1. AfterFailedRename \in CloseSteps
    BY DEF AfterFailedRename, CloseSteps
  <2> QED
    BY <1>1, <1>4, <2>1, GoesOK, HostSame DEF Typed, GuestOK
<1> QED
  BY <1>2, <1>3, <1>4 DEF RenameStep

\* Where a rename does not replace, the original is unlinked.
LEMMA TypedUnlink ==
    ASSUME Typed, UnlinkStep
    PROVE  Typed'
<1>1. op \in CloseOps /\ {"rename2", "dropShadow"} \subseteq CloseSteps
  BY OpFields DEF UnlinkStep, Typed, CloseSteps
<1>2. HostOK'
  <2>1. CASE Removed("save")
    BY <2>1, RemovedOK, HostHalves DEF UnlinkStep, Typed, Names, HostOK, DirsOK
  <2>2. CASE UNCHANGED <<dir, older>>
    BY <2>2, HostSame DEF UnlinkStep, Typed, host
  <2> QED
    BY <2>1, <2>2 DEF UnlinkStep
<1> QED
  BY <1>1, <1>2, GoesOK DEF UnlinkStep, Typed, GuestOK

\* And the shadow is renamed again.
LEMMA TypedSecondRename ==
    ASSUME Typed, SecondRenameStep
    PROVE  Typed'
<1>1. op \in CloseOps /\ {"dirsync", "dropShadow"} \subseteq CloseSteps
  BY OpFields DEF SecondRenameStep, Typed, CloseSteps
<1>2. HostOK'
  <2>1. CASE Replaceable /\ Relinked(Renamed)
    BY <2>1, RenamedOK, RelinkedOK, HostHalves
    DEF SecondRenameStep, Replaceable, Typed, HostOK, DirsOK
  <2>2. CASE UNCHANGED <<dir, older>>
    BY <2>2, HostSame DEF SecondRenameStep, Typed, host
  <2> QED
    BY <2>1, <2>2 DEF SecondRenameStep
<1> QED
  BY <1>1, <1>2, GoesOK DEF SecondRenameStep, Typed, GuestOK

\* The directory is synchronised.
LEMMA TypedDirSync ==
    ASSUME Typed, DirSyncStep
    PROVE  Typed'
<1>1. op \in CloseOps
  BY OpFields DEF DirSyncStep, Typed, CloseSteps
<1>2. HostOK'
  <2>1. CASE Settled(dir, disk)
    BY <2>1, SettledOK, HostHalves DEF DirSyncStep, Typed, HostOK, OnDisk
  <2>2. CASE UNCHANGED <<older, data, disk, promised>>
    BY <2>2, HostSame DEF DirSyncStep, Typed, host
  <2> QED
    BY <2>1, <2>2 DEF DirSyncStep
<1>3. promised' \subseteq Contents \cup {Missing}
  BY VisibleOK DEF DirSyncStep, Typed, GuestOK, Names
<1> QED
  BY <1>1, <1>2, <1>3, CloseReturnsOK DEF DirSyncStep, Typed

\* The shadow of a close that failed is dropped.
LEMMA TypedDropShadow ==
    ASSUME Typed, DropShadowStep
    PROVE  Typed'
<1>1. op \in CloseOps
  BY OpFields DEF DropShadowStep, Typed, CloseSteps
<1>2. HostOK'
  <2>1. CASE Removed("temp")
    BY <2>1, RemovedOK, HostHalves DEF DropShadowStep, Typed, Names, HostOK, DirsOK
  <2>2. CASE UNCHANGED <<dir, older>>
    BY <2>2, HostSame DEF DropShadowStep, Typed, host
  <2> QED
    BY <2>1, <2>2 DEF DropShadowStep, Dropped
<1> QED
  BY <1>1, <1>2, CloseReturnsOK DEF DropShadowStep, Typed, GuestOK

\* The host writes data back.
LEMMA TypedWriteBack ==
    ASSUME Typed, HostWritesBack
    PROVE  Typed'
<1> DEFINE onDisk == [i \in Inodes |-> [b \in Blocks |-> {data[i][b]}]]
<1>1. /\ onDisk \in [Inodes -> [Blocks -> SUBSET Versions]]
      /\ \A i \in Inodes, b \in Blocks : data[i][b] \in onDisk[i][b]
  BY DEF Typed, HostOK, Contents
<1>2. Settled(dir, onDisk)
  BY DEF HostWritesBack
<1> HIDE DEF onDisk
<1>3. HostOK'
  BY <1>1, <1>2, SettledOK, HostHalves DEF HostWritesBack, Typed, HostOK, OnDisk
<1> QED
  BY <1>3 DEF HostWritesBack, Typed, GuestOK, guest, ghosts, OpOK, OpeningOK

\* What a crash leaves under a name is nothing, or the contents of a file.
LEMMA LeftOK ==
    ASSUME NEW d, NEW n, NEW c \in Left(d, n)
    PROVE  /\ c \in Contents \cup {Missing}
           /\ d[n] # NoInode => c \in Contents
BY DEF Left

\* A crash, and the start after it.
LEMMA TypedCrash ==
    ASSUME Typed, Crash
    PROVE  Typed'
<1>0. PICK d \in OnDisk :
         \E save \in Left(d, "save"), temp \in Left(d, "temp") :
             /\ dir' = d
             /\ older' = {}
             /\ data' = [i \in Inodes |-> CASE i = d["save"] -> save
                                            [] i = d["temp"] -> temp
                                            [] OTHER -> Blank]
             /\ disk' = [i \in Inodes |-> [b \in Blocks |-> {data'[i][b]}]]
             /\ promised' = {save}
  BY DEF Crash
<1>1. PICK save \in Left(d, "save"), temp \in Left(d, "temp") :
         /\ dir' = d
         /\ older' = {}
         /\ data' = [i \in Inodes |-> CASE i = d["save"] -> save
                                        [] i = d["temp"] -> temp
                                        [] OTHER -> Blank]
         /\ disk' = [i \in Inodes |-> [b \in Blocks |-> {data'[i][b]}]]
         /\ promised' = {save}
  BY <1>0
<1>2. save \in Contents \cup {Missing}
  BY LeftOK
<1>3. ASSUME NEW i \in Inodes
      PROVE  /\ i = d["save"] => save \in Contents
             /\ i = d["temp"] => temp \in Contents
  BY LeftOK, NandAssumption DEF Inodes, NoInode
<1>4. data' \in [Inodes -> Contents]
  BY <1>1, <1>3, BlankIsNotMissing
<1>5. \A i \in Inodes, b \in Blocks : data'[i][b] \in Versions
  BY <1>4 DEF Contents
<1>6. d \in Directories /\ Distinct(d)
  BY DEF Typed, HostOK, OnDisk
<1>7. HostOK'
  BY <1>1, <1>4, <1>5, <1>6 DEF HostOK, OnDisk
<1>8. /\ handle' = [i \in Infos |-> NoHandle]
      /\ flag' = [i \in Infos |-> "none"]
      /\ created' = FALSE /\ probe' = "unread" /\ op' = Idle /\ failed' = {}
      /\ UNCHANGED <<version, world>>
  BY Zenon DEF Crash
<1> QED
  BY <1>1, <1>2, <1>7, <1>8 DEF Typed, GuestOK, Handles, Flags, OpOK, Ops,
                          OpeningOK, ShadowSteps, Idle

\* Every step keeps the types.
LEMMA TypedStep == Typed /\ [Next]_vars => Typed'
<1> SUFFICES ASSUME Typed, [Next]_vars PROVE Typed'
  OBVIOUS
<1>1. CASE UNCHANGED vars
  BY <1>1 DEF vars, Typed, HostOK, GuestOK, OpOK, OpeningOK, OnDisk
<1> QED
  BY <1>1, TypedRead, TypedNANDOpen, TypedDiscard, TypedCopy, TypedFopen,
     TypedDrop, TypedInPlace, TypedWrite, TypedCreate, TypedDelete, TypedClose,
     TypedFlush, TypedRename, TypedUnlink, TypedSecondRename, TypedDirSync,
     TypedDropShadow, TypedWriteBack, TypedCrash
  DEF Next

\* The type invariant holds on every host, for every number of files, blocks
\* and versions, whatever fails and whenever the machine stops.
THEOREM TypeCorrect == Spec => []TypeOK
<1>1. Typed => TypeOK
  BY DEF Typed, HostOK, GuestOK, OpOK, TypeOK, OnDisk, Distinct, Directories
<1> QED
  BY <1>1, TypedInit, TypedStep, PTL DEF Spec

-----------------------------------------------------------------------------
(***************************************************************************)
(* What NANDSafeClose reports.                                             *)
(***************************************************************************)

\* A close in progress has taken the handle and not yet set the flag; a handle
\* whose close failed stays gone, and no close of it is in progress.
Told ==
    /\ op.step \in CloseSteps => /\ handle[op.info] = NoHandle
                                 /\ flag[op.info] # "safeClosed"
    /\ \A i \in failed : /\ handle[i] = NoHandle
                         /\ flag[i] # "safeClosed"
                         /\ op.step \in CloseSteps => op.info # i

\* Nothing has been reported.
LEMMA ToldInit == Init => Told
BY DEF Init, Told, Idle, CloseSteps

\* Every step keeps what was reported true.
LEMMA ToldStep == Typed /\ Told /\ [Next]_vars => Told'
<1> SUFFICES ASSUME Typed, Told, [Next]_vars PROVE Told'
  OBVIOUS
<1>0. /\ handle \in [Infos -> Handles] /\ flag \in [Infos -> Flags]
      /\ failed \subseteq Infos
      /\ op.step \in CloseSteps => op.info \in Infos
  BY OpFields DEF Typed, GuestOK, CloseOps
<1>1. \A s \in OpenSteps \cup {"idle"} : s \notin CloseSteps
  BY DEF OpenSteps, CloseSteps
\* A step that opens, or one that leaves the guest's handles alone.
<1>2. ASSUME op'.step \notin CloseSteps,
             UNCHANGED <<handle, flag, failed>>
      PROVE  Told'
  BY <1>2 DEF Told
<1>3. ASSUME op'.step \notin CloseSteps, NEW i \in Infos, NEW h \in Handles,
             NEW safe \in BOOLEAN, Opened(i, h, OpenFlag(safe))
      PROVE  Told'
  <2>1. OpenFlag(safe) # "safeClosed"
    BY DEF OpenFlag
  <2> QED
    BY <1>0, <1>3, <2>1 DEF Told, Opened
<1>4. ASSUME NEW i \in Infos, NEW safe \in BOOLEAN, OpensForReading(i, safe)
      PROVE  Told'
  <2>1. op'.step \notin CloseSteps
    BY <1>1, <1>4 DEF OpensForReading, MayOpen, Idle
  <2> DEFINE h == [inode |-> dir["save"], commit |-> FALSE, write |-> FALSE]
  <2>2. ReadAnswer = "ok" => h \in Handles
    BY ReadOpensFile DEF Typed, Handles
  <2> HIDE DEF h
  <2>3. \/ UNCHANGED <<handle, flag, failed>>
        \/ ReadAnswer = "ok" /\ Opened(i, h, OpenFlag(safe))
    BY <1>4 DEF OpensForReading, h
  <2> QED
    BY <1>2, <1>3, <2>1, <2>2, <2>3
<1>5. ASSUME NEW i \in Infos, NANDOpen(i) \/ NANDSafeOpen(i) PROVE Told'
  <2>1. op'.step \in OpenSteps
    BY <1>5 DEF NANDOpen, NANDSafeOpen, OpenSteps
  <2> QED
    BY <1>1, <1>2, <1>5, <2>1 DEF NANDOpen, NANDSafeOpen, guest, ghosts
<1>6. CASE DiscardStep \/ CopyStep \/ DropStep
  <2>1. op.step \in OpenSteps
    BY <1>6 DEF DiscardStep, CopyStep, DropStep, OpenSteps
  <2>2. op'.step \in OpenSteps \cup {"idle"}
    BY <1>6, <2>1, NextOpening
    DEF DiscardStep, CopyStep, DropStep, Typed, OpenOps, Idle, OpenSteps
  <2> QED
    BY <1>1, <1>2, <1>6, <2>2 DEF DiscardStep, CopyStep, DropStep, guest, ghosts
<1>7. CASE FopenStep
  <2>1. op \in OpenOps /\ "drop" \in OpenSteps
    BY <1>7, OpFields DEF FopenStep, Typed, OpenSteps
  <2>2. op'.step \in OpenSteps \cup {"idle"}
    BY <1>7, <2>1 DEF FopenStep, OpenOps, Idle
  <2> DEFINE h == [inode |-> dir["temp"], commit |-> TRUE, write |-> TRUE]
  <2>3. h \in Handles
    BY <1>7 DEF FopenStep, Typed, OpeningOK, HostOK, Directories, Names, Handles
  <2>4. Opened(op.info, h, OpenFlag(op.safe)) \/ UNCHANGED <<handle, flag, failed>>
    BY <1>7 DEF FopenStep
  <2> HIDE DEF h
  <2> QED
    BY <1>1, <1>2, <1>3, <2>1, <2>2, <2>3, <2>4 DEF OpenOps
<1>8. CASE InPlaceStep
  <2>1. op.info \in Infos
    BY <1>8, OpFields DEF InPlaceStep, Typed, OpenOps, OpenSteps
  <2>2. op'.step \notin CloseSteps
    BY <1>1, <1>8 DEF InPlaceStep, Idle
  <2>3. \/ UNCHANGED <<handle, flag, failed>>
        \/ \E h : Opened(op.info, h, "open")
    BY <1>8 DEF InPlaceStep
  <2> QED
    BY <1>0, <1>2, <2>1, <2>2, <2>3 DEF Told, Opened
<1>9. CASE NANDCreate \/ NANDDelete \/ HostWritesBack
           \/ \E i \in Infos, b \in Blocks : NANDWrite(i, b)
  BY <1>2, <1>9 DEF Told, NANDCreate, NANDDelete, HostWritesBack, NANDWrite, guest, ghosts
<1>10. ASSUME NEW i \in Infos, NEW safe \in BOOLEAN, op = Idle,
              handle[i] # NoHandle, flag[i] # "safeClosed", Retire(i, safe)
       PROVE  Told'
  <2>1. i \notin failed
    BY <1>10 DEF Told
  <2>2. CASE handle[i].write
    BY <1>0, <1>10, <2>1, <2>2 DEF Told, Retire, ghosts
  <2>3. CASE ~ handle[i].write
    BY <1>0, <1>1, <1>10, <2>1, <2>3 DEF Told, Retire, ghosts, Idle
  <2> QED
    BY <2>2, <2>3
<1>11. ASSUME NEW i \in Infos, NANDClose(i) \/ NANDSafeClose(i) PROVE Told'
  BY <1>10, <1>11 DEF NANDClose, NANDSafeClose
<1>12. ASSUME NEW i \in Infos, RetryClose(i) PROVE Told'
  <2>1. flag' = [flag EXCEPT ![i] = "closed"]
    BY <1>12 DEF RetryClose, MissingFdIsError, ClosedFlag
  <2> QED
    BY <1>0, <1>1, <1>12, <2>1 DEF Told, RetryClose, ghosts, Idle
<1>13. ASSUME op.step \in CloseSteps, NEW ok \in BOOLEAN, CloseReturns(ok) PROVE Told'
  <2>1. op'.step \notin CloseSteps
    BY <1>1, <1>13 DEF CloseReturns, Idle
  <2> QED
    BY <1>0, <1>13, <2>1 DEF Told, CloseReturns
<1>14. ASSUME op.step \in CloseSteps, NEW step \in CloseSteps, Goes(step) PROVE Told'
  <2>1. op'.info = op.info
    BY <1>14, OpFields DEF Typed, CloseOps, Goes
  <2> QED
    BY <1>14, <2>1 DEF Told, Goes, guest
<1>15. CASE FlushStep \/ RenameStep \/ UnlinkStep \/ SecondRenameStep \/ DirSyncStep
            \/ DropShadowStep
  <2>1. op.step \in CloseSteps
    BY <1>15 DEF FlushStep, RenameStep, UnlinkStep, SecondRenameStep, DirSyncStep,
                 DropShadowStep, CloseSteps
  <2>2. \/ \E ok \in BOOLEAN : CloseReturns(ok)
        \/ \E step \in CloseSteps : Goes(step)
    BY <1>15 DEF FlushStep, RenameStep, UnlinkStep, SecondRenameStep, DirSyncStep,
                 DropShadowStep, CloseSteps, AfterFailedRename
  <2> QED
    BY <1>13, <1>14, <2>1, <2>2
<1>16. CASE Crash
  <2>1. failed' = {} /\ op' = Idle
    BY <1>16, Zenon DEF Crash
  <2> QED
    BY <1>1, <2>1 DEF Told, Idle
<1>17. CASE UNCHANGED vars
  BY <1>17 DEF vars, Told
<1> QED
  BY <1>4, <1>5, <1>6, <1>7, <1>8, <1>9, <1>11, <1>12, <1>15, <1>16, <1>17 DEF Next

\* A NANDSafeClose never reports success for a handle whose close has failed
\* since it was opened, whatever fails and however often the guest retries.
THEOREM SafeOkIsTold == Spec => []SafeOkMeansSaved
<1>1. Told => SafeOkMeansSaved
  BY DEF Told, SafeOkMeansSaved
<1> QED
  BY <1>1, TypedInit, TypedStep, ToldInit, ToldStep, PTL DEF Spec

-----------------------------------------------------------------------------
(***************************************************************************)
(* What a crash leaves.  Two worlds are excluded, each of which loses the  *)
(* save in a run of its own: hosts whose rename may fail after the save    *)
(* was removed, and POSIX hosts where several safe writers share a shadow. *)
(***************************************************************************)
SafeWorlds ==
    \A w \in Worlds :
        /\ w.host # "win32" => "rename" \notin w.fails
        /\ w.host = "posix" /\ "safe" \in w.does => \A i, j \in w.infos : i = j

\* Handles and handlers belong to the guest of this world, and on a POSIX host
\* a shadow is discarded only while nothing is open.
Alone ==
    /\ \A i \in Infos : handle[i] # NoHandle => i \in world.infos
    /\ op # Idle => op.info \in world.infos
    /\ op.step = "discard" /\ world.host = "posix" =>
           \A i \in Infos : handle[i] = NoHandle

\* Between two calls of the guest no handler is at any step.
LEMMA IdleStep ==
    /\ Idle.step = "idle"
    /\ \A s \in OpenSteps \cup CloseSteps : s # "idle"
    /\ "idle" \notin ShadowSteps
BY DEF Idle, OpenSteps, CloseSteps, ShadowSteps

\* The program forgets its handles when the machine stops.
LEMMA CrashForgets ==
    ASSUME Crash
    PROVE  /\ op' = Idle
           /\ handle' = [i \in Infos |-> NoHandle]
BY Zenon DEF Crash

\* A close takes the handle away; it goes on to flush what was writable.
LEMMA CloseStarts ==
    ASSUME NEW i \in Infos, NANDClose(i) \/ NANDSafeClose(i)
    PROVE  /\ op = Idle /\ handle[i] # NoHandle
           /\ handle' = [handle EXCEPT ![i] = NoHandle]
           /\ UNCHANGED <<host, ghosts>>
           /\ \/ op' = Idle
              \/ /\ handle[i].write
                 /\ op'.step = "flush" /\ op'.info = i
                 /\ op'.inode = handle[i].inode /\ op'.commit = handle[i].commit
                 /\ op'.before = Visible("save")
<1>1. PICK safe \in BOOLEAN : op = Idle /\ handle[i] # NoHandle /\ Retire(i, safe)
  BY DEF NANDClose, NANDSafeClose
<1>2. CASE handle[i].write
  BY <1>1, <1>2 DEF Retire
<1>3. CASE ~ handle[i].write
  BY <1>1, <1>3 DEF Retire
<1> QED
  BY <1>2, <1>3

\* No file is open.
LEMMA AloneInit == Init => Alone
BY DEF Init, Alone, Idle

\* No step changes the world.
LEMMA WorldStays == [Next]_vars => world' = world
<1> SUFFICES ASSUME Next PROVE world' = world
  BY DEF vars
<1>1. CASE Crash
  BY <1>1, Zenon DEF Crash
<1>2. CASE \E i \in Infos : NANDClose(i) \/ NANDSafeClose(i) \/ RetryClose(i)
  BY <1>2 DEF NANDClose, NANDSafeClose, RetryClose, Retire, ghosts
<1>3. CASE FlushStep \/ RenameStep \/ UnlinkStep
  BY <1>3 DEF FlushStep, RenameStep, UnlinkStep, CloseReturns, Goes
<1>4. CASE SecondRenameStep \/ DirSyncStep \/ DropShadowStep
  BY <1>4 DEF SecondRenameStep, DirSyncStep, DropShadowStep, CloseReturns, Goes
<1>5. CASE DiscardStep \/ CopyStep \/ FopenStep \/ DropStep \/ InPlaceStep
  BY <1>5 DEF DiscardStep, CopyStep, FopenStep, DropStep, InPlaceStep, ghosts
<1>6. CASE \E i \in Infos : \/ \E safe \in BOOLEAN : OpensForReading(i, safe)
                            \/ \E b \in Blocks : NANDWrite(i, b)
                            \/ NANDOpen(i) \/ NANDSafeOpen(i)
  BY <1>6 DEF OpensForReading, NANDWrite, NANDOpen, NANDSafeOpen, ghosts
<1>7. CASE NANDCreate \/ NANDDelete \/ HostWritesBack
  BY <1>7 DEF NANDCreate, NANDDelete, HostWritesBack, ghosts
<1> QED
  BY <1>1, <1>2, <1>3, <1>4, <1>5, <1>6, <1>7 DEF Next

\* Every step keeps one user of a shadow.
LEMMA AloneStep ==
    ASSUME SafeWorlds, Typed, Alone, [Next]_vars
    PROVE  Alone'
<1>0. /\ handle \in [Infos -> Handles]
      /\ world' = world
  BY WorldStays DEF Typed, GuestOK
\* The handles are at most those of before, and the handler does not discard.
<1>1. ASSUME op'.step # "discard",
             op' = Idle \/ op'.info \in world.infos,
             \A i \in Infos : handle'[i] \in {handle[i], NoHandle}
      PROVE  Alone'
  BY <1>0, <1>1 DEF Alone
<1>2. ASSUME op'.step # "discard",
             op' = Idle \/ op'.info \in world.infos,
             NEW i \in world.infos, NEW h, NEW f, Opened(i, h, f)
      PROVE  Alone'
  BY <1>0, <1>2 DEF Alone, Opened
<1>3. ASSUME NEW i \in Infos, NEW safe \in BOOLEAN, OpensForReading(i, safe)
      PROVE  Alone'
  <2>1. op' = Idle /\ op'.step # "discard" /\ i \in world.infos
    BY <1>3 DEF OpensForReading, MayOpen, Idle
  <2>2. handle' = handle \/ \E h, f : Opened(i, h, f)
    BY <1>3 DEF OpensForReading
  <2> QED
    BY <1>1, <1>2, <2>1, <2>2
<1>4. ASSUME NEW i \in Infos, NANDOpen(i) PROVE Alone'
  <2>1. /\ op'.info \in world.infos /\ handle' = handle
        /\ op'.step = "discard" => \A j \in Infos : handle[j] = NoHandle
    BY <1>4 DEF NANDOpen, MayOpen, IsHostPathOpen, guest
  <2> QED
    BY <1>0, <2>1 DEF Alone
<1>5. ASSUME NEW i \in Infos, NANDSafeOpen(i) PROVE Alone'
  <2>1. /\ i \in world.infos /\ op'.info = i /\ handle' = handle
        /\ handle[i] = NoHandle /\ "safe" \in world.does
    BY <1>5 DEF NANDSafeOpen, MayOpen, guest, Does
  <2>2. world.host = "posix" => \A j \in Infos : handle[j] = NoHandle
    BY <2>1 DEF SafeWorlds, Alone, Typed, GuestOK
  <2> QED
    BY <1>0, <2>1, <2>2 DEF Alone
<1>6. CASE DiscardStep \/ CopyStep \/ DropStep
  <2>1. op \in OpenOps /\ {"copy", "fopen", "drop", "inPlace"} \subseteq OpenSteps
    BY <1>6, OpFields DEF DiscardStep, CopyStep, DropStep, OpenSteps, Typed
  <2>2. op'.step # "discard" /\ (op' = Idle \/ op'.info = op.info)
    BY <1>6, <2>1 DEF DiscardStep, CopyStep, DropStep, WithoutShadow, OpenOps, Idle
  <2>3. handle' = handle /\ op # Idle
    BY <1>6 DEF DiscardStep, CopyStep, DropStep, guest, Idle
  <2> QED
    BY <1>1, <2>2, <2>3 DEF Alone
<1>7. CASE FopenStep \/ InPlaceStep
  <2>1. op \in OpenOps /\ "drop" \in OpenSteps /\ op # Idle
    BY <1>7, OpFields DEF FopenStep, InPlaceStep, OpenSteps, Typed, Idle
  <2>2. op'.step # "discard" /\ (op' = Idle \/ op'.info = op.info)
    BY <1>7, <2>1 DEF FopenStep, InPlaceStep, OpenOps, Idle
  <2>3. handle' = handle \/ \E h, f : Opened(op.info, h, f)
    BY <1>7 DEF FopenStep, InPlaceStep
  <2> QED
    BY <1>1, <1>2, <2>1, <2>2, <2>3 DEF Alone
<1>8. CASE NANDCreate \/ NANDDelete \/ \E i \in Infos, b \in Blocks : NANDWrite(i, b)
  <2>1. op' = Idle /\ op'.step # "discard" /\ handle' = handle
    BY <1>8, IdleStep DEF NANDCreate, NANDDelete, NANDWrite, guest
  <2> QED
    BY <1>1, <2>1
<1>9. ASSUME NEW i \in Infos, NANDClose(i) \/ NANDSafeClose(i) PROVE Alone'
  <2>1. /\ handle' = [handle EXCEPT ![i] = NoHandle]
        /\ op' = Idle \/ op'.info = i
        /\ op'.step # "discard"
        /\ handle[i] # NoHandle
    BY <1>9, IdleStep, CloseStarts
  <2> QED
    BY <1>0, <1>1, <2>1 DEF Alone
<1>10. ASSUME NEW i \in Infos, RetryClose(i) PROVE Alone'
  BY <1>1, <1>10 DEF RetryClose, Idle
<1>11. CASE FlushStep \/ RenameStep \/ UnlinkStep \/ SecondRenameStep \/ DirSyncStep
            \/ DropShadowStep
  <2>0. op.step \in CloseSteps
    BY <1>11
    DEF FlushStep, RenameStep, UnlinkStep, SecondRenameStep, DirSyncStep,
        DropShadowStep, CloseSteps
  <2>1. op \in CloseOps /\ op # Idle
    BY <2>0, OpFields, IdleStep DEF Typed
  <2>2. \/ \E ok \in BOOLEAN : CloseReturns(ok)
        \/ \E step \in CloseSteps : Goes(step)
    BY <1>11 DEF FlushStep, RenameStep, UnlinkStep, SecondRenameStep, DirSyncStep,
                 DropShadowStep, CloseSteps, AfterFailedRename
  <2>3. op' = Idle \/ (op'.info = op.info /\ op'.step \in CloseSteps)
    BY <2>1, <2>2 DEF CloseReturns, Goes, CloseOps
  <2>4. op'.step # "discard" /\ handle' = handle
    BY <2>2, <2>3 DEF CloseSteps, Idle, CloseReturns, Goes, guest
  <2> QED
    BY <1>1, <2>1, <2>3, <2>4 DEF Alone
<1>12. CASE HostWritesBack \/ UNCHANGED vars
  BY <1>0, <1>12 DEF HostWritesBack, guest, vars, Alone
<1>13. CASE Crash
  <2>1. op' = Idle /\ op'.step # "discard" /\ handle' = [i \in Infos |-> NoHandle]
    BY <1>13, CrashForgets, IdleStep
  <2> QED
    BY <1>1, <2>1
<1> QED
  BY <1>3, <1>4, <1>5, <1>6, <1>7, <1>8, <1>9, <1>10, <1>11, <1>12, <1>13 DEF Next

-----------------------------------------------------------------------------
(***************************************************************************)
(* Which file is behind which name and which handle.                       *)
(***************************************************************************)
NamesIn(d) == {d["save"], d["temp"]}
NoCommit == \A i \in Infos : ~ handle[i].commit

\* A handle that will commit is on the shadow, no directory that a crash may
\* bring back calls that file the save, and there is one such handle at most;
\* a handle that writes in place is not on the shadow.
HandlesNamed ==
    /\ \A i \in Infos : handle[i].commit =>
          /\ handle[i].inode = dir["temp"]
          /\ \A d \in OnDisk : d["save"] # handle[i].inode
    /\ \A i, j \in Infos : handle[i].commit /\ handle[j].commit => i = j
    /\ \A i \in Infos : handle[i].write /\ ~ handle[i].commit =>
          handle[i].inode # dir["temp"]

\* While a handler makes a shadow nothing else refers to it.
OpeningNamed ==
    /\ op.step = "copy" => dir["temp"] = NoInode
    /\ op.step \in {"fopen", "drop"} =>
          /\ dir["temp"] \notin OpenFiles
          /\ \A d \in older : dir["temp"] \notin NamesIn(d)

\* While a handler commits a shadow it is the only one to do so; only the
\* Switch's card has the save removed first, and only there it is missing.
ClosingNamed ==
    /\ op.step \in CloseSteps /\ op.commit => NoCommit
    /\ op.step = "flush" /\ op.commit => op.inode = dir["temp"]
    /\ op.step \in CloseSteps \ {"flush"} => op.commit
    /\ op.step \in {"rename", "unlink", "rename2"} => dir["temp"] # NoInode
    /\ op.step \in {"unlink", "rename2"} => world.host = "fat"
    /\ op.step = "rename2" => dir["save"] = NoInode
    /\ op.step = "dirsync" =>
          /\ dir["save"] # NoInode /\ dir["temp"] = NoInode
          /\ \A i \in Infos : handle[i].write => handle[i].inode # dir["save"]

NamesOK == HandlesNamed /\ OpeningNamed /\ ClosingNamed

\* Handles and the files they are on.
LEMMA HandleFields ==
    ASSUME Typed, NEW i \in Infos
    PROVE  /\ handle[i] \in Handles
           /\ handle[i].commit \in BOOLEAN /\ handle[i].write \in BOOLEAN
           /\ handle[i].commit \/ handle[i].write =>
                 handle[i].inode \in Inodes /\ handle[i].inode # NoInode
           /\ handle[i].inode \in OpenFiles
           /\ ~ NoHandle.commit /\ ~ NoHandle.write
<1>1. handle[i] \in Handles
  BY DEF Typed, GuestOK
<1>2. \A j \in Inodes : j # NoInode
  BY DEF Inodes, NoInode
<1>3. handle[i].inode \in OpenFiles
  BY DEF OpenFiles
<1>4. CASE handle[i] = NoHandle
  BY <1>1, <1>3, <1>4 DEF NoHandle
<1>5. CASE handle[i] \in [inode : Inodes, commit : BOOLEAN, write : BOOLEAN]
  BY <1>1, <1>2, <1>3, <1>5 DEF NoHandle
<1> QED
  BY <1>1, <1>4, <1>5 DEF Handles

\* A handler that is over, or at a step without demands of its own.
LEMMA FreeOfDemands ==
    ASSUME op'.step \in {"idle", "discard", "inPlace"}
    PROVE  OpeningNamed' /\ ClosingNamed'
BY DEF OpeningNamed, ClosingNamed, CloseSteps

\* Nothing but the handles and the directory matters.
LEMMA HandlesSame ==
    ASSUME HandlesNamed, UNCHANGED <<handle, dir>>, older' \subseteq older
    PROVE  HandlesNamed'
BY DEF HandlesNamed, OnDisk

\* No handle will commit, and none writes to the file of the shadow's name.
LEMMA NoneCommits ==
    ASSUME NoCommit',
           \A i \in Infos : handle'[i].write => handle'[i].inode # dir'["temp"]
    PROVE  HandlesNamed'
BY DEF HandlesNamed, NoCommit

\* No handle has a name.
LEMMA NamesInit == Init => NamesOK
<1> SUFFICES ASSUME Init PROVE NamesOK
  OBVIOUS
<1>1. \A i \in Infos : ~ handle[i].commit /\ ~ handle[i].write
  BY DEF Init, NoHandle
<1> QED
  BY <1>1, IdleStep DEF Init, NamesOK, HandlesNamed, OpeningNamed, ClosingNamed

\* Opening for reading, or with a handle in place: a handle that does not
\* commit, on a file that is not the shadow.
LEMMA NamesOpened ==
    ASSUME Typed, NamesOK, NEW i \in Infos, NEW h, NEW f,
           Opened(i, h, f), ~ h.commit, h.write => h.inode # dir["temp"],
           UNCHANGED dir, older' = older, op'.step = "idle"
    PROVE  NamesOK'
<1>1. handle' = [handle EXCEPT ![i] = h] /\ handle \in [Infos -> Handles]
  BY DEF Opened, Typed, GuestOK
<1>2. HandlesNamed'
  BY <1>1 DEF NamesOK, HandlesNamed, OnDisk
<1> QED
  BY <1>2, FreeOfDemands DEF NamesOK

\* An open for reading.
LEMMA NamesRead ==
    ASSUME Typed, NamesOK, NEW i \in Infos, NEW safe \in BOOLEAN,
           OpensForReading(i, safe)
    PROVE  NamesOK'
<1>1. /\ UNCHANGED <<dir, older>>
      /\ op'.step = "idle"
  BY IdleStep DEF OpensForReading, MayOpen, host
<1>2. CASE UNCHANGED handle
  BY <1>1, <1>2, HandlesSame, FreeOfDemands DEF NamesOK
<1> DEFINE h == [inode |-> dir["save"], commit |-> FALSE, write |-> FALSE]
<1>3. ~ h.commit /\ ~ h.write
  OBVIOUS
<1> HIDE DEF h
<1>4. CASE Opened(i, h, OpenFlag(safe))
  BY <1>1, <1>3, <1>4, NamesOpened
<1> QED
  BY <1>2, <1>4 DEF OpensForReading, h

\* Removing the shadow: no handle commits afterwards.
LEMMA ShadowRemoved ==
    ASSUME Typed, HandlesNamed, NoCommit, Removed("temp"), UNCHANGED handle
    PROVE  HandlesNamed' /\ dir'["temp"] = NoInode /\ dir'["save"] = dir["save"]
<1>1. dir'["temp"] = NoInode /\ dir'["save"] = dir["save"]
  BY RemovedOK, HostHalves DEF Typed, Names, HostOK, Directories
<1>2. NoCommit'
  BY DEF NoCommit
<1>3. \A i \in Infos : handle'[i].write => handle'[i].inode # dir'["temp"]
  BY <1>1, HandleFields
<1> QED
  BY <1>1, <1>2, <1>3, NoneCommits

\* An orphaned shadow is discarded.
LEMMA NamesDiscard ==
    ASSUME Typed, Alone, NamesOK, DiscardStep
    PROVE  NamesOK'
<1>0. op \in OpenOps /\ op.step = "discard" /\ handle' = handle
  BY OpFields DEF DiscardStep, Typed, OpenSteps, guest
<1>1. CASE Removed("temp") /\ op' = [op EXCEPT !.step = "copy"]
  <2>1. NoCommit
    <3>1. CASE world.host = "posix"
      BY <1>0, <3>1 DEF Alone, NoCommit, NoHandle
    <3>2. CASE dir["temp"] \notin OpenFiles
      BY <3>2, HandleFields DEF NamesOK, HandlesNamed, NoCommit
    <3> QED
      BY <1>1, <3>1, <3>2 DEF Removed, Removable
  <2>2. HandlesNamed' /\ dir'["temp"] = NoInode
    BY <1>0, <1>1, <2>1, ShadowRemoved DEF NamesOK
  <2>3. op'.step = "copy"
    BY <1>0, <1>1 DEF OpenOps
  <2> QED
    BY <2>2, <2>3 DEF NamesOK, OpeningNamed, ClosingNamed, CloseSteps
<1>2. CASE dir["temp"] = NoInode /\ op' = [op EXCEPT !.step = "copy"]
           /\ UNCHANGED <<dir, older>>
  <2>1. HandlesNamed'
    BY <1>0, <1>2, HandlesSame DEF NamesOK
  <2>2. op'.step = "copy"
    BY <1>0, <1>2 DEF OpenOps
  <2> QED
    BY <1>2, <2>1, <2>2 DEF NamesOK, OpeningNamed, ClosingNamed, CloseSteps
<1>3. CASE op' = WithoutShadow /\ UNCHANGED <<dir, older>>
  <2>1. HandlesNamed'
    BY <1>0, <1>3, HandlesSame DEF NamesOK
  <2>2. op'.step \in {"idle", "inPlace"}
    BY <1>0, <1>3, IdleStep DEF WithoutShadow, OpenOps
  <2> QED
    BY <2>1, <2>2, FreeOfDemands DEF NamesOK
<1> QED
  BY <1>1, <1>2, <1>3 DEF DiscardStep

\* A shadow is made of the original.
LEMMA NamesCopy ==
    ASSUME Typed, NamesOK, CopyStep
    PROVE  NamesOK'
<1>0. op \in OpenOps /\ op.step = "copy" /\ handle' = handle
  BY OpFields DEF CopyStep, Typed, OpenSteps, guest
<1>1. op'.step \in {"fopen", "drop"}
  BY <1>0 DEF CopyStep, OpenOps
<1>2. PICK c \in Contents : CreatedFile("temp", c)
  BY <1>0, VisibleOK, BlankIsNotMissing
  DEF CopyStep, Typed, OpeningOK, ShadowSteps, Names
<1>3. /\ FreshInode \in FreeInodes
      /\ dir' = [dir EXCEPT !["temp"] = FreshInode]
      /\ older' = older \cup {dir}
  BY <1>2, CreatedOK DEF Typed, Names, CreatedFile, Relinked
<1> DEFINE fresh == FreshInode
<1>4. /\ fresh \notin OpenFiles
      /\ \A d \in OnDisk : fresh \notin NamesIn(d)
  BY <1>3, FreeIsUnused DEF NamesIn
<1>5. dir'["temp"] = fresh
  BY <1>3 DEF Typed, HostOK, Directories, Names
<1> HIDE DEF fresh
<1>6. OpenFiles' = OpenFiles
  BY <1>0, <1>1 DEF OpenFiles
<1>7. NoCommit
  BY <1>0, HandleFields DEF NamesOK, OpeningNamed, HandlesNamed, NoCommit
<1>8. HandlesNamed'
  BY <1>0, <1>4, <1>5, <1>7, HandleFields, NoneCommits DEF NoCommit
<1>9. OpeningNamed'
  BY <1>1, <1>3, <1>4, <1>5, <1>6 DEF OpeningNamed, OnDisk
<1> QED
  BY <1>1, <1>8, <1>9 DEF NamesOK, ClosingNamed, CloseSteps

\* The host file is opened.
LEMMA NamesFopen ==
    ASSUME Typed, NamesOK, FopenStep
    PROVE  NamesOK'
<1>0. /\ op \in OpenOps /\ op.step = "fopen"
      /\ UNCHANGED <<dir, older>>
      /\ dir["temp"] # NoInode /\ dir["temp"] # dir["save"]
  BY OpFields
  DEF FopenStep, Typed, OpenSteps, host, OpeningOK, HostOK, Distinct, OnDisk
<1>1. CASE op' = [op EXCEPT !.step = "drop"] /\ UNCHANGED handle
  <2>1. op'.step = "drop" /\ OpenFiles' = OpenFiles
    BY <1>0, <1>1 DEF OpenOps, OpenFiles
  <2> QED
    BY <1>0, <1>1, <2>1, HandlesSame
    DEF NamesOK, OpeningNamed, ClosingNamed, CloseSteps
<1> DEFINE h == [inode |-> dir["temp"], commit |-> TRUE, write |-> TRUE]
<1>2. h.inode = dir["temp"] /\ h.commit
  OBVIOUS
<1> HIDE DEF h
<1>3. CASE Opened(op.info, h, OpenFlag(op.safe)) /\ op' = Idle
  <2>1. handle' = [handle EXCEPT ![op.info] = h] /\ handle \in [Infos -> Handles]
    BY <1>3 DEF Opened, Typed, GuestOK
  <2>2. NoCommit
    BY <1>0, HandleFields DEF NamesOK, OpeningNamed, HandlesNamed, NoCommit
  <2>3. \A d \in OnDisk : d["save"] # dir["temp"]
    BY <1>0 DEF NamesOK, OpeningNamed, NamesIn, OnDisk
  <2>4. HandlesNamed'
    BY <1>0, <1>2, <2>1, <2>2, <2>3 DEF NamesOK, HandlesNamed, NoCommit, OnDisk
  <2> QED
    BY <1>3, <2>4, IdleStep, FreeOfDemands DEF NamesOK
<1> QED
  BY <1>1, <1>3 DEF FopenStep, h

\* An open that fails drops its shadow.
LEMMA NamesDrop ==
    ASSUME Typed, NamesOK, DropStep
    PROVE  NamesOK'
<1>0. op \in OpenOps /\ op.step = "drop" /\ handle' = handle
  BY OpFields DEF DropStep, Typed, OpenSteps, guest
<1>1. op'.step \in {"idle", "inPlace"}
  BY <1>0, IdleStep DEF DropStep, WithoutShadow, OpenOps
<1>2. NoCommit
  BY <1>0, HandleFields DEF NamesOK, OpeningNamed, HandlesNamed, NoCommit
<1>3. HandlesNamed'
  BY <1>0, <1>2, ShadowRemoved, HandlesSame DEF DropStep, Dropped, NamesOK
<1> QED
  BY <1>1, <1>3, FreeOfDemands DEF NamesOK

\* A file is opened in place.
LEMMA NamesInPlace ==
    ASSUME Typed, NamesOK, InPlaceStep
    PROVE  NamesOK'
<1>0. /\ op'.step = "idle"
      /\ handle \in [Infos -> Handles]
      /\ "save" \in Names /\ op.info \in Infos
  BY IdleStep, OpFields
  DEF InPlaceStep, Typed, GuestOK, Names, OpenSteps, OpenOps
\* A new save is on a file that no handle has.
<1>1. ASSUME CreatedFile("save", Blank)
      PROVE  /\ dir'["save"] = FreshInode /\ dir'["temp"] = dir["temp"]
             /\ FreshInode # dir["temp"]
             /\ \A i \in Infos : handle[i].inode # FreshInode
             /\ older' = older \cup {dir}
  <2>1. /\ FreshInode \in FreeInodes
        /\ dir' = [dir EXCEPT !["save"] = FreshInode]
        /\ older' = older \cup {dir}
    BY <1>0, <1>1, CreatedOK, BlankIsNotMissing DEF Typed, CreatedFile, Relinked
  <2>2. /\ FreshInode \notin OpenFiles
        /\ FreshInode # dir["temp"]
    BY <2>1, FreeIsUnused DEF OnDisk
  <2> QED
    BY <1>0, <2>1, <2>2, HandleFields DEF Typed, HostOK, Directories, Names
<1>2. PICK i : /\ \/ UNCHANGED handle
                  \/ /\ i # dir["temp"]
                     /\ handle' = [handle EXCEPT ![op.info] =
                            [inode |-> i, commit |-> FALSE, write |-> TRUE]]
  <2>1. dir["save"] # NoInode => dir["save"] # dir["temp"]
    BY DEF Typed, HostOK, OnDisk, Distinct
  <2> QED
    BY <1>1, <2>1 DEF InPlaceStep, Opened
<1>3. /\ dir'["temp"] = dir["temp"]
      /\ \A d \in OnDisk' : d \in OnDisk \/ \A j \in Infos : handle[j].inode # d["save"]
  <2>1. CASE UNCHANGED <<dir, older>>
    BY <2>1 DEF OnDisk
  <2>2. CASE CreatedFile("save", Blank)
    BY <1>1, <2>2 DEF OnDisk
  <2> QED
    BY <2>1, <2>2 DEF InPlaceStep, host
<1> DEFINE h == [inode |-> i, commit |-> FALSE, write |-> TRUE]
<1>4. ~ h.commit /\ h.inode = i
  OBVIOUS
<1>5. UNCHANGED handle \/ (i # dir["temp"] /\ handle' = [handle EXCEPT ![op.info] = h])
  BY <1>2
<1> HIDE DEF h
<1>6. HandlesNamed'
  <2>1. ASSUME NEW j \in Infos, handle'[j].commit
        PROVE  handle'[j] = handle[j]
    BY <1>0, <1>4, <1>5, <2>1
  <2>2. ASSUME NEW j \in Infos, handle'[j].write, ~ handle'[j].commit
        PROVE  handle'[j].inode # dir'["temp"]
    BY <1>0, <1>3, <1>4, <1>5, <2>2 DEF NamesOK, HandlesNamed
  <2> QED
    BY <1>3, <2>1, <2>2 DEF NamesOK, HandlesNamed
<1> QED
  BY <1>0, <1>6, FreeOfDemands DEF NamesOK

\* Calls of the guest on its handles.
LEMMA NamesGuest ==
    ASSUME Typed, NamesOK,
           \/ NANDCreate \/ NANDDelete
           \/ \E i \in Infos : NANDOpen(i) \/ NANDSafeOpen(i) \/ RetryClose(i)
           \/ \E i \in Infos, b \in Blocks : NANDWrite(i, b)
    PROVE  NamesOK'
<1>0. op'.step \in {"idle", "discard", "inPlace"}
  <2>1. CASE \E i \in Infos : NANDOpen(i) \/ NANDSafeOpen(i)
    BY <2>1 DEF NANDOpen, NANDSafeOpen
  <2>2. CASE ~ \E i \in Infos : NANDOpen(i) \/ NANDSafeOpen(i)
    BY <2>2, IdleStep DEF NANDCreate, NANDDelete, RetryClose, NANDWrite, guest
  <2> QED
    BY <2>1, <2>2
<1>1. handle' = handle
  BY DEF NANDCreate, NANDDelete, NANDOpen, NANDSafeOpen, RetryClose, NANDWrite, guest
<1>2. CASE UNCHANGED <<dir, older>>
  BY <1>0, <1>1, <1>2, HandlesSame, FreeOfDemands DEF NamesOK
<1>3. CASE CreatedFile("save", Blank)
  <2>1. /\ FreshInode \in FreeInodes
        /\ dir' = [dir EXCEPT !["save"] = FreshInode]
        /\ older' = older \cup {dir}
    BY <1>3, CreatedOK, BlankIsNotMissing DEF Typed, Names, CreatedFile, Relinked
  <2>2. FreshInode \notin OpenFiles
    BY <2>1, FreeIsUnused
  <2>3. /\ dir'["save"] = FreshInode /\ dir'["temp"] = dir["temp"]
        /\ \A i \in Infos : handle[i].inode # FreshInode
    BY <2>1, <2>2, HandleFields DEF Typed, HostOK, Directories, Names
  <2>4. HandlesNamed'
    <3>1. \A d \in OnDisk' : d \in OnDisk \/ d["save"] = FreshInode
      BY <2>1, <2>3 DEF OnDisk
    <3> QED
      BY <1>1, <2>3, <3>1 DEF NamesOK, HandlesNamed
  <2> QED
    BY <1>0, <2>4, FreeOfDemands DEF NamesOK
<1>4. CASE Removed("save")
  <2>1. /\ dir'["save"] = NoInode /\ dir'["temp"] = dir["temp"]
        /\ older' = older \cup {dir}
    BY <1>4, RemovedOK, HostHalves
    DEF Typed, HostOK, Directories, Names, Removed, Relinked
  <2>2. HandlesNamed'
    BY <1>1, <2>1, HandleFields DEF NamesOK, HandlesNamed, OnDisk
  <2> QED
    BY <1>0, <2>2, FreeOfDemands DEF NamesOK
<1> QED
  BY <1>2, <1>3, <1>4
  DEF NANDCreate, NANDDelete, NANDOpen, NANDSafeOpen, RetryClose, NANDWrite, host

\* A close begins.
LEMMA NamesClose ==
    ASSUME Typed, NamesOK, NEW i \in Infos, NANDClose(i) \/ NANDSafeClose(i)
    PROVE  NamesOK'
<1>1. /\ handle' = [handle EXCEPT ![i] = NoHandle] /\ handle \in [Infos -> Handles]
      /\ UNCHANGED <<dir, older>>
      /\ \/ op' = Idle
         \/ /\ op'.step = "flush"
            /\ op'.inode = handle[i].inode /\ op'.commit = handle[i].commit
  BY CloseStarts DEF host, Typed, GuestOK
<1>2. \A j \in Infos : handle'[j].commit => handle'[j] = handle[j] /\ j # i
  BY <1>1, HandleFields
<1>3. \A j \in Infos : handle'[j].write => handle'[j] = handle[j]
  BY <1>1, HandleFields
<1>4. HandlesNamed'
  BY <1>1, <1>2, <1>3 DEF NamesOK, HandlesNamed, OnDisk
<1>5. CASE op' = Idle
  BY <1>4, <1>5, IdleStep, FreeOfDemands DEF NamesOK
<1>6. CASE /\ op'.step = "flush"
           /\ op'.inode = handle[i].inode /\ op'.commit = handle[i].commit
  BY <1>1, <1>2, <1>4, <1>6 DEF NamesOK, HandlesNamed, OpeningNamed, ClosingNamed, NoCommit
<1> QED
  BY <1>1, <1>5, <1>6

\* A close in progress has the fields of a close; it returns or goes on.
LEMMA ClosingStep ==
    ASSUME Typed,
           \/ FlushStep \/ RenameStep \/ UnlinkStep \/ SecondRenameStep
           \/ DirSyncStep \/ DropShadowStep
    PROVE  /\ op \in CloseOps /\ op.step \in CloseSteps
           /\ handle' = handle
           /\ \/ op' = Idle
              \/ op' \in CloseOps /\ \E step \in CloseSteps : op' = [op EXCEPT !.step = step]
<1>1. op.step \in CloseSteps
  BY DEF FlushStep, RenameStep, UnlinkStep, SecondRenameStep, DirSyncStep,
         DropShadowStep, CloseSteps
<1>2. op \in CloseOps
  BY <1>1, OpFields DEF Typed
<1>3. \/ \E ok \in BOOLEAN : CloseReturns(ok)
      \/ \E step \in CloseSteps : Goes(step)
  BY DEF FlushStep, RenameStep, UnlinkStep, SecondRenameStep, DirSyncStep,
         DropShadowStep, CloseSteps, AfterFailedRename
<1> QED
  BY <1>1, <1>2, <1>3 DEF CloseReturns, Goes, guest, CloseOps

\* A close flushes and closes the host file.
LEMMA NamesFlush ==
    ASSUME Typed, NamesOK, FlushStep
    PROVE  NamesOK'
<1>0. op \in CloseOps /\ op.inode # NoInode /\ op.step = "flush" /\ op.step \in CloseSteps
  <2>1. op \in CloseOps /\ op.step = "flush" /\ op.step \in CloseSteps
    BY ClosingStep DEF FlushStep
  <2>2. \A i \in Inodes : i # NoInode
    BY DEF Inodes, NoInode
  <2> QED
    BY <2>1, <2>2 DEF CloseOps
<1>1. UNCHANGED <<dir, older, handle>>
  BY ClosingStep DEF FlushStep
<1>2. HandlesNamed'
  BY <1>1, HandlesSame DEF NamesOK
<1>3. CASE op' = Idle
  BY <1>2, <1>3, IdleStep, FreeOfDemands DEF NamesOK
<1>4. CASE op.commit /\ \E st \in {"rename", "dropShadow"} : op' = [op EXCEPT !.step = st]
  <2>1. op'.step \in {"rename", "dropShadow"} /\ op'.commit
    BY <1>0, <1>4 DEF CloseOps
  <2> QED
    BY <1>0, <1>1, <1>2, <1>4, <2>1
    DEF NamesOK, OpeningNamed, ClosingNamed, NoCommit
<1> QED
  BY <1>3, <1>4 DEF FlushStep, Goes, CloseReturns

\* A rename that can fail has something in its way.
LEMMA RenameFails ==
    ASSUME SafeWorlds, Typed, world.host # "win32", dir["temp"] # NoInode
    PROVE  /\ ~ MayFail("rename")
           /\ ~ Replaceable => world.host = "fat" /\ dir["save"] # NoInode
<1>1. world \in Worlds /\ world.host \in Hosts
  BY NandAssumption DEF Typed, GuestOK
<1> QED
  BY <1>1 DEF SafeWorlds, MayFail, Replaceable, Hosts

\* The shadow has become the save.
LEMMA NamesRenamed ==
    ASSUME Typed, NamesOK, dir["temp"] # NoInode, NoCommit, op.step \in CloseSteps,
           dir' = Renamed, UNCHANGED handle,
           op' = Idle \/ (op'.step = "dirsync" /\ op'.commit)
    PROVE  NamesOK'
<1>1. dir'["save"] = dir["temp"] /\ dir'["temp"] = NoInode
  BY RenamedOK, HostHalves DEF Typed
<1>2. NoCommit'
  BY DEF NoCommit
<1>3. \A i \in Infos : handle'[i].write =>
         handle'[i].inode # dir'["save"] /\ handle'[i].inode # dir'["temp"]
  BY <1>1, HandleFields DEF NamesOK, HandlesNamed, NoCommit
<1>4. HandlesNamed'
  BY <1>2, <1>3, NoneCommits
<1>5. CASE op' = Idle
  BY <1>4, <1>5, IdleStep, FreeOfDemands DEF NamesOK
<1>6. CASE op'.step = "dirsync" /\ op'.commit
  BY <1>1, <1>2, <1>3, <1>4, <1>6 DEF NamesOK, OpeningNamed, ClosingNamed
<1> QED
  BY <1>5, <1>6

\* A close renames the shadow over the original.
LEMMA NamesRename ==
    ASSUME SafeWorlds, Typed, NamesOK, RenameStep
    PROVE  NamesOK'
<1>0. /\ op \in CloseOps /\ op.step = "rename" /\ op.step \in CloseSteps
      /\ op.commit /\ dir["temp"] # NoInode /\ NoCommit /\ handle' = handle
  BY ClosingStep DEF RenameStep, NamesOK, ClosingNamed, CloseSteps
<1>1. CASE dir' = Renamed /\ (op' = Idle \/ op' = [op EXCEPT !.step = "dirsync"])
  <2>1. op' = Idle \/ (op'.step = "dirsync" /\ op'.commit)
    BY <1>0, <1>1 DEF CloseOps
  <2> QED
    BY <1>0, <1>1, <2>1, NamesRenamed
<1>2. CASE /\ UNCHANGED host
           /\ MayFail("rename") \/ ~ Replaceable
           /\ op' = [op EXCEPT !.step = AfterFailedRename]
  <2>1. HandlesNamed'
    BY <1>0, <1>2, HandlesSame DEF NamesOK, host
  <2>2. op'.step \in {"unlink", "dropShadow"} /\ op'.commit
        /\ op'.step = AfterFailedRename
    BY <1>0, <1>2 DEF CloseOps, AfterFailedRename
  <2>3. op'.step = "unlink" => world.host = "fat"
    BY <1>0, <1>2, <2>2, RenameFails DEF AfterFailedRename
  <2>4. world' = world
    BY WorldStays DEF Next
  <2> QED
    BY <1>0, <1>2, <2>1, <2>2, <2>3, <2>4
    DEF NamesOK, OpeningNamed, ClosingNamed, NoCommit, host
<1> QED
  BY <1>1, <1>2 DEF RenameStep, Relinked, CloseReturns, Goes

\* The original is unlinked.
LEMMA NamesUnlink ==
    ASSUME Typed, NamesOK, UnlinkStep
    PROVE  NamesOK'
<1>0. /\ op \in CloseOps /\ op.step = "unlink" /\ op.step \in CloseSteps
      /\ op.commit /\ dir["temp"] # NoInode /\ NoCommit /\ handle' = handle
      /\ world.host = "fat" /\ world' = world
  BY ClosingStep, WorldStays DEF UnlinkStep, NamesOK, ClosingNamed, CloseSteps, Next
<1>1. CASE Removed("save") /\ op' = [op EXCEPT !.step = "rename2"]
  <2>1. dir'["save"] = NoInode /\ dir'["temp"] = dir["temp"]
    BY <1>1, RemovedOK, HostHalves DEF Typed, Names, HostOK, Directories
  <2>2. op'.step = "rename2" /\ op'.commit
    BY <1>0, <1>1 DEF CloseOps
  <2>3. HandlesNamed'
    BY <1>0, <2>1, NoneCommits DEF NamesOK, HandlesNamed, NoCommit
  <2> QED
    BY <1>0, <2>1, <2>2, <2>3 DEF NamesOK, OpeningNamed, ClosingNamed, NoCommit
<1>2. CASE UNCHANGED <<dir, older>> /\ op' = [op EXCEPT !.step = "dropShadow"]
  <2>1. op'.step = "dropShadow" /\ op'.commit
    BY <1>0, <1>2 DEF CloseOps
  <2>2. HandlesNamed'
    BY <1>0, <1>2, HandlesSame DEF NamesOK
  <2> QED
    BY <1>0, <1>2, <2>1, <2>2 DEF NamesOK, OpeningNamed, ClosingNamed, NoCommit
<1> QED
  BY <1>1, <1>2 DEF UnlinkStep, Goes

\* The shadow is renamed again.
LEMMA NamesSecondRename ==
    ASSUME SafeWorlds, Typed, NamesOK, SecondRenameStep
    PROVE  NamesOK' /\ dir' = Renamed /\ op' = [op EXCEPT !.step = "dirsync"]
<1>0. /\ op \in CloseOps /\ op.step = "rename2" /\ op.step \in CloseSteps
      /\ op.commit /\ dir["temp"] # NoInode /\ NoCommit /\ handle' = handle
      /\ world.host = "fat" /\ dir["save"] = NoInode
  BY ClosingStep DEF SecondRenameStep, NamesOK, ClosingNamed, CloseSteps
<1>1. dir' = Renamed /\ op' = [op EXCEPT !.step = "dirsync"]
  BY <1>0, RenameFails DEF SecondRenameStep, Relinked, Goes
<1>2. op'.step = "dirsync" /\ op'.commit
  BY <1>0, <1>1 DEF CloseOps
<1> QED
  BY <1>0, <1>1, <1>2, NamesRenamed

\* The directory is synchronised.
LEMMA NamesDirSync ==
    ASSUME Typed, NamesOK, DirSyncStep
    PROVE  NamesOK'
<1>1. /\ op' = Idle /\ UNCHANGED <<dir, handle>> /\ older' \subseteq older
  BY DEF DirSyncStep, CloseReturns, Settled
<1> QED
  BY <1>1, IdleStep, HandlesSame, FreeOfDemands DEF NamesOK

\* The shadow of a close that failed is dropped.
LEMMA NamesDropShadow ==
    ASSUME Typed, NamesOK, DropShadowStep
    PROVE  NamesOK'
<1>0. op' = Idle /\ handle' = handle /\ NoCommit
  BY ClosingStep DEF DropShadowStep, CloseReturns, NamesOK, ClosingNamed, CloseSteps
<1>1. HandlesNamed'
  BY <1>0, ShadowRemoved, HandlesSame DEF DropShadowStep, Dropped, NamesOK
<1> QED
  BY <1>0, <1>1, IdleStep, FreeOfDemands DEF NamesOK

\* The host writes back, or crashes.
LEMMA NamesHost ==
    ASSUME Typed, NamesOK, HostWritesBack \/ Crash \/ UNCHANGED vars
    PROVE  NamesOK'
<1>1. CASE HostWritesBack \/ UNCHANGED vars
  <2>1. UNCHANGED <<dir, handle, op, world>> /\ older' \subseteq older
    BY <1>1 DEF HostWritesBack, Settled, guest, ghosts, vars
  <2>2. HandlesNamed'
    BY <2>1, HandlesSame DEF NamesOK
  <2>3. OpenFiles' = OpenFiles
    BY <2>1 DEF OpenFiles
  <2> QED
    BY <2>1, <2>2, <2>3 DEF NamesOK, OpeningNamed, ClosingNamed, NoCommit
<1>2. CASE Crash
  <2>1. \A i \in Infos : ~ handle'[i].commit /\ ~ handle'[i].write
    BY <1>2, CrashForgets DEF NoHandle
  <2> QED
    BY <1>2, <2>1, CrashForgets, IdleStep, NoneCommits, FreeOfDemands
    DEF NamesOK, NoCommit
<1> QED
  BY <1>1, <1>2

\* Every step keeps the names.
LEMMA NamesStep ==
    ASSUME SafeWorlds, Typed, Alone, NamesOK, [Next]_vars
    PROVE  NamesOK'
BY NamesRead, NamesDiscard, NamesCopy, NamesFopen, NamesDrop, NamesInPlace,
   NamesGuest, NamesClose, NamesFlush, NamesRename, NamesUnlink,
   NamesSecondRename, NamesDirSync, NamesDropShadow, NamesHost
DEF Next

-----------------------------------------------------------------------------
(***************************************************************************)
(* What the directories that a crash may bring back hold.                  *)
(***************************************************************************)
Everything == Contents \cup {Missing}

\* The part of CrashLeavesSaveOrShadow about one directory.
SafeFor(d) ==
    \/ Left(d, "save") \subseteq promised
    \/ /\ world.host = "fat"
       /\ d["save"] = NoInode
       /\ Left(d, "temp") \subseteq promised

\* Where a directory has only the shadow that is being written, the guest is
\* ready to find no save.
HiddenFor(d) ==
    \A i \in Infos : handle[i].commit /\ d["save"] = NoInode
                     /\ d["temp"] = handle[i].inode => Missing \in promised

\* A file written in place is one that the guest expects anything of, or one
\* that no crash brings back.
ApartFor(d) ==
    \A i \in Infos : handle[i].write /\ ~ handle[i].commit =>
        promised = Everything \/ handle[i].inode \notin NamesIn(d)

FineDir(d) == SafeFor(d) /\ HiddenFor(d) /\ ApartFor(d)

\* The file is on disk as the program sees it, and promised.
Only(i) ==
    /\ \A b \in Blocks : disk[i][b] = {data[i][b]}
    /\ data[i] \in promised

Accounted == dir["save"] = NoInode => Missing \in promised \/ op.step = "rename2"

Committed ==
    /\ op.step \in {"rename", "unlink", "rename2"} => Only(dir["temp"])
    /\ op.step = "dirsync" => Only(dir["save"])

FineDirs == \A d \in OnDisk : FineDir(d)

ContentsOK == FineDirs /\ Accounted /\ Committed

\* A file of which the disk has one version leaves just that.
LEMMA OneVersion ==
    ASSUME NEW versions, NEW c \in Contents, \A b \in Blocks : versions[b] = {c[b]}
    PROVE  {e \in Contents : \A b \in Blocks : e[b] \in versions[b]} \subseteq {c}
<1>1. SUFFICES ASSUME NEW e \in Contents, \A b \in Blocks : e[b] \in versions[b]
               PROVE  e = c
  OBVIOUS
<1>2. \A b \in Blocks : e[b] = c[b]
  BY <1>1
<1> QED
  BY <1>2 DEF Contents

\* The same of what a crash leaves after a step.
LEMMA LeavesOne ==
    ASSUME NEW d, NEW n, NEW c \in Contents, d[n] # NoInode,
           \A b \in Blocks : disk'[d[n]][b] = {c[b]}
    PROVE  Left(d, n)' \subseteq {c}
<1> DEFINE versions == disk'[d[n]]
<1>1. \A b \in Blocks : versions[b] = {c[b]}
  OBVIOUS
<1>2. Left(d, n)' = {e \in Contents : \A b \in Blocks : e[b] \in versions[b]}
  BY DEF Left
<1> HIDE DEF versions
<1> QED
  BY <1>1, <1>2, OneVersion

\* A step that adds no version to a file adds nothing that a crash may leave.
LEMMA LeavesNoMore ==
    ASSUME NEW d, NEW n,
           d[n] # NoInode => \A b \in Blocks : disk'[d[n]][b] \subseteq disk[d[n]][b]
    PROVE  Left(d, n)' \subseteq Left(d, n)
BY DEF Left

\* A name without a file leaves nothing, and no name leaves anything else than
\* the contents of a file or nothing.
LEMMA LeavesNothing ==
    ASSUME NEW d, NEW n
    PROVE  /\ d[n] = NoInode => Left(d, n) = {Missing} /\ Left(d, n)' = {Missing}
           /\ Left(d, n) \subseteq Everything /\ Left(d, n)' \subseteq Everything
BY DEF Left, Everything

\* A directory stays fine when its files get no new versions, the guest
\* expects no less and no handle starts to write.
LEMMA FineStays ==
    ASSUME NEW d, FineDir(d), world' = world,
           promised \subseteq promised', promised' \subseteq Everything,
           Left(d, "save")' \subseteq Left(d, "save"),
           Left(d, "temp")' \subseteq Left(d, "temp"),
           \A i \in Infos : handle'[i] = handle[i] \/ (~ handle'[i].commit /\ ~ handle'[i].write)
    PROVE  FineDir(d)'
<1>1. SafeFor(d)'
  BY DEF FineDir, SafeFor
<1>2. HiddenFor(d)'
  BY DEF FineDir, HiddenFor
<1>3. ApartFor(d)'
  BY DEF FineDir, ApartFor
<1> QED
  BY <1>1, <1>2, <1>3 DEF FineDir

\* The same for all of them.
LEMMA FineDirsStay ==
    ASSUME FineDirs, world' = world,
           promised \subseteq promised', promised' \subseteq Everything,
           \A d \in OnDisk, n \in Names : Left(d, n)' \subseteq Left(d, n),
           \A i \in Infos : handle'[i] = handle[i] \/ (~ handle'[i].commit /\ ~ handle'[i].write)
    PROVE  \A d \in OnDisk : FineDir(d)'
BY FineStays DEF FineDirs, Names

\* A step that changes no file.
LEMMA DiskSame ==
    ASSUME disk' = disk
    PROVE  \A d \in OnDisk, n \in Names : Left(d, n)' \subseteq Left(d, n)
BY LeavesNoMore

\* A handler at a step without demands on the contents.
LEMMA NothingCommitted ==
    ASSUME op'.step \notin {"rename", "unlink", "rename2", "dirsync"}
    PROVE  Committed'
BY DEF Committed

\* A step that changes neither the disk nor what the guest expects.
LEMMA ContentsSame ==
    ASSUME Typed, ContentsOK, UNCHANGED <<dir, older, disk, promised, world>>,
           op.step # "rename2",
           op'.step \notin {"rename", "unlink", "rename2", "dirsync"},
           \A i \in Infos : handle'[i] = handle[i] \/ (~ handle'[i].commit /\ ~ handle'[i].write)
    PROVE  ContentsOK'
<1>1. promised' \subseteq Everything
  BY DEF Typed, GuestOK, Everything
<1>2. \A d \in OnDisk : FineDir(d)'
  BY <1>1, DiskSame, FineDirsStay DEF ContentsOK
<1>3. FineDirs'
  BY <1>2 DEF FineDirs, OnDisk
<1>4. Accounted'
  BY DEF ContentsOK, Accounted
<1> QED
  BY <1>3, <1>4, NothingCommitted DEF ContentsOK

\* Every directory is fine at the start.
LEMMA ContentsInit == Init => ContentsOK
<1> SUFFICES ASSUME Init PROVE ContentsOK
  OBVIOUS
<1>0. Typed /\ op.step = "idle"
  BY TypedInit, IdleStep DEF Init
<1>1. \A i \in Infos : ~ handle[i].commit /\ ~ handle[i].write
  BY DEF Init, NoHandle
<1>2. Left(dir, "save") \subseteq promised
  <2>1. CASE dir["save"] = NoInode
    BY <2>1 DEF Init, Visible, Left
  <2>2. CASE dir["save"] # NoInode
    <3>1. /\ dir["save"] \in Inodes /\ data[dir["save"]] \in Contents
          /\ promised = {data[dir["save"]]}
      BY <1>0, <2>2 DEF Init, Visible, Typed, HostOK, Directories, Names
    <3> DEFINE versions == disk[dir["save"]]
    <3>2. \A b \in Blocks : versions[b] = {data[dir["save"]][b]}
      BY <3>1 DEF Init
    <3>3. Left(dir, "save") = {e \in Contents : \A b \in Blocks : e[b] \in versions[b]}
      BY <2>2 DEF Left
    <3> HIDE DEF versions
    <3> QED
      BY <3>1, <3>2, <3>3, OneVersion
  <2> QED
    BY <2>1, <2>2
<1>3. FineDir(dir)
  BY <1>1, <1>2 DEF FineDir, SafeFor, HiddenFor, ApartFor
<1>4. FineDirs
  BY <1>3 DEF FineDirs, OnDisk, Init
<1>5. Accounted
  BY DEF Init, Accounted, Visible
<1> QED
  BY <1>0, <1>4, <1>5 DEF ContentsOK, Committed

\* Calls that open for reading, start to open or close, or find no handle.
LEMMA ContentsCalls ==
    ASSUME Typed, ContentsOK,
           \E i \in Infos : \/ \E safe \in BOOLEAN : OpensForReading(i, safe)
                            \/ NANDOpen(i) \/ NANDSafeOpen(i) \/ RetryClose(i)
                            \/ NANDClose(i) \/ NANDSafeClose(i)
    PROVE  ContentsOK'
<1> PICK i \in Infos : \/ \E safe \in BOOLEAN : OpensForReading(i, safe)
                       \/ NANDOpen(i) \/ NANDSafeOpen(i) \/ RetryClose(i)
                       \/ NANDClose(i) \/ NANDSafeClose(i)
  OBVIOUS
<1>0. op.step = "idle" /\ handle \in [Infos -> Handles]
  <2>1. op = Idle
    BY CloseStarts DEF OpensForReading, NANDOpen, NANDSafeOpen, RetryClose, MayOpen
  <2> QED
    BY <2>1, IdleStep DEF Typed, GuestOK
<1>1. CASE \E safe \in BOOLEAN : OpensForReading(i, safe)
  <2> PICK safe \in BOOLEAN : OpensForReading(i, safe)
    BY <1>1
  <2>1. UNCHANGED <<dir, older, disk, promised, world, op>>
    BY DEF OpensForReading, host
  <2> DEFINE h == [inode |-> dir["save"], commit |-> FALSE, write |-> FALSE]
  <2>2. ~ h.commit /\ ~ h.write
    OBVIOUS
  <2> HIDE DEF h
  <2>3. handle' = handle \/ handle' = [handle EXCEPT ![i] = h]
    BY DEF OpensForReading, Opened, h
  <2>4. \A j \in Infos : handle'[j] = handle[j] \/ (~ handle'[j].commit /\ ~ handle'[j].write)
    BY <1>0, <2>2, <2>3
  <2> QED
    BY <1>0, <2>1, <2>4, ContentsSame
<1>2. CASE NANDOpen(i) \/ NANDSafeOpen(i)
  <2>1. UNCHANGED <<dir, older, disk, promised, world, handle>>
    BY <1>2 DEF NANDOpen, NANDSafeOpen, host, guest, ghosts
  <2>2. op'.step \in {"discard", "inPlace"}
    BY <1>2 DEF NANDOpen, NANDSafeOpen
  <2> QED
    BY <1>0, <2>1, <2>2, ContentsSame
<1>3. CASE RetryClose(i)
  <2>1. UNCHANGED <<dir, older, disk, promised, world, handle, op>>
    BY <1>3 DEF RetryClose, host, ghosts
  <2> QED
    BY <1>0, <2>1, ContentsSame
<1>4. CASE NANDClose(i) \/ NANDSafeClose(i)
  <2>1. /\ UNCHANGED <<dir, older, disk, promised, world>>
        /\ op'.step \in {"idle", "flush"}
        /\ handle' = [handle EXCEPT ![i] = NoHandle]
    BY <1>4, CloseStarts, IdleStep DEF host, ghosts
  <2>2. \A j \in Infos : handle'[j] = handle[j] \/ (~ handle'[j].commit /\ ~ handle'[j].write)
    BY <1>0, <2>1 DEF NoHandle
  <2> QED
    BY <1>0, <2>1, <2>2, ContentsSame
<1> QED
  BY <1>1, <1>2, <1>3, <1>4

\* The shadow's name goes: the save is what it was.
LEMMA ContentsShadowRemoved ==
    ASSUME Typed, ContentsOK, Removed("temp"),
           UNCHANGED <<disk, handle, promised, world>>, op.step # "rename2",
           op'.step \notin {"rename", "unlink", "rename2", "dirsync"}
    PROVE  ContentsOK'
<1>1. /\ dir'["temp"] = NoInode /\ dir'["save"] = dir["save"]
      /\ older' = older \cup {dir}
  BY RemovedOK, HostHalves DEF Typed, Names, HostOK, Directories, Removed, Relinked
<1>2. promised' \subseteq Everything
  BY DEF Typed, GuestOK, Everything
<1>3. \A d \in OnDisk : FineDir(d)'
  BY <1>2, DiskSame, FineDirsStay DEF ContentsOK
<1>4. ASSUME NEW d, d = dir' PROVE FineDir(d)'
  <2>0. d["save"] = dir["save"] /\ d["temp"] = NoInode /\ FineDir(dir)
    BY <1>1, <1>4 DEF ContentsOK, FineDirs, OnDisk
  <2>1. Left(d, "save")' \subseteq promised'
    <3>1. CASE d["save"] = NoInode
      BY <2>0, <3>1, LeavesNothing DEF ContentsOK, Accounted
    <3>2. CASE d["save"] # NoInode
      <4>1. Left(d, "save")' \subseteq Left(dir, "save")
        BY <2>0 DEF Left
      <4> QED
        BY <2>0, <3>2, <4>1 DEF FineDir, SafeFor
    <3> QED
      BY <3>1, <3>2
  <2>2. HiddenFor(d)'
    BY <2>0, HandleFields DEF HiddenFor
  <2>3. ApartFor(d)'
    BY <2>0, HandleFields DEF FineDir, ApartFor, NamesIn
  <2> QED
    BY <2>1, <2>2, <2>3 DEF FineDir, SafeFor
<1>5. FineDirs'
  BY <1>1, <1>3, <1>4 DEF FineDirs, OnDisk
<1>6. Accounted'
  BY <1>1 DEF ContentsOK, Accounted
<1> QED
  BY <1>5, <1>6, NothingCommitted DEF ContentsOK

\* An orphaned shadow is discarded.
LEMMA ContentsDiscard ==
    ASSUME Typed, ContentsOK, DiscardStep \/ DropStep
    PROVE  ContentsOK'
<1>0. op \in OpenOps /\ op.step \in {"discard", "drop"}
  BY OpFields DEF DiscardStep, DropStep, Typed, OpenSteps
<1>1. op'.step \in {"copy", "inPlace", "idle"}
  BY <1>0, IdleStep DEF DiscardStep, DropStep, WithoutShadow, OpenOps
<1>2. UNCHANGED <<disk, handle, promised, world>>
  BY DEF DiscardStep, DropStep, guest, ghosts
<1>3. Removed("temp") \/ UNCHANGED <<dir, older>>
  BY DEF DiscardStep, DropStep, Dropped
<1> QED
  BY <1>0, <1>1, <1>2, <1>3, ContentsShadowRemoved, ContentsSame

\* The shadow of a close that failed is dropped.
LEMMA ContentsDropShadow ==
    ASSUME Typed, ContentsOK, DropShadowStep
    PROVE  ContentsOK'
<1>1. op'.step = "idle" /\ op.step = "dropShadow"
  BY IdleStep DEF DropShadowStep, CloseReturns
<1>2. UNCHANGED <<disk, handle, promised, world>>
  BY DEF DropShadowStep, CloseReturns
<1>3. Removed("temp") \/ UNCHANGED <<dir, older>>
  BY DEF DropShadowStep, Dropped
<1> QED
  BY <1>1, <1>2, <1>3, ContentsShadowRemoved, ContentsSame

\* A new file changes nothing of what the files in use hold.
LEMMA NewFile ==
    ASSUME Typed, NEW n \in Names, NEW c \in Contents, CreatedFile(n, c)
    PROVE  /\ \A d \in OnDisk, m \in Names : Left(d, m)' \subseteq Left(d, m)
           /\ \A d \in OnDisk : FreshInode \notin NamesIn(d)
           /\ \A i \in Infos : handle[i].inode # FreshInode
           /\ dir' = [dir EXCEPT ![n] = FreshInode]
           /\ older' = older \cup {dir}
           /\ disk'[FreshInode] = [b \in Blocks |-> {0, c[b]}]
           /\ FreshInode # NoInode
<1>1. /\ FreshInode \in FreeInodes
      /\ dir' = [dir EXCEPT ![n] = FreshInode]
      /\ older' = older \cup {dir}
      /\ disk' = [disk EXCEPT ![FreshInode] = [b \in Blocks |-> {0, c[b]}]]
  BY CreatedOK DEF Typed, CreatedFile, Relinked, Filled
<1>2. /\ FreshInode \in Inodes /\ FreshInode # NoInode
      /\ FreshInode \notin OpenFiles
      /\ \A d \in OnDisk : FreshInode \notin NamesIn(d)
  BY <1>1, FreeIsUnused DEF NamesIn
<1> DEFINE fresh == FreshInode
           blocks == [b \in Blocks |-> {0, c[b]}]
<1>3. disk' = [disk EXCEPT ![fresh] = blocks] /\ fresh \in Inodes
  BY <1>1, <1>2
<1> HIDE DEF fresh, blocks
<1>4. disk'[fresh] = blocks
  BY <1>3 DEF Typed, HostOK
<1>5. ASSUME NEW d \in OnDisk, NEW m \in Names
      PROVE  Left(d, m)' \subseteq Left(d, m)
  <2>1. d[m] # NoInode => d[m] \in Inodes /\ d[m] # fresh
    BY <1>2 DEF Typed, HostOK, OnDisk, Directories, Names, NamesIn, fresh
  <2>2. d[m] # NoInode => disk'[d[m]] = disk[d[m]]
    BY <1>3, <2>1 DEF Typed, HostOK
  <2> QED
    BY <2>2, LeavesNoMore
<1> QED
  BY <1>1, <1>2, <1>4, <1>5, HandleFields DEF fresh, blocks

\* A shadow is made of the original.
LEMMA ContentsCopy ==
    ASSUME Typed, ContentsOK, CopyStep
    PROVE  ContentsOK'
<1>0. op \in OpenOps /\ op.step = "copy" /\ dir["save"] # NoInode
      /\ UNCHANGED <<handle, promised, world>>
  BY OpFields
  DEF CopyStep, Typed, OpenSteps, guest, ghosts, OpeningOK, ShadowSteps
<1>1. op'.step \in {"fopen", "drop"}
  BY <1>0 DEF CopyStep, OpenOps
<1>2. PICK c \in Contents : CreatedFile("temp", c)
  BY <1>0, VisibleOK, BlankIsNotMissing DEF CopyStep, Typed, Names
<1> DEFINE fresh == FreshInode
<1>3. /\ \A d \in OnDisk, m \in Names : Left(d, m)' \subseteq Left(d, m)
      /\ \A i \in Infos : handle[i].inode # fresh
      /\ dir' = [dir EXCEPT !["temp"] = fresh]
      /\ older' = older \cup {dir}
  BY <1>2, NewFile DEF Names
<1> HIDE DEF fresh
<1>4. dir'["temp"] = fresh /\ dir'["save"] = dir["save"]
  BY <1>3 DEF Typed, HostOK, Directories, Names
<1>5. promised' \subseteq Everything
  BY <1>0 DEF Typed, GuestOK, Everything
<1>6. \A d \in OnDisk : FineDir(d)'
  BY <1>0, <1>3, <1>5, FineDirsStay DEF ContentsOK
<1>7. ASSUME NEW d, d = dir' PROVE FineDir(d)'
  <2>0. d["save"] = dir["save"] /\ d["temp"] = fresh /\ FineDir(dir)
    BY <1>4, <1>7 DEF ContentsOK, FineDirs, OnDisk
  <2>1. Left(d, "save")' \subseteq promised'
    <3>1. PICK o : o = dir
      OBVIOUS
    <3>2. Left(o, "save")' \subseteq Left(o, "save") /\ FineDir(o)
      BY <1>3, <2>0, <3>1 DEF OnDisk, Names
    <3>3. Left(d, "save")' = Left(o, "save")'
      BY <2>0, <3>1 DEF Left
    <3> QED
      BY <1>0, <3>1, <3>2, <3>3 DEF FineDir, SafeFor
  <2>2. HiddenFor(d)'
    BY <1>0, <2>0 DEF HiddenFor
  <2>3. ApartFor(d)'
    BY <1>0, <1>3, <2>0 DEF FineDir, ApartFor, NamesIn
  <2> QED
    BY <2>1, <2>2, <2>3 DEF FineDir, SafeFor
<1>8. FineDirs'
  BY <1>3, <1>6, <1>7 DEF FineDirs, OnDisk
<1>9. Accounted'
  BY <1>0, <1>4 DEF Accounted
<1> QED
  BY <1>1, <1>8, <1>9, NothingCommitted DEF ContentsOK

\* The host file is opened.
LEMMA ContentsFopen ==
    ASSUME Typed, NamesOK, ContentsOK, FopenStep
    PROVE  ContentsOK'
<1>0. /\ op \in OpenOps /\ op.step = "fopen" /\ dir["save"] # NoInode
      /\ UNCHANGED <<dir, older, disk, promised, world>>
      /\ \A d \in older : dir["temp"] \notin NamesIn(d)
      /\ handle \in [Infos -> Handles]
  BY OpFields
  DEF FopenStep, Typed, OpenSteps, host, OpeningOK, ShadowSteps, NamesOK,
      OpeningNamed, GuestOK
<1>1. CASE op' = [op EXCEPT !.step = "drop"] /\ UNCHANGED handle
  <2>1. op'.step = "drop"
    BY <1>0, <1>1 DEF OpenOps
  <2> QED
    BY <1>0, <1>1, <2>1, ContentsSame
<1> DEFINE h == [inode |-> dir["temp"], commit |-> TRUE, write |-> TRUE]
<1>2. h.inode = dir["temp"] /\ h.commit
  OBVIOUS
<1> HIDE DEF h
<1>3. CASE Opened(op.info, h, OpenFlag(op.safe)) /\ op' = Idle
  <2>1. handle' = [handle EXCEPT ![op.info] = h]
    BY <1>3 DEF Opened
  <2>2. ASSUME NEW d \in OnDisk PROVE FineDir(d)'
    <3>0. FineDir(d)
      BY DEF ContentsOK, FineDirs
    <3>1. SafeFor(d)'
      BY <1>0, <3>0 DEF FineDir, SafeFor, Left
    <3>2. d["save"] = NoInode => dir["temp"] # d["temp"]
      BY <1>0 DEF OnDisk, NamesIn
    <3>3. HiddenFor(d)'
      BY <1>0, <1>2, <2>1, <3>0, <3>2 DEF FineDir, HiddenFor
    <3>4. ApartFor(d)'
      BY <1>0, <1>2, <2>1, <3>0 DEF FineDir, ApartFor
    <3> QED
      BY <3>1, <3>3, <3>4 DEF FineDir
  <2>3. FineDirs'
    BY <1>0, <2>2 DEF FineDirs, OnDisk
  <2>4. Accounted'
    BY <1>0 DEF Accounted
  <2> QED
    BY <1>3, <2>3, <2>4, IdleStep, NothingCommitted DEF ContentsOK
<1> QED
  BY <1>1, <1>3 DEF FopenStep, h

\* Opening in place gives up what was promised of the save.
LEMMA ContentsInPlace ==
    ASSUME Typed, ContentsOK, InPlaceStep
    PROVE  ContentsOK'
<1>1. promised' = Everything /\ world' = world /\ op'.step = "idle"
  BY IdleStep DEF InPlaceStep, Everything
<1>2. ASSUME NEW d PROVE FineDir(d)'
  <2>1. SafeFor(d)'
    BY <1>1, LeavesNothing DEF SafeFor
  <2>2. HiddenFor(d)'
    BY <1>1 DEF HiddenFor, Everything
  <2>3. ApartFor(d)'
    BY <1>1 DEF ApartFor, Everything
  <2> QED
    BY <2>1, <2>2, <2>3 DEF FineDir
<1>3. Accounted'
  BY <1>1 DEF Accounted, Everything
<1> QED
  BY <1>1, <1>2, <1>3, NothingCommitted DEF ContentsOK, FineDirs

\* Writing changes a file that no crash calls the save, or one of which the
\* guest expects anything.
LEMMA ContentsWrite ==
    ASSUME Typed, NamesOK, ContentsOK, NEW i \in Infos, NEW b \in Blocks,
           NANDWrite(i, b)
    PROVE  ContentsOK'
<1>0. /\ op' = op /\ op.step = "idle"
      /\ UNCHANGED <<dir, older, handle, promised, world>>
      /\ handle[i].write
  BY IdleStep DEF NANDWrite, guest
<1>1. PICK f \in Inodes : f = handle[i].inode /\ f # NoInode
  BY <1>0, HandleFields
<1>2. \A j \in Inodes : j # f => disk'[j] = disk[j]
  BY <1>1 DEF NANDWrite, Typed, HostOK
<1>3. \A d \in OnDisk : d \in Directories
  BY DEF Typed, HostOK, OnDisk
<1>4. ASSUME NEW d \in OnDisk, NEW n \in Names, d[n] # f
      PROVE  Left(d, n)' \subseteq Left(d, n)
  BY <1>2, <1>3, <1>4, LeavesNoMore DEF Directories
<1>5. ASSUME NEW d \in OnDisk PROVE FineDir(d)'
  <2>0. FineDir(d)
    BY DEF ContentsOK, FineDirs
  <2>1. SafeFor(d)'
    <3>1. CASE handle[i].commit
      <4>1. Left(d, "save")' \subseteq Left(d, "save")
        BY <1>1, <1>4, <3>1 DEF NamesOK, HandlesNamed, Names
      <4>2. CASE Left(d, "save") \subseteq promised
        BY <1>0, <4>1, <4>2 DEF SafeFor
      <4>3. CASE /\ world.host = "fat"
                 /\ d["save"] = NoInode
                 /\ Left(d, "temp") \subseteq promised
        <5>1. CASE d["temp"] = f
          <6>1. Missing \in promised
            BY <1>1, <2>0, <3>1, <4>3, <5>1 DEF FineDir, HiddenFor
          <6> QED
            BY <1>0, <4>3, <6>1, LeavesNothing DEF SafeFor
        <5>2. CASE d["temp"] # f
          BY <1>0, <1>4, <4>3, <5>2 DEF SafeFor, Names
        <5> QED
          BY <5>1, <5>2
      <4> QED
        BY <2>0, <4>2, <4>3 DEF FineDir, SafeFor
    <3>2. CASE promised = Everything
      BY <1>0, <3>2, LeavesNothing DEF SafeFor
    <3>3. CASE f \notin NamesIn(d)
      BY <1>0, <1>4, <2>0, <3>3 DEF FineDir, SafeFor, NamesIn, Names
    <3> QED
      BY <1>0, <1>1, <2>0, <3>1, <3>2, <3>3 DEF FineDir, ApartFor
  <2>2. HiddenFor(d)' /\ ApartFor(d)'
    BY <1>0, <2>0 DEF FineDir, HiddenFor, ApartFor
  <2> QED
    BY <2>1, <2>2 DEF FineDir
<1>6. FineDirs'
  BY <1>0, <1>5 DEF FineDirs, OnDisk
<1>7. Accounted'
  BY <1>0 DEF ContentsOK, Accounted
<1> QED
  BY <1>0, <1>6, <1>7, NothingCommitted DEF ContentsOK

\* A file is created.
LEMMA ContentsCreate ==
    ASSUME Typed, ContentsOK, NANDCreate
    PROVE  ContentsOK'
<1>0. /\ op' = op /\ op.step = "idle"
      /\ UNCHANGED <<handle, world>>
      /\ promised' = promised \cup {Blank}
      /\ promised' \subseteq Everything
  BY IdleStep, BlankIsNotMissing DEF NANDCreate, Typed, GuestOK, Everything
<1>1. CASE UNCHANGED host
  <2>1. UNCHANGED <<dir, older, disk>>
    BY <1>1 DEF host
  <2>2. \A d \in OnDisk : FineDir(d)'
    BY <1>0, <2>1, DiskSame, FineDirsStay DEF ContentsOK
  <2>3. FineDirs'
    BY <2>1, <2>2 DEF FineDirs, OnDisk
  <2>4. Accounted'
    BY <1>0, <2>1 DEF ContentsOK, Accounted
  <2> QED
    BY <1>0, <2>3, <2>4, NothingCommitted DEF ContentsOK
<1>2. CASE CreatedFile("save", Blank)
  <2> DEFINE fresh == FreshInode
  <2>1. /\ \A d \in OnDisk, m \in Names : Left(d, m)' \subseteq Left(d, m)
        /\ \A i \in Infos : handle[i].inode # fresh
        /\ dir' = [dir EXCEPT !["save"] = fresh]
        /\ older' = older \cup {dir}
        /\ disk'[fresh] = [b \in Blocks |-> {0, Blank[b]}]
        /\ fresh # NoInode
    BY <1>2, NewFile, BlankIsNotMissing DEF Names
  <2> HIDE DEF fresh
  <2>2. dir'["save"] = fresh /\ dir'["temp"] = dir["temp"]
    BY <2>1 DEF Typed, HostOK, Directories, Names
  <2>3. \A d \in OnDisk : FineDir(d)'
    BY <1>0, <2>1, FineDirsStay DEF ContentsOK
  <2>4. ASSUME NEW d, d = dir' PROVE FineDir(d)'
    <3>0. d["save"] = fresh /\ d["temp"] = dir["temp"] /\ FineDir(dir)
      BY <2>2, <2>4 DEF ContentsOK, FineDirs, OnDisk
    <3>1. \A b \in Blocks : disk'[d["save"]][b] = {Blank[b]}
      BY <2>1, <3>0 DEF Blank
    <3>2. Left(d, "save")' \subseteq {Blank}
      BY <2>1, <3>0, <3>1, LeavesOne, BlankIsNotMissing
    <3>3. SafeFor(d)'
      BY <1>0, <3>2 DEF SafeFor
    <3>4. HiddenFor(d)'
      BY <2>1, <3>0 DEF HiddenFor
    <3>5. promised = Everything => promised' = Everything
      BY <1>0
    <3>6. ApartFor(d)'
      BY <1>0, <2>1, <3>0, <3>5 DEF FineDir, ApartFor, NamesIn
    <3> QED
      BY <3>3, <3>4, <3>6 DEF FineDir
  <2>5. FineDirs'
    BY <2>1, <2>3, <2>4 DEF FineDirs, OnDisk
  <2>6. Accounted'
    BY <2>1, <2>2 DEF Accounted
  <2> QED
    BY <1>0, <2>5, <2>6, NothingCommitted DEF ContentsOK
<1> QED
  BY <1>1, <1>2 DEF NANDCreate

\* A file is deleted.
LEMMA ContentsDelete ==
    ASSUME Typed, ContentsOK, NANDDelete
    PROVE  ContentsOK'
<1>0. /\ op' = op /\ op.step = "idle"
      /\ UNCHANGED <<handle, world, disk>>
      /\ promised' = promised \cup {Missing}
      /\ promised' \subseteq Everything
  BY IdleStep DEF NANDDelete, guest, Typed, GuestOK, Everything
<1>1. /\ dir'["save"] = NoInode /\ dir'["temp"] = dir["temp"]
      /\ older' = older \cup {dir}
  BY RemovedOK, HostHalves
  DEF NANDDelete, Typed, Names, HostOK, Directories, Removed, Relinked
<1>2. \A d \in OnDisk : FineDir(d)'
  BY <1>0, DiskSame, FineDirsStay DEF ContentsOK
<1>3. ASSUME NEW d, d = dir' PROVE FineDir(d)'
  <2>0. d["save"] = NoInode /\ d["temp"] = dir["temp"] /\ FineDir(dir)
    BY <1>1, <1>3 DEF ContentsOK, FineDirs, OnDisk
  <2>1. SafeFor(d)'
    BY <1>0, <2>0, LeavesNothing DEF SafeFor
  <2>2. HiddenFor(d)'
    BY <1>0 DEF HiddenFor
  <2>3. promised = Everything => promised' = Everything
    BY <1>0
  <2>4. ApartFor(d)'
    BY <1>0, <2>0, <2>3, HandleFields DEF FineDir, ApartFor, NamesIn
  <2> QED
    BY <2>1, <2>2, <2>4 DEF FineDir
<1>4. FineDirs'
  BY <1>1, <1>2, <1>3 DEF FineDirs, OnDisk
<1>5. Accounted'
  BY <1>0 DEF Accounted
<1> QED
  BY <1>0, <1>4, <1>5, NothingCommitted DEF ContentsOK

\* Flushing leaves one version of what the handle wrote.
LEMMA ContentsFlush ==
    ASSUME Typed, NamesOK, ContentsOK, FlushStep
    PROVE  ContentsOK'
<1>0. /\ op \in CloseOps /\ op.step = "flush" /\ op.inode \in Inodes
      /\ UNCHANGED <<dir, older, handle, data>>
      /\ world' = world
  BY ClosingStep, WorldStays DEF FlushStep, CloseOps, Next
<1>1. CASE /\ disk' = Synced(op.inode)
           /\ \/ op' = Idle /\ promised' = promised
              \/ /\ op' = [op EXCEPT !.step = "rename"] /\ op.commit
                 /\ promised' = promised \cup {data[op.inode]}
  <2>0. PICK f : f = op.inode
    OBVIOUS
  <2> DEFINE blocks == [b \in Blocks |-> {data[f][b]}]
  <2>1. disk' = [disk EXCEPT ![f] = blocks] /\ f \in Inodes
    BY <1>0, <1>1, <2>0 DEF Synced
  <2>2. \A b \in Blocks : blocks[b] = {data[f][b]} /\ blocks[b] \subseteq disk[f][b]
    BY <2>1 DEF Typed, HostOK
  <2> HIDE DEF blocks
  <2>3. \A j \in Inodes, b \in Blocks : disk'[j][b] \subseteq disk[j][b]
    BY <2>1, <2>2 DEF Typed, HostOK
  <2>4. ASSUME NEW d \in OnDisk, NEW n \in Names PROVE Left(d, n)' \subseteq Left(d, n)
    <3>1. d[n] # NoInode => d[n] \in Inodes
      BY DEF Typed, HostOK, OnDisk, Directories
    <3> QED
      BY <2>3, <3>1, LeavesNoMore
  <2>5. /\ data[f] \in Everything
        /\ promised \subseteq promised' /\ promised' \subseteq Everything
    BY <1>1, <2>0, <2>1 DEF Typed, HostOK, GuestOK, Everything
  <2>6. \A d \in OnDisk : FineDir(d)'
    BY <1>0, <2>4, <2>5, FineDirsStay DEF ContentsOK
  <2>7. FineDirs'
    BY <1>0, <2>6 DEF FineDirs, OnDisk
  <2>8. Accounted'
    BY <1>0, <2>5 DEF ContentsOK, Accounted
  <2>9. Committed'
    <3>1. CASE op' = Idle
      BY <3>1, IdleStep, NothingCommitted
    <3>2. CASE op' = [op EXCEPT !.step = "rename"] /\ op.commit
               /\ promised' = promised \cup {data[op.inode]}
      <4>1. op'.step = "rename" /\ dir'["temp"] = f
        BY <1>0, <2>0, <3>2 DEF CloseOps, CloseSteps, NamesOK, ClosingNamed
      <4>2. disk'[f] = blocks
        BY <2>1 DEF Typed, HostOK
      <4>3. Only(f)'
        BY <1>0, <2>0, <2>2, <3>2, <4>2 DEF Only
      <4> QED
        BY <4>1, <4>3 DEF Committed, Only
    <3> QED
      BY <1>1, <3>1, <3>2
  <2> QED
    BY <2>7, <2>8, <2>9 DEF ContentsOK
<1>2. CASE /\ UNCHANGED <<disk, promised>>
           /\ op' = Idle \/ op' = [op EXCEPT !.step = "dropShadow"]
  <2>1. op'.step \in {"idle", "dropShadow"}
    BY <1>0, <1>2, IdleStep DEF CloseOps
  <2> QED
    BY <1>0, <1>2, <2>1, ContentsSame
<1> QED
  BY <1>1, <1>2 DEF FlushStep, Goes, CloseReturns

\* The shadow takes the name of the save, and the former directory may still
\* come back.
LEMMA ContentsRelinked ==
    ASSUME Typed, NamesOK, ContentsOK, op.step \in {"rename", "rename2"},
           Relinked(Renamed), UNCHANGED <<data, disk, promised, handle, world>>,
           op'.step = "dirsync"
    PROVE  ContentsOK'
<1>0. /\ dir["temp"] # NoInode /\ NoCommit /\ op.step \in CloseSteps
      /\ op.step # "dirsync"
      /\ promised' \subseteq Everything
      /\ \A b \in Blocks : disk[dir["temp"]][b] = {data[dir["temp"]][b]}
      /\ data[dir["temp"]] \in promised
  BY DEF NamesOK, ClosingNamed, CloseSteps, ContentsOK, Committed, Only, Typed,
         GuestOK, Everything
<1>1. /\ dir'["save"] = dir["temp"] /\ dir'["temp"] = NoInode
      /\ older' = older \cup {dir}
      /\ dir["temp"] \in Inodes /\ data[dir["temp"]] \in Contents
  BY <1>0, RenamedOK, HostHalves DEF Relinked, Typed, HostOK, Directories, Names
<1>2. \A d \in OnDisk : FineDir(d)'
  BY <1>0, DiskSame, FineDirsStay DEF ContentsOK
<1>3. ASSUME NEW d, d = dir' PROVE FineDir(d)'
  <2>0. d["save"] = dir["temp"] /\ d["temp"] = NoInode
    BY <1>1, <1>3
  <2>1. Left(d, "save")' \subseteq {data[dir["temp"]]}
    BY <1>0, <1>1, <2>0, LeavesOne
  <2>2. SafeFor(d)'
    BY <1>0, <2>1 DEF SafeFor
  <2>3. HiddenFor(d)'
    BY <1>0 DEF HiddenFor, NoCommit
  <2>4. ApartFor(d)'
    BY <2>0, HandleFields DEF NamesOK, HandlesNamed, ApartFor, NamesIn
  <2> QED
    BY <2>2, <2>3, <2>4 DEF FineDir
<1>4. FineDirs'
  BY <1>1, <1>2, <1>3 DEF FineDirs, OnDisk
<1>5. Accounted'
  BY <1>0, <1>1 DEF Accounted
<1>6. Committed'
  BY <1>0, <1>1 DEF Committed, Only
<1> QED
  BY <1>4, <1>5, <1>6 DEF ContentsOK

\* Once a directory is on disk nothing else comes back.
LEMMA ContentsSettled ==
    ASSUME NEW d, dir' = d, older' = {}, SafeFor(d)', HiddenFor(d)', ApartFor(d)',
           Accounted', Committed'
    PROVE  ContentsOK'
<1>1. FineDirs'
  BY DEF FineDirs, FineDir, OnDisk
<1> QED
  BY <1>1 DEF ContentsOK

\* Windows writes the new directory through.
LEMMA ContentsReplaced ==
    ASSUME Typed, NamesOK, ContentsOK, op.step = "rename",
           dir' = Renamed, Settled(Renamed, disk), op' = Idle,
           promised' = {data[dir["temp"]]}, UNCHANGED <<handle, world>>
    PROVE  ContentsOK'
<1>0. /\ dir["temp"] # NoInode /\ NoCommit
      /\ \A b \in Blocks : disk[dir["temp"]][b] = {data[dir["temp"]][b]}
  BY DEF NamesOK, ClosingNamed, CloseSteps, ContentsOK, Committed, Only
<1>1. /\ dir["temp"] \in Inodes /\ data[dir["temp"]] \in Contents
      /\ Renamed["save"] = dir["temp"] /\ Renamed["temp"] = NoInode
      /\ Renamed \in Directories /\ Distinct(Renamed)
  BY <1>0, RenamedOK, HostHalves DEF Typed, HostOK, Directories, Names
<1>2. older' = {} /\ disk'[dir["temp"]] = disk[dir["temp"]]
  <2>1. \A n \in Names : Renamed[n] # NoInode => disk'[Renamed[n]] = disk[Renamed[n]]
    BY <1>1, SettledOK, HostHalves DEF Typed, HostOK
  <2> QED
    BY <1>0, <1>1, <2>1 DEF Settled, Names
<1>3. PICK d : d = Renamed
  OBVIOUS
<1>4. d["save"] = dir["temp"] /\ d["temp"] = NoInode /\ dir' = d
  BY <1>1, <1>3
<1>5. Left(d, "save")' \subseteq {data[dir["temp"]]}
  BY <1>0, <1>1, <1>2, <1>4, LeavesOne
<1>6. SafeFor(d)' /\ HiddenFor(d)'
  BY <1>0, <1>5 DEF SafeFor, HiddenFor, NoCommit
<1>7. ApartFor(d)'
  BY <1>4, HandleFields DEF NamesOK, HandlesNamed, ApartFor, NamesIn
<1>8. Accounted' /\ Committed'
  BY <1>0, <1>4, IdleStep, NothingCommitted DEF Accounted
<1> QED
  BY <1>2, <1>4, <1>6, <1>7, <1>8, ContentsSettled

\* A rename that failed leaves the disk alone.
LEMMA ContentsRename ==
    ASSUME Typed, NamesOK, ContentsOK, RenameStep
    PROVE  ContentsOK'
<1>0. /\ op \in CloseOps /\ op.step = "rename" /\ handle' = handle /\ world' = world
  BY ClosingStep, WorldStays DEF RenameStep, Next
<1>1. CASE /\ dir' = Renamed /\ Settled(Renamed, disk) /\ op' = Idle
           /\ promised' = {data[dir["temp"]]}
  BY <1>0, <1>1, ContentsReplaced
<1>2. CASE /\ Relinked(Renamed) /\ op' = [op EXCEPT !.step = "dirsync"]
           /\ UNCHANGED <<data, disk, promised>>
  <2>1. op'.step = "dirsync"
    BY <1>0, <1>2 DEF CloseOps
  <2> QED
    BY <1>0, <1>2, <2>1, ContentsRelinked
<1>3. CASE op' = [op EXCEPT !.step = AfterFailedRename] /\ UNCHANGED <<host, promised>>
  <2>1. op'.step \in {"unlink", "dropShadow"}
    BY <1>0, <1>3 DEF CloseOps, AfterFailedRename
  <2>2. UNCHANGED <<dir, older, data, disk>>
    BY <1>3 DEF host
  <2>3. promised' \subseteq Everything
    BY <1>3 DEF Typed, GuestOK, Everything
  <2>4. \A d \in OnDisk : FineDir(d)'
    BY <1>0, <1>3, <2>2, <2>3, DiskSame, FineDirsStay DEF ContentsOK
  <2>5. FineDirs'
    BY <2>2, <2>4 DEF FineDirs, OnDisk
  <2>6. Accounted'
    BY <1>0, <1>3, <2>2 DEF ContentsOK, Accounted
  <2>7. Committed'
    BY <1>0, <1>3, <2>1, <2>2 DEF ContentsOK, Committed, Only
  <2> QED
    BY <2>5, <2>6, <2>7 DEF ContentsOK
<1> QED
  BY <1>1, <1>2, <1>3 DEF RenameStep, Goes, CloseReturns

\* On the Switch's card the whole of the shadow is there while the save is not.
LEMMA ContentsUnlink ==
    ASSUME Typed, NamesOK, ContentsOK, UnlinkStep
    PROVE  ContentsOK'
<1>0. /\ op \in CloseOps /\ op.step = "unlink" /\ handle' = handle /\ world' = world
      /\ UNCHANGED <<data, disk, promised>>
      /\ dir["temp"] # NoInode /\ NoCommit /\ world.host = "fat"
      /\ promised' \subseteq Everything
      /\ \A b \in Blocks : disk[dir["temp"]][b] = {data[dir["temp"]][b]}
      /\ data[dir["temp"]] \in promised
  BY ClosingStep, WorldStays
  DEF UnlinkStep, Next, NamesOK, ClosingNamed, CloseSteps, ContentsOK, Committed,
      Only, Typed, GuestOK, Everything
<1>1. CASE Removed("save") /\ op' = [op EXCEPT !.step = "rename2"]
  <2>1. /\ dir'["save"] = NoInode /\ dir'["temp"] = dir["temp"]
        /\ older' = older \cup {dir}
        /\ dir["temp"] \in Inodes /\ data[dir["temp"]] \in Contents
    BY <1>0, <1>1, RemovedOK, HostHalves
    DEF Typed, Names, HostOK, Directories, Removed, Relinked
  <2>2. op'.step = "rename2"
    BY <1>0, <1>1 DEF CloseOps
  <2>3. \A d \in OnDisk : FineDir(d)'
    BY <1>0, DiskSame, FineDirsStay DEF ContentsOK
  <2>4. ASSUME NEW d, d = dir' PROVE FineDir(d)'
    <3>0. d["save"] = NoInode /\ d["temp"] = dir["temp"] /\ FineDir(dir)
      BY <2>1, <2>4 DEF ContentsOK, FineDirs, OnDisk
    <3>1. Left(d, "temp")' \subseteq {data[dir["temp"]]}
      BY <1>0, <2>1, <3>0, LeavesOne
    <3>2. SafeFor(d)'
      BY <1>0, <3>0, <3>1 DEF SafeFor
    <3>3. HiddenFor(d)'
      BY <1>0 DEF HiddenFor, NoCommit
    <3>4. ApartFor(d)'
      BY <1>0, <3>0, HandleFields DEF NamesOK, HandlesNamed, ApartFor, NamesIn
    <3> QED
      BY <3>2, <3>3, <3>4 DEF FineDir
  <2>5. FineDirs'
    BY <2>1, <2>3, <2>4 DEF FineDirs, OnDisk
  <2>6. Accounted' /\ Committed'
    BY <1>0, <2>1, <2>2 DEF Accounted, Committed, Only
  <2> QED
    BY <2>5, <2>6 DEF ContentsOK
<1>2. CASE UNCHANGED <<dir, older>> /\ op' = [op EXCEPT !.step = "dropShadow"]
  <2>1. op'.step = "dropShadow"
    BY <1>0, <1>2 DEF CloseOps
  <2> QED
    BY <1>0, <1>2, <2>1, ContentsSame
<1> QED
  BY <1>1, <1>2 DEF UnlinkStep, Goes

\* The shadow is renamed again, after the unlink.
LEMMA ContentsSecondRename ==
    ASSUME SafeWorlds, Typed, NamesOK, ContentsOK, SecondRenameStep
    PROVE  ContentsOK'
<1>0. op \in CloseOps /\ op.step = "rename2" /\ handle' = handle /\ world' = world
      /\ UNCHANGED <<data, disk, promised>>
  BY ClosingStep, WorldStays DEF SecondRenameStep, Next
<1>1. op'.step = "dirsync"
  BY <1>0, NamesSecondRename DEF CloseOps
<1>2. Relinked(Renamed)
  <2>1. dir' # dir
    BY <1>0, NamesSecondRename, RenamedOK, HostHalves
    DEF Typed, NamesOK, ClosingNamed
  <2> QED
    BY <2>1 DEF SecondRenameStep
<1> QED
  BY <1>0, <1>1, <1>2, ContentsRelinked

\* The directory is synced, or a crash may still bring back the former one.
LEMMA ContentsDirSync ==
    ASSUME Typed, NamesOK, ContentsOK, DirSyncStep
    PROVE  ContentsOK'
<1>0. /\ op.step = "dirsync" /\ op' = Idle /\ UNCHANGED <<dir, handle, world>>
      /\ dir["save"] # NoInode /\ dir["temp"] = NoInode /\ NoCommit
      /\ \A i \in Infos : handle[i].write => handle[i].inode # dir["save"]
      /\ \A b \in Blocks : disk[dir["save"]][b] = {data[dir["save"]][b]}
  BY DEF DirSyncStep, CloseReturns, NamesOK, ClosingNamed, CloseSteps, ContentsOK,
         Committed, Only
<1>1. CASE UNCHANGED <<older, data, disk, promised>>
  BY <1>0, <1>1, IdleStep, ContentsSame
<1>2. CASE Settled(dir, disk) /\ promised' = {Visible("save")}
  <2>1. /\ dir["save"] \in Inodes /\ data[dir["save"]] \in Contents
        /\ dir \in Directories /\ Distinct(dir)
        /\ Visible("save") = data[dir["save"]]
    BY <1>0 DEF Typed, HostOK, Directories, Names, OnDisk, Visible
  <2>2. older' = {} /\ disk'[dir["save"]] = disk[dir["save"]]
    BY <1>0, <1>2, <2>1, SettledOK, HostHalves DEF Typed, HostOK, Names
  <2>3. PICK d : d = dir
    OBVIOUS
  <2>4. Left(d, "save")' \subseteq {data[dir["save"]]}
    BY <1>0, <2>1, <2>2, <2>3, LeavesOne
  <2>5. SafeFor(d)' /\ HiddenFor(d)'
    BY <1>0, <1>2, <2>1, <2>4 DEF SafeFor, HiddenFor, NoCommit
  <2>6. ApartFor(d)'
    BY <1>0, <2>3, HandleFields DEF ApartFor, NamesIn
  <2>7. Accounted' /\ Committed'
    BY <1>0, IdleStep, NothingCommitted DEF Accounted
  <2> QED
    BY <1>0, <2>2, <2>3, <2>5, <2>6, <2>7, ContentsSettled
<1> QED
  BY <1>1, <1>2 DEF DirSyncStep

\* What the host writes back is what the program sees.
LEMMA ContentsWriteBack ==
    ASSUME Typed, NamesOK, ContentsOK, HostWritesBack
    PROVE  ContentsOK'
<1> DEFINE onDisk == [i \in Inodes |-> [b \in Blocks |-> {data[i][b]}]]
<1>0. /\ UNCHANGED <<dir, handle, op, promised, world>>
      /\ promised' \subseteq Everything
  BY DEF HostWritesBack, guest, ghosts, Typed, GuestOK, Everything
<1>1. /\ onDisk \in [Inodes -> [Blocks -> SUBSET Versions]]
      /\ \A i \in Inodes, b \in Blocks : data[i][b] \in onDisk[i][b]
      /\ \A i \in Inodes, b \in Blocks : onDisk[i][b] = {data[i][b]}
  BY DEF Typed, HostOK, Contents
<1>2. Settled(dir, onDisk)
  BY DEF HostWritesBack
<1> HIDE DEF onDisk
<1>3. /\ older' = {}
      /\ \A n \in Names : dir[n] # NoInode =>
            data'[dir[n]] = data[dir[n]] /\ disk'[dir[n]] = onDisk[dir[n]]
  BY <1>0, <1>1, <1>2, SettledOK, HostHalves DEF Typed, HostOK, OnDisk
<1>4. \A n \in Names : dir[n] # NoInode => dir[n] \in Inodes
  BY DEF Typed, HostOK, Directories
<1>5. PICK d : d = dir
  OBVIOUS
<1>6. ASSUME NEW n \in Names PROVE Left(d, n)' \subseteq Left(d, n)
  <2>1. d[n] # NoInode => \A b \in Blocks : disk'[d[n]][b] \subseteq disk[d[n]][b]
    BY <1>1, <1>3, <1>4, <1>5 DEF Typed, HostOK
  <2> QED
    BY <2>1, LeavesNoMore
<1>7. FineDir(d)
  BY <1>5 DEF ContentsOK, FineDirs, OnDisk
<1>8. FineDir(d)'
  BY <1>0, <1>6, <1>7, FineStays DEF Names
<1>9. ASSUME NEW n \in Names, dir[n] # NoInode, Only(dir[n]) PROVE Only(dir[n])'
  BY <1>0, <1>1, <1>3, <1>4, <1>9 DEF Only
<1>10. Committed'
  BY <1>0, <1>9 DEF NamesOK, ClosingNamed, ContentsOK, Committed, Names
<1>11. Accounted'
  BY <1>0 DEF ContentsOK, Accounted
<1> QED
  BY <1>0, <1>3, <1>5, <1>8, <1>10, <1>11, ContentsSettled DEF FineDir

\* After a crash the guest finds what the disk held.
LEMMA ContentsCrash ==
    ASSUME Typed, Crash
    PROVE  ContentsOK'
<1>0. PICK d \in OnDisk :
         \E save \in Left(d, "save"), temp \in Left(d, "temp") :
             /\ dir' = d
             /\ older' = {}
             /\ data' = [i \in Inodes |-> CASE i = d["save"] -> save
                                            [] i = d["temp"] -> temp
                                            [] OTHER -> Blank]
             /\ disk' = [i \in Inodes |-> [b \in Blocks |-> {data'[i][b]}]]
             /\ promised' = {save}
  BY DEF Crash
<1>1. PICK save \in Left(d, "save"), temp \in Left(d, "temp") :
         /\ dir' = d
         /\ older' = {}
         /\ data' = [i \in Inodes |-> CASE i = d["save"] -> save
                                        [] i = d["temp"] -> temp
                                        [] OTHER -> Blank]
         /\ disk' = [i \in Inodes |-> [b \in Blocks |-> {data'[i][b]}]]
         /\ promised' = {save}
  BY <1>0
<1>2. \A i \in Infos : ~ handle'[i].commit /\ ~ handle'[i].write
  BY CrashForgets DEF NoHandle
<1>3. Left(d, "save")' \subseteq {save}
  <2>1. CASE d["save"] = NoInode
    BY <1>1, <2>1, LeavesNothing
  <2>2. CASE d["save"] # NoInode
    <3>1. d["save"] \in Inodes /\ d["save"] # d["temp"] /\ save \in Contents
      BY <2>2, LeftOK DEF Typed, HostOK, OnDisk, Directories, Names, Distinct
    <3>2. data'[d["save"]] = save
      BY <1>1, <3>1
    <3>3. \A b \in Blocks : disk'[d["save"]][b] = {save[b]}
      BY <1>1, <3>1, <3>2
    <3> QED
      BY <2>2, <3>1, <3>3, LeavesOne
  <2> QED
    BY <2>1, <2>2
<1>4. SafeFor(d)' /\ HiddenFor(d)' /\ ApartFor(d)'
  BY <1>1, <1>2, <1>3 DEF SafeFor, HiddenFor, ApartFor
<1>5. Accounted'
  BY <1>1, LeavesNothing DEF Accounted
<1>6. Committed'
  BY CrashForgets, IdleStep, NothingCommitted
<1> QED
  BY <1>1, <1>4, <1>5, <1>6, ContentsSettled

\* Every step keeps the saves recoverable.
LEMMA ContentsStep ==
    ASSUME SafeWorlds, Typed, NamesOK, ContentsOK, [Next]_vars
    PROVE  ContentsOK'
<1>1. CASE UNCHANGED vars
  <2>1. UNCHANGED <<dir, older, data, disk, handle, op, promised, world>>
    BY <1>1 DEF vars
  <2> QED
    BY <2>1 DEF ContentsOK, FineDirs, FineDir, SafeFor, HiddenFor, ApartFor,
                Accounted, Committed, Only, OnDisk, Left
<1> QED
  BY <1>1, ContentsCalls, ContentsDiscard, ContentsCopy, ContentsFopen,
     ContentsInPlace, ContentsWrite, ContentsCreate, ContentsDelete,
     ContentsFlush, ContentsRename, ContentsUnlink, ContentsSecondRename,
     ContentsDirSync, ContentsDropShadow, ContentsWriteBack, ContentsCrash
  DEF Next

\* On hosts whose rename replaces the save or fails with it in place, and
\* where no two safe writers share a shadow, a crash at any moment leaves the
\* save as it was promised or, where it has to be removed first, the shadow.
THEOREM CrashSafe ==
    ASSUME SafeWorlds
    PROVE  Spec => []CrashLeavesSaveOrShadow
<1> DEFINE IInv == Typed /\ Alone /\ NamesOK /\ ContentsOK
<1>1. Init => IInv
  BY TypedInit, AloneInit, NamesInit, ContentsInit
<1>2. IInv /\ [Next]_vars => IInv'
  BY TypedStep, AloneStep, NamesStep, ContentsStep
<1>3. IInv => CrashLeavesSaveOrShadow
  BY DEF ContentsOK, FineDirs, FineDir, SafeFor, CrashLeavesSaveOrShadow
<1> HIDE DEF IInv
<1> QED
  BY <1>1, <1>2, <1>3, PTL DEF Spec

-----------------------------------------------------------------------------
(***************************************************************************)
(* What a failed commit leaves.                                            *)
(***************************************************************************)

\* Until a commit replaces the save, or removes it, the program sees in it
\* what it saw when the close began.
Untouched ==
    op.step \in {"flush", "rename", "unlink", "dropShadow"} /\ op.commit =>
        Visible("save") = op.before

\* No close has failed.
LEMMA UntouchedInit == Init => Untouched
BY IdleStep DEF Init, Untouched

\* A step that returns to the guest, or that goes on to open.
LEMMA UntouchedOver ==
    ASSUME op'.step \notin CloseSteps
    PROVE  Untouched'
BY DEF Untouched, CloseSteps

\* The save is the same file with the same contents.
LEMMA VisibleStays ==
    ASSUME dir'["save"] = dir["save"],
           dir["save"] # NoInode => data'[dir["save"]] = data[dir["save"]]
    PROVE  Visible("save")' = Visible("save")
BY DEF Visible

\* Each step of a close either leaves the save or is past its replacement, and
\* one that reports a failure leaves it.
LEMMA UntouchedClosing ==
    ASSUME SafeWorlds, Typed, NamesOK, Untouched,
           \/ FlushStep \/ RenameStep \/ UnlinkStep \/ SecondRenameStep
           \/ DirSyncStep \/ DropShadowStep
    PROVE  /\ Untouched'
           /\ \A i \in failed' \ failed : op.commit => Visible("save")' = op.before
<1>0. /\ op \in CloseOps /\ op.step \in CloseSteps
      /\ \/ op' = Idle
         \/ op' \in CloseOps /\ \E step \in CloseSteps : op' = [op EXCEPT !.step = step]
  BY ClosingStep
<1>1. op' = Idle \/ (op'.before = op.before /\ op'.commit = op.commit)
  BY <1>0 DEF CloseOps
<1>2. op' = Idle => Untouched'
  BY IdleStep, UntouchedOver DEF OpenSteps
\* A step that leaves the save what it is.
<1>3. ASSUME op.step \in {"flush", "rename", "unlink", "dropShadow"},
             dir'["save"] = dir["save"], data' = data
      PROVE  /\ Untouched'
             /\ \A i \in failed' \ failed : op.commit => Visible("save")' = op.before
  <2>1. op.commit => Visible("save")' = op.before
    BY <1>3, VisibleStays DEF Untouched
  <2> QED
    BY <1>1, <1>2, <2>1 DEF Untouched
\* A step past the replacement, which reports no failure.
<1>4. ASSUME failed' \subseteq failed,
             op' = Idle \/ op'.step \in {"rename2", "dirsync"}
      PROVE  /\ Untouched'
             /\ \A i \in failed' \ failed : op.commit => Visible("save")' = op.before
  BY <1>2, <1>4 DEF Untouched
<1>5. CASE FlushStep
  BY <1>3, <1>5 DEF FlushStep
<1>6. CASE RenameStep
  <2>1. CASE CloseReturns(TRUE)
    BY <1>4, <2>1 DEF CloseReturns
  <2>2. CASE Goes("dirsync")
    BY <1>0, <1>4, <2>2 DEF Goes, CloseOps
  <2>3. CASE UNCHANGED host
    BY <1>3, <1>6, <2>3 DEF RenameStep, host
  <2> QED
    BY <1>6, <2>1, <2>2, <2>3 DEF RenameStep
<1>7. CASE UnlinkStep
  <2>1. CASE Goes("rename2")
    BY <1>0, <1>4, <2>1 DEF Goes, CloseOps
  <2>2. CASE UNCHANGED <<dir, older>>
    BY <1>3, <1>7, <2>2 DEF UnlinkStep
  <2> QED
    BY <1>7, <2>1, <2>2 DEF UnlinkStep
<1>8. CASE SecondRenameStep
  <2>1. op'.step = "dirsync" /\ failed' = failed
    BY <1>0, <1>8, NamesSecondRename DEF CloseOps, SecondRenameStep, Goes
  <2> QED
    BY <1>4, <2>1
<1>9. CASE DirSyncStep
  BY <1>4, <1>9 DEF DirSyncStep, CloseReturns
<1>10. CASE DropShadowStep
  <2>1. CASE Removed("temp")
    BY <1>3, <1>10, <2>1, RemovedOK, HostHalves
    DEF DropShadowStep, Typed, HostOK, Directories, Names
  <2>2. CASE UNCHANGED <<dir, older>>
    BY <1>3, <1>10, <2>2 DEF DropShadowStep
  <2> QED
    BY <1>10, <2>1, <2>2 DEF DropShadowStep, Dropped
<1> QED
  BY <1>5, <1>6, <1>7, <1>8, <1>9, <1>10

\* No other step closes, or reports the failure of a close.
LEMMA UntouchedElse ==
    ASSUME Typed, Untouched, [Next]_vars,
           ~ (\/ FlushStep \/ RenameStep \/ UnlinkStep \/ SecondRenameStep
              \/ DirSyncStep \/ DropShadowStep)
    PROVE  Untouched' /\ failed' \subseteq failed
<1>1. CASE \E i \in Infos : NANDClose(i) \/ NANDSafeClose(i)
  <2>1. PICK i \in Infos : NANDClose(i) \/ NANDSafeClose(i)
    BY <1>1
  <2>2. UNCHANGED <<dir, data, failed>>
    BY <2>1, CloseStarts DEF host, ghosts
  <2>3. Visible("save")' = Visible("save")
    BY <2>2, VisibleStays
  <2>4. op' = Idle \/ op'.before = Visible("save")
    BY <2>1, CloseStarts
  <2> QED
    BY <2>2, <2>3, <2>4, IdleStep DEF Untouched
<1>2. CASE Crash
  <2>1. failed' = {}
    BY <1>2, Zenon DEF Crash
  <2> QED
    BY <1>2, <2>1, CrashForgets, IdleStep DEF Untouched
<1>3. CASE HostWritesBack
  <2>1. UNCHANGED <<dir, failed, op>> /\ Settled(dir, [i \in Inodes |-> [b \in Blocks |-> {data[i][b]}]])
    BY <1>3 DEF HostWritesBack, guest, ghosts
  <2>2. dir["save"] # NoInode => dir["save"] \in Inodes
    BY DEF Typed, HostOK, Directories, Names
  <2>3. dir["save"] # NoInode => data'[dir["save"]] = data[dir["save"]]
    BY <2>1, <2>2 DEF Settled, Names
  <2>4. Visible("save")' = Visible("save")
    BY <2>1, <2>3, VisibleStays
  <2> QED
    BY <2>1, <2>4 DEF Untouched
<1>4. CASE DiscardStep \/ CopyStep \/ FopenStep \/ DropStep \/ InPlaceStep
  <2>1. op.step \in OpenSteps
    BY <1>4 DEF DiscardStep, CopyStep, FopenStep, DropStep, InPlaceStep, OpenSteps
  <2>2. op \in OpenOps
    BY <2>1, OpFields DEF Typed
  <2>3. {"copy", "fopen", "drop", "inPlace"} \subseteq OpenSteps
    BY DEF OpenSteps
  <2>4. op' = Idle \/ \E s \in OpenSteps : op' = [op EXCEPT !.step = s]
    BY <1>4, <2>3
    DEF DiscardStep, CopyStep, FopenStep, DropStep, InPlaceStep, WithoutShadow
  <2>5. op'.step \notin CloseSteps
    BY <2>2, <2>4, IdleStep DEF OpenOps, OpenSteps, CloseSteps
  <2>6. failed' \subseteq failed
    BY <1>4
    DEF DiscardStep, CopyStep, FopenStep, DropStep, InPlaceStep, ghosts, Opened
  <2> QED
    BY <2>5, <2>6, UntouchedOver
<1>5. CASE \E i \in Infos : \/ \E safe \in BOOLEAN : OpensForReading(i, safe)
                            \/ \E b \in Blocks : NANDWrite(i, b)
                            \/ RetryClose(i)
  <2>1. op' = Idle /\ failed' \subseteq failed
    BY <1>5 DEF OpensForReading, MayOpen, Opened, NANDWrite, RetryClose, ghosts
  <2> QED
    BY <2>1, IdleStep, UntouchedOver
<1>6. CASE \E i \in Infos : NANDOpen(i) \/ NANDSafeOpen(i)
  <2>1. op'.step \in {"discard", "inPlace"} /\ failed' = failed
    BY <1>6 DEF NANDOpen, NANDSafeOpen, ghosts
  <2> QED
    BY <2>1, UntouchedOver DEF CloseSteps
<1>7. CASE NANDCreate \/ NANDDelete
  <2>1. op' = Idle /\ failed' = failed
    BY <1>7 DEF NANDCreate, NANDDelete
  <2> QED
    BY <2>1, IdleStep, UntouchedOver
<1>8. CASE UNCHANGED vars
  BY <1>8 DEF vars, Untouched, Visible
<1> QED
  BY <1>1, <1>2, <1>3, <1>4, <1>5, <1>6, <1>7, <1>8 DEF Next

\* On the same hosts a commit that reports a failure has left the original
\* exactly as it was when the close began.
THEOREM FailedCommitIsHarmless ==
    ASSUME SafeWorlds
    PROVE  Spec => FailedCloseLeavesOriginal
<1> DEFINE IInv == Typed /\ Alone /\ NamesOK /\ Untouched
           Harmless == \A i \in failed' \ failed : op.commit => Visible("save")' = op.before
<1>1. Init => IInv
  BY TypedInit, AloneInit, NamesInit, UntouchedInit
<1>2. IInv /\ [Next]_vars => Untouched' /\ [Harmless]_vars
  BY UntouchedClosing, UntouchedElse
<1>3. IInv /\ [Next]_vars => IInv'
  BY <1>2, TypedStep, AloneStep, NamesStep
<1>4. FailedCloseLeavesOriginal <=> [][Harmless]_vars
  BY DEF FailedCloseLeavesOriginal
<1> HIDE DEF IInv, Harmless
<1> QED
  BY <1>1, <1>2, <1>3, <1>4, PTL DEF Spec

-----------------------------------------------------------------------------
(***************************************************************************)
(* What a commit reports as saved.                                         *)
(***************************************************************************)

\* The file that a close commits is the shadow until it is renamed, then the
\* save; and the guest has not been told that the close is done.
Publishing ==
    /\ op.step \in {"rename", "unlink", "rename2"} => op.inode = dir["temp"]
    /\ op.step = "dirsync" => op.inode = dir["save"]
    /\ op.step \in CloseSteps => flag[op.info] # ClosedFlag(op.safe)

Reported == op.step \in CloseSteps /\ op.commit /\ flag'[op.info] = ClosedFlag(op.safe)

\* Nothing is being closed.
LEMMA PublishingIdle ==
    ASSUME op.step \notin CloseSteps
    PROVE  Publishing
BY DEF Publishing, CloseSteps

\* A close returns only where every directory on disk calls the file it
\* committed the save.
LEMMA PublishingClosing ==
    ASSUME SafeWorlds, Typed, NamesOK, Publishing,
           \/ FlushStep \/ RenameStep \/ UnlinkStep \/ SecondRenameStep
           \/ DirSyncStep \/ DropShadowStep
    PROVE  /\ Publishing'
           /\ Reported /\ ~ MayFail("dirsync") => \A d \in OnDisk' : d["save"] = op.inode
<1>0. /\ op \in CloseOps /\ op.step \in CloseSteps
      /\ flag[op.info] # ClosedFlag(op.safe)
  BY ClosingStep DEF Publishing
<1>1. op' = Idle => Publishing'
  BY IdleStep, PublishingIdle DEF Publishing, CloseSteps
\* A close that goes on has told the guest nothing.
<1>2. ASSUME NEW st \in CloseSteps, Goes(st),
             st \in {"rename", "unlink", "rename2"} => op.inode = dir'["temp"],
             st = "dirsync" => op.inode = dir'["save"]
      PROVE  Publishing' /\ ~ Reported
  <2>1. /\ op'.step = st /\ op'.inode = op.inode /\ op'.info = op.info
        /\ op'.safe = op.safe /\ flag' = flag
    BY <1>0, <1>2 DEF Goes, CloseOps, guest
  <2> QED
    BY <1>0, <1>2, <2>1 DEF Publishing, Reported
\* Neither has one that returns a failure.
<1>3. CloseReturns(FALSE) => Publishing' /\ ~ Reported
  BY <1>0, <1>1 DEF CloseReturns, Reported
<1>4. CASE FlushStep
  <2>1. CASE op.commit
    <3>1. dir'["temp"] = op.inode /\ {"rename", "dropShadow"} \subseteq CloseSteps
      BY <1>4, <2>1 DEF FlushStep, NamesOK, ClosingNamed, CloseSteps
    <3>2. Goes("rename") \/ Goes("dropShadow")
      BY <1>4, <2>1 DEF FlushStep
    <3> QED
      BY <1>2, <3>1, <3>2
  <2>2. CASE ~ op.commit
    BY <1>1, <1>4, <2>2 DEF FlushStep, CloseReturns, Reported
  <2> QED
    BY <2>1, <2>2
<1>5. CASE RenameStep \/ SecondRenameStep
  <2>1. op.inode = dir["temp"] /\ dir["temp"] # NoInode
    BY <1>5 DEF RenameStep, SecondRenameStep, Publishing, NamesOK, ClosingNamed
  <2>2. Renamed["save"] = op.inode
    BY <2>1, RenamedOK, HostHalves DEF Typed
  <2>3. {"dirsync", "unlink", "dropShadow"} \subseteq CloseSteps
    BY DEF CloseSteps
  <2>4. CASE dir' = Renamed /\ older' = {} /\ CloseReturns(TRUE)
    BY <1>1, <2>2, <2>4 DEF CloseReturns, OnDisk
  <2>5. CASE dir' = Renamed /\ Goes("dirsync")
    BY <1>2, <2>2, <2>3, <2>5
  <2>6. CASE dir' = dir /\ (Goes("unlink") \/ Goes("dropShadow"))
    BY <1>2, <2>1, <2>3, <2>6
  <2> QED
    BY <1>5, <2>4, <2>5, <2>6
    DEF RenameStep, SecondRenameStep, Settled, Relinked, AfterFailedRename, host
<1>6. CASE UnlinkStep
  <2>1. dir'["temp"] = op.inode
    <3>1. op.inode = dir["temp"]
      BY <1>6 DEF UnlinkStep, Publishing
    <3>2. CASE Removed("save")
      BY <3>1, <3>2, RemovedOK, HostHalves DEF Typed, HostOK, Directories, Names
    <3> QED
      BY <1>6, <3>1, <3>2 DEF UnlinkStep
  <2>2. {"rename2", "dropShadow"} \subseteq CloseSteps
    BY DEF CloseSteps
  <2> QED
    BY <1>2, <1>6, <2>1, <2>2 DEF UnlinkStep
<1>7. CASE DirSyncStep
  BY <1>1, <1>7 DEF DirSyncStep, CloseReturns, Settled, OnDisk, Publishing
<1>8. CASE DropShadowStep
  BY <1>3, <1>8 DEF DropShadowStep
<1> QED
  BY <1>4, <1>5, <1>6, <1>7, <1>8

\* Between two host calls of a close only the host and a crash act, and
\* neither tells the guest that it is done.
LEMMA PublishingElse ==
    ASSUME Typed, Publishing, [Next]_vars,
           ~ (\/ FlushStep \/ RenameStep \/ UnlinkStep \/ SecondRenameStep
              \/ DirSyncStep \/ DropShadowStep)
    PROVE  Publishing' /\ ~ Reported
<1>0. /\ op.step \in CloseSteps => op \in CloseOps
      /\ op = Idle => op.step \notin CloseSteps
  BY OpFields, IdleStep DEF Typed
<1>1. CASE \E i \in Infos : NANDClose(i) \/ NANDSafeClose(i)
  <2>1. PICK i \in Infos, safe \in BOOLEAN :
             op = Idle /\ flag[i] = OpenFlag(safe) /\ Retire(i, safe)
    BY <1>1 DEF NANDClose, NANDSafeClose, OpenFlag
  <2>2. CASE handle[i].write
    <3>1. /\ op'.step = "flush" /\ op'.info = i /\ op'.safe = safe
          /\ flag'[i] = OpenFlag(safe)
      BY <2>1, <2>2 DEF Retire
    <3>2. flag'[i] # ClosedFlag(safe)
      BY <3>1 DEF OpenFlag, ClosedFlag
    <3> QED
      BY <1>0, <2>1, <3>1, <3>2 DEF Publishing, Reported
  <2>3. CASE ~ handle[i].write
    BY <1>0, <2>1, <2>3, IdleStep DEF Retire, Publishing, Reported, CloseSteps
  <2> QED
    BY <2>2, <2>3
<1>2. CASE Crash
  <2>1. op' = Idle /\ flag' = [i \in Infos |-> "none"]
    BY <1>2, Zenon DEF Crash
  <2>2. ~ Reported
    BY <1>0, <2>1 DEF Reported, CloseOps, ClosedFlag
  <2> QED
    BY <2>1, <2>2, IdleStep DEF Publishing, CloseSteps
<1>3. CASE HostWritesBack \/ UNCHANGED vars
  BY <1>3 DEF HostWritesBack, guest, vars, Publishing, Reported
\* Elsewhere a close is neither under way nor started.
<1>4. ASSUME op.step \notin CloseSteps, op'.step \notin CloseSteps
      PROVE  Publishing' /\ ~ Reported
  BY <1>4 DEF Publishing, Reported, CloseSteps
<1>5. CASE DiscardStep \/ CopyStep \/ FopenStep \/ DropStep \/ InPlaceStep
  <2>1. op.step \in OpenSteps
    BY <1>5 DEF DiscardStep, CopyStep, FopenStep, DropStep, InPlaceStep, OpenSteps
  <2>2. op \in OpenOps /\ op.step \notin CloseSteps
    BY <2>1, OpFields DEF Typed, OpenSteps, CloseSteps
  <2>3. {"copy", "fopen", "drop", "inPlace"} \subseteq OpenSteps
    BY DEF OpenSteps
  <2>4. op' = Idle \/ \E s \in OpenSteps : op' = [op EXCEPT !.step = s]
    BY <1>5, <2>3
    DEF DiscardStep, CopyStep, FopenStep, DropStep, InPlaceStep, WithoutShadow
  <2>5. op'.step \notin CloseSteps
    BY <2>2, <2>4, IdleStep DEF OpenOps, OpenSteps, CloseSteps
  <2> QED
    BY <1>4, <2>2, <2>5
<1>6. CASE \E i \in Infos : \/ \E safe \in BOOLEAN : OpensForReading(i, safe)
                            \/ \E b \in Blocks : NANDWrite(i, b)
                            \/ RetryClose(i)
  <2>1. op = Idle /\ op' = Idle
    BY <1>6 DEF OpensForReading, MayOpen, NANDWrite, RetryClose
  <2> QED
    BY <1>0, <1>4, <2>1, IdleStep DEF CloseSteps
<1>7. CASE \E i \in Infos : NANDOpen(i) \/ NANDSafeOpen(i)
  <2>1. op = Idle /\ op'.step \in {"discard", "inPlace"}
    BY <1>7 DEF NANDOpen, NANDSafeOpen, MayOpen
  <2> QED
    BY <1>0, <1>4, <2>1 DEF CloseSteps
<1>8. CASE NANDCreate \/ NANDDelete
  <2>1. op = Idle /\ op' = Idle
    BY <1>8 DEF NANDCreate, NANDDelete
  <2> QED
    BY <1>0, <1>4, <2>1, IdleStep DEF CloseSteps
<1> QED
  BY <1>1, <1>2, <1>3, <1>5, <1>6, <1>7, <1>8 DEF Next

\* On those hosts what a commit reports as saved is not undone by a crash,
\* unless the sync of the directory may fail.
THEOREM ReportedRenameIsDurable ==
    ASSUME SafeWorlds
    PROVE  Spec => ReportedRenameSurvives
<1> DEFINE IInv == Typed /\ Alone /\ NamesOK /\ Publishing
           Durable == Reported /\ ~ MayFail("dirsync") => \A d \in OnDisk' : d["save"] = op.inode
<1>1. Init => IInv
  <2>1. Init => op.step \notin CloseSteps
    BY IdleStep DEF Init, CloseSteps
  <2> QED
    BY <2>1, TypedInit, AloneInit, NamesInit, PublishingIdle
<1>2. IInv /\ [Next]_vars => Publishing' /\ [Durable]_vars
  BY PublishingClosing, PublishingElse
<1>3. IInv /\ [Next]_vars => IInv'
  BY <1>2, TypedStep, AloneStep, NamesStep
<1>4. ReportedRenameSurvives <=> [][Durable]_vars
  <2>1. Durable <=> (/\ op.step \in CloseSteps
                     /\ op.commit
                     /\ flag'[op.info] = ClosedFlag(op.safe)
                     /\ ~ MayFail("dirsync")
                     => \A d \in OnDisk' : d["save"] = op.inode)
    BY DEF Reported
  <2> QED
    BY <2>1, PTL DEF ReportedRenameSurvives
<1> HIDE DEF IInv, Durable
<1> QED
  BY <1>1, <1>2, <1>3, <1>4, PTL DEF Spec

-----------------------------------------------------------------------------
(***************************************************************************)
(* What is kept for recovery.                                              *)
(***************************************************************************)

\* Guests that heed what reading tells them, on hosts where a shadow that is to go
\* does go.  They do not delete their save, and where a file that "r+b" could not open
\* is emptied by "w+b" they have one handle.
CarefulWorlds ==
    \A w \in Worlds :
        "careful" \in w.does =>
            /\ "delete" \notin w.does
            /\ "remove" \notin w.fails
            /\ "open" \in w.fails => \A i, j \in w.infos : i = j

\* The save holds no data, the shadow does, and no handle is on it.
Source == ~ Nonzero("save") /\ Nonzero("temp") /\ dir["temp"] \notin OpenFiles
Commits == op.step \in CloseSteps /\ op.commit

\* While there is a source no careful guest may write, and nothing is under way but a
\* close that has nothing to commit.
SourceIsTold ==
    Does("careful") /\ Source /\ ~ Commits =>
        /\ probe \notin {"ok", "missing"}
        /\ ~ created
        /\ op.step \in {"idle", "flush"}

\* A save that exists is opened in place where its shadow is missing or in use.
InPlaceNeedsNone ==
    /\ Does("careful") /\ MayFail("open")
    /\ op.step = "inPlace"
    /\ dir["save"] # NoInode
    => dir["temp"] = NoInode \/ dir["temp"] \in OpenFiles

\* Only handles that commit are on the shadow, and they are writable.
ShadowHandles ==
    /\ dir["temp"] # NoInode =>
          /\ \A i \in Infos : ~ handle[i].commit => handle[i].inode # dir["temp"]
          /\ op.step = "flush" /\ ~ op.commit => op.inode # dir["temp"]
    /\ \A i \in Infos : handle[i].commit => handle[i].write

RecoveryInv == SourceIsTold /\ InPlaceNeedsNone /\ ShadowHandles

\* The program starts without a shadow.
LEMMA RecoveryInit == Init => RecoveryInv
<1> SUFFICES ASSUME Init PROVE RecoveryInv
  OBVIOUS
<1>1. dir["temp"] = NoInode /\ Visible("temp") = Missing /\ op.step = "idle"
  BY IdleStep DEF Init, Visible
<1>2. \A i \in Infos : ~ handle[i].commit
  BY DEF Init, NoHandle
<1> QED
  BY <1>1, <1>2 DEF RecoveryInv, SourceIsTold, InPlaceNeedsNone, ShadowHandles, Source, Nonzero

\* A step that makes no source leaves none but the one that was there.
LEMMA NoNewSource ==
    ASSUME RecoveryInv, world' = world,
           Source' => Source /\ ~ Commits,
           op'.step \in {"idle", "flush"} \/ Commits' \/ ~ Source',
           UNCHANGED created,
           probe' = probe \/ (Source => probe' \notin {"ok", "missing"})
    PROVE  SourceIsTold'
BY DEF RecoveryInv, SourceIsTold, Does

\* What the program sees under a name that keeps its file, if the file does.
LEMMA NameStays ==
    ASSUME NEW n \in Names, dir'[n] = dir[n],
           dir[n] # NoInode => data'[dir[n]] = data[dir[n]]
    PROVE  Visible(n)' = Visible(n)
BY DEF Visible

\* The host is what it was.
LEMMA HostStays ==
    ASSUME UNCHANGED host
    PROVE  /\ UNCHANGED <<dir, older, data, disk>>
           /\ Visible("save")' = Visible("save") /\ Visible("temp")' = Visible("temp")
BY DEF host, Visible

\* A handle is added to those that are there.
LEMMA MoreOpen ==
    ASSUME Typed, NEW i \in Infos, handle[i] = NoHandle, NEW h,
           handle' = [handle EXCEPT ![i] = h], op.step # "flush",
           NEW x \in OpenFiles, x # NoInode
    PROVE  x \in OpenFiles'
<1>1. PICK j \in Infos : x = handle[j].inode
  BY DEF OpenFiles
<1>2. j # i
  BY <1>1 DEF NoHandle
<1>3. handle'[j] = handle[j]
  BY <1>2 DEF Typed, GuestOK
<1> QED
  BY <1>1, <1>3 DEF OpenFiles

\* The shadow is one of the names, and what is seen of it is the file's.
LEMMA SourceHasFile == Source => dir["temp"] # NoInode
BY DEF Source, Nonzero, Visible

\* Nothing is seen under a name without a file.
LEMMA NoFileNoSource == dir["temp"] = NoInode => ~ Source
BY SourceHasFile

\* Reading tells of a source.
LEMMA ReadingTells == Source => ReadAnswer = "error"
<1> SUFFICES ASSUME Source PROVE ReadAnswer = "error"
  OBVIOUS
<1>1. ~ Nonzero("save") /\ Nonzero("temp")
  BY DEF Source
<1>2. CheckRead = "recovery"
  BY <1>1 DEF CheckRead
<1> QED
  BY <1>2 DEF ReadAnswer

\* A handler at a step of its own finds no source when its guest is careful.
LEMMA OpeningHasNone ==
    ASSUME RecoveryInv, op.step \in OpenSteps, Does("careful")
    PROVE  ~ Source
<1>1. ~ Commits /\ op.step \notin {"idle", "flush"}
  BY DEF Commits, OpenSteps, CloseSteps
<1> QED
  BY <1>1 DEF RecoveryInv, SourceIsTold

\* A guest that reads.
LEMMA RecoveryRead ==
    ASSUME Typed, RecoveryInv, NEW i \in Infos, NEW safe \in BOOLEAN,
           OpensForReading(i, safe)
    PROVE  RecoveryInv'
<1>0. /\ UNCHANGED <<host, created, op, world>> /\ op.step = "idle" /\ handle[i] = NoHandle
      /\ handle \in [Infos -> Handles]
  BY IdleStep DEF OpensForReading, MayOpen, Typed, GuestOK
<1>1. /\ UNCHANGED <<dir, data>>
      /\ Visible("save")' = Visible("save") /\ Visible("temp")' = Visible("temp")
  BY <1>0, HostStays
<1>2. ~ Commits /\ op'.step = "idle"
  BY <1>0 DEF Commits, CloseSteps
<1> DEFINE h == [inode |-> dir["save"], commit |-> FALSE, write |-> FALSE]
<1>3. ~ h.commit /\ h.inode = dir["save"]
  OBVIOUS
<1> HIDE DEF h
<1>4. \/ UNCHANGED handle
      \/ handle' = [handle EXCEPT ![i] = h] /\ dir["save"] \in Inodes
  BY ReadOpensFile DEF OpensForReading, Opened, h, Typed
<1>5. Source' => Source
  <2>1. CASE UNCHANGED handle
    BY <1>0, <1>1, <2>1 DEF Source, Nonzero, OpenFiles
  <2>2. CASE handle' = [handle EXCEPT ![i] = h]
    <3>1. Source' => dir["temp"] # NoInode
      BY <1>1 DEF Source, Nonzero, Visible
    <3>2. dir["temp"] # NoInode /\ dir["temp"] \in OpenFiles => dir["temp"] \in OpenFiles'
      BY <1>0, <2>2, MoreOpen
    <3> QED
      BY <1>1, <3>1, <3>2 DEF Source, Nonzero
  <2> QED
    BY <1>4, <2>1, <2>2
<1>6. Source => probe' \notin {"ok", "missing"}
  BY ReadingTells DEF OpensForReading
<1>7. SourceIsTold'
  BY <1>0, <1>2, <1>5, <1>6, NoNewSource
<1>8. InPlaceNeedsNone'
  BY <1>2 DEF InPlaceNeedsNone
<1>9. ShadowHandles'
  <2>1. dir["save"] \in Inodes => dir["save"] # dir["temp"]
    BY DEF Typed, HostOK, OnDisk, Distinct, Inodes, NoInode
  <2> QED
    BY <1>0, <1>1, <1>2, <1>3, <1>4, <2>1 DEF RecoveryInv, ShadowHandles
<1> QED
  BY <1>7, <1>8, <1>9 DEF RecoveryInv

\* A guest that opens to write: if it is careful there is nothing to recover.
LEMMA RecoveryOpen ==
    ASSUME CarefulWorlds, Typed, Alone, RecoveryInv, NEW i \in Infos,
           NANDOpen(i) \/ NANDSafeOpen(i)
    PROVE  RecoveryInv'
<1>0. /\ UNCHANGED <<host, handle, created, probe, world>>
      /\ op.step = "idle" /\ handle[i] = NoHandle /\ i \in world.infos
      /\ op'.step \in {"discard", "inPlace"}
      /\ op'.step = "inPlace" => Visible("save") = Missing \/ IsHostPathOpen
      /\ MayWrite
  BY IdleStep DEF NANDOpen, NANDSafeOpen, MayOpen, guest, ghosts
<1>1. /\ UNCHANGED dir
      /\ Visible("save")' = Visible("save") /\ Visible("temp")' = Visible("temp")
  BY <1>0, HostStays
<1>2. ~ Commits /\ OpenFiles' = OpenFiles
  BY <1>0 DEF Commits, CloseSteps, OpenFiles
<1>3. Source' <=> Source
  BY <1>1, <1>2 DEF Source, Nonzero
<1>4. Does("careful") => ~ Source
  BY <1>0, <1>2 DEF MayWrite, RecoveryInv, SourceIsTold
<1>5. SourceIsTold'
  BY <1>0, <1>3, <1>4 DEF SourceIsTold, Does
<1>6. InPlaceNeedsNone'
  <2> SUFFICES ASSUME Does("careful"), MayFail("open"), op'.step = "inPlace", dir["save"] # NoInode
               PROVE  FALSE
    BY <1>0, <1>1 DEF InPlaceNeedsNone, Does, MayFail
  <2>1. Visible("save") # Missing
    BY VisibleOK DEF Typed, Names
  <2>2. PICK j \in Infos : handle[j] # NoHandle
    BY <1>0, <2>1 DEF IsHostPathOpen
  <2>3. j \in world.infos
    BY <2>2 DEF Alone
  <2>4. \A x, y \in world.infos : x = y
    BY DEF CarefulWorlds, Does, MayFail, Typed, GuestOK
  <2> QED
    BY <1>0, <2>2, <2>3, <2>4
<1>7. ShadowHandles'
  BY <1>0, <1>1 DEF RecoveryInv, ShadowHandles
<1> QED
  BY <1>5, <1>6, <1>7 DEF RecoveryInv

\* Where removing does not fail, a shadow that stays is in use.
LEMMA StaysInUse ==
    ASSUME CarefulWorlds, Typed, Does("careful"),
           MayFail("remove") \/ ~ Removable("temp")
    PROVE  dir["temp"] = NoInode \/ dir["temp"] \in OpenFiles
<1>1. ~ MayFail("remove")
  BY DEF CarefulWorlds, Does, MayFail, Typed, GuestOK
<1> QED
  BY <1>1 DEF Removable

\* A handler at a step of its own goes on, and there is no source after it.
LEMMA RecoveryGoesOn ==
    ASSUME Does("careful") => ~ Source',
           Does("careful") /\ MayFail("open") /\ op'.step = "inPlace" =>
               dir'["temp"] = NoInode \/ dir'["temp"] \in OpenFiles',
           ShadowHandles', world' = world
    PROVE  RecoveryInv'
BY DEF RecoveryInv, SourceIsTold, InPlaceNeedsNone, Does, MayFail

\* The shadow is gone, or in use, and the handles are what they were.
LEMMA ShadowGone ==
    ASSUME ShadowHandles, UNCHANGED handle, op'.step # "flush",
           dir'["temp"] \in {dir["temp"], NoInode}
    PROVE  ShadowHandles'
BY DEF ShadowHandles

\* An orphaned shadow is discarded.
LEMMA RecoveryDiscard ==
    ASSUME CarefulWorlds, Typed, RecoveryInv, DiscardStep
    PROVE  RecoveryInv'
<1>0. /\ op \in OpenOps /\ op.step = "discard" /\ UNCHANGED <<handle, world>>
      /\ \/ op' = [op EXCEPT !.step = "copy"]
         \/ op' = WithoutShadow
  BY OpFields DEF DiscardStep, Typed, OpenSteps, guest, ghosts
<1>1. op'.step # "flush" /\ OpenFiles' = OpenFiles
  <2>1. op'.step \in {"copy", "idle", "inPlace"}
    BY <1>0, IdleStep DEF WithoutShadow, OpenOps
  <2> QED
    BY <1>0, <2>1 DEF OpenFiles
<1>2. Does("careful") => ~ Source
  BY <1>0, OpeningHasNone DEF OpenSteps
<1>3. \/ dir'["temp"] = NoInode
      \/ /\ MayFail("remove") \/ ~ Removable("temp")
         /\ dir' = dir
  <2>1. Removed("temp") => dir'["temp"] = NoInode
    BY RemovedOK, HostHalves DEF Typed, Names, HostOK, Directories
  <2> QED
    BY <2>1 DEF DiscardStep
<1>4. Does("careful") => dir'["temp"] = NoInode \/ dir'["temp"] \in OpenFiles'
  BY <1>1, <1>3, StaysInUse
<1>5. Does("careful") => ~ Source'
  BY <1>4 DEF Source, Nonzero, Visible
<1>6. ShadowHandles'
  BY <1>0, <1>1, <1>3, ShadowGone DEF RecoveryInv
<1> QED
  BY <1>0, <1>4, <1>5, <1>6, RecoveryGoesOn

\* A shadow is dropped.
LEMMA RecoveryDrop ==
    ASSUME CarefulWorlds, Typed, RecoveryInv, DropStep
    PROVE  RecoveryInv'
<1>0. /\ op \in OpenOps /\ op.step = "drop" /\ UNCHANGED <<handle, world>>
      /\ op' = WithoutShadow
  BY OpFields DEF DropStep, Typed, OpenSteps, guest, ghosts
<1>1. op'.step # "flush" /\ OpenFiles' = OpenFiles
  <2>1. op'.step \in {"idle", "inPlace"}
    BY <1>0, IdleStep DEF WithoutShadow, OpenOps
  <2> QED
    BY <1>0, <2>1 DEF OpenFiles
<1>3. \/ dir'["temp"] = NoInode
      \/ /\ MayFail("remove") \/ ~ Removable("temp")
         /\ dir' = dir
  <2>1. Removed("temp") => dir'["temp"] = NoInode
    BY RemovedOK, HostHalves DEF Typed, Names, HostOK, Directories
  <2> QED
    BY <2>1 DEF DropStep, Dropped
<1>4. Does("careful") => dir'["temp"] = NoInode \/ dir'["temp"] \in OpenFiles'
  BY <1>1, <1>3, StaysInUse
<1>5. Does("careful") => ~ Source'
  BY <1>4 DEF Source, Nonzero, Visible
<1>6. ShadowHandles'
  BY <1>0, <1>1, <1>3, ShadowGone DEF RecoveryInv
<1> QED
  BY <1>0, <1>4, <1>5, <1>6, RecoveryGoesOn

\* A shadow holds what the save holds, or nothing.
LEMMA RecoveryCopy ==
    ASSUME Typed, NamesOK, RecoveryInv, CopyStep
    PROVE  RecoveryInv'
<1>0. /\ op \in OpenOps /\ op.step = "copy" /\ UNCHANGED <<handle, world>>
  BY OpFields DEF CopyStep, Typed, OpenSteps, guest, ghosts
<1>1. op'.step \in {"fopen", "drop"}
  BY <1>0 DEF CopyStep, OpenOps
<1>2. Visible("save") \in Contents /\ dir["save"] # NoInode
  BY <1>0, VisibleOK DEF Typed, OpeningOK, ShadowSteps, Names
<1>3. PICK c \in {Visible("save"), Blank} : CreatedFile("temp", c)
  BY DEF CopyStep
<1>4. /\ FreshInode \in FreeInodes /\ c \in Contents
      /\ dir' = [dir EXCEPT !["temp"] = FreshInode]
      /\ data' = [data EXCEPT ![FreshInode] = c]
  BY <1>2, <1>3, CreatedOK, BlankIsNotMissing DEF Typed, Names, CreatedFile, Filled
<1> DEFINE fresh == FreshInode
<1>5. /\ fresh \in Inodes /\ fresh # NoInode /\ fresh \notin OpenFiles
      /\ fresh # dir["save"]
  BY <1>4, FreeIsUnused DEF OnDisk
<1>6. /\ dir'["temp"] = fresh /\ dir'["save"] = dir["save"]
      /\ data'[fresh] = c /\ data'[dir["save"]] = data[dir["save"]]
  BY <1>2, <1>4, <1>5 DEF Typed, HostOK, Directories, Names
<1> HIDE DEF fresh
<1>7. Visible("save")' = Visible("save") /\ Visible("temp")' = c
  BY <1>2, <1>5, <1>6 DEF Visible
<1>8. ~ Source'
  BY <1>3, <1>7, BlankIsNotMissing DEF Source, Nonzero
<1>9. ShadowHandles'
  BY <1>0, <1>1, <1>5, <1>6, HandleFields DEF RecoveryInv, ShadowHandles
<1> QED
  BY <1>0, <1>1, <1>8, <1>9, RecoveryGoesOn

\* The shadow is opened, or what holds of it still does.
LEMMA RecoveryFopen ==
    ASSUME Typed, RecoveryInv, FopenStep
    PROVE  RecoveryInv'
<1>0. /\ op \in OpenOps /\ op.step = "fopen" /\ UNCHANGED <<dir, data, world>> /\ op.info \in Infos
      /\ handle \in [Infos -> Handles] /\ UNCHANGED host
  BY OpFields DEF FopenStep, Typed, OpenSteps, OpenOps, host, GuestOK
<1>1. Does("careful") => ~ Source
  BY <1>0, OpeningHasNone DEF OpenSteps
<1>2. CASE op' = [op EXCEPT !.step = "drop"] /\ UNCHANGED handle
  <2>1. op'.step = "drop" /\ OpenFiles' = OpenFiles
    BY <1>0, <1>2 DEF OpenOps, OpenFiles
  <2>2. Source' <=> Source
    BY <1>0, <2>1, HostStays DEF Source, Nonzero
  <2>3. ShadowHandles'
    BY <1>0, <1>2, <2>1, ShadowGone DEF RecoveryInv
  <2> QED
    BY <1>0, <1>1, <2>1, <2>2, <2>3, RecoveryGoesOn
<1> DEFINE h == [inode |-> dir["temp"], commit |-> TRUE, write |-> TRUE]
<1>3. h.inode = dir["temp"] /\ h.commit /\ h.write
  OBVIOUS
<1> HIDE DEF h
<1>4. CASE Opened(op.info, h, OpenFlag(op.safe)) /\ op' = Idle
  <2>1. handle' = [handle EXCEPT ![op.info] = h] /\ op'.step = "idle"
    BY <1>4, IdleStep DEF Opened
  <2>2. handle'[op.info] = h
    BY <1>0, <2>1
  <2>3. dir'["temp"] \in OpenFiles'
    BY <1>0, <1>3, <2>2 DEF OpenFiles
  <2>4. ShadowHandles'
    BY <1>0, <1>3, <2>1 DEF RecoveryInv, ShadowHandles
  <2> QED
    BY <1>0, <2>1, <2>3, <2>4, RecoveryGoesOn DEF Source
<1> QED
  BY <1>2, <1>4 DEF FopenStep, h

\* The structure that a handler opens has no handle yet.
OpenerHasNone == op.step \in OpenSteps => handle[op.info] = NoHandle

\* Every step keeps it without one until the open returns.
LEMMA OpenerStep ==
    ASSUME Typed, OpenerHasNone, [Next]_vars
    PROVE  OpenerHasNone'
<1>0. "idle" \notin OpenSteps /\ "flush" \notin OpenSteps /\ OpenSteps \cap CloseSteps = {}
  BY DEF OpenSteps, CloseSteps
<1>1. CASE \E i \in Infos : NANDOpen(i) \/ NANDSafeOpen(i)
  <2>1. PICK i \in Infos : NANDOpen(i) \/ NANDSafeOpen(i)
    BY <1>1
  <2>2. op'.info = i /\ handle'[i] = NoHandle
    BY <2>1 DEF NANDOpen, NANDSafeOpen, MayOpen, guest
  <2> QED
    BY <2>2 DEF OpenerHasNone
<1>2. CASE DiscardStep \/ CopyStep \/ FopenStep \/ DropStep \/ InPlaceStep
  <2>1. op \in OpenOps /\ op.step \in OpenSteps
    BY <1>2, OpFields
    DEF DiscardStep, CopyStep, FopenStep, DropStep, InPlaceStep, OpenSteps, Typed
  <2>2. op' = Idle \/ (UNCHANGED handle /\ \E s : op' = [op EXCEPT !.step = s])
    BY <1>2 DEF DiscardStep, CopyStep, FopenStep, DropStep, InPlaceStep, WithoutShadow, guest
  <2>3. op' = Idle \/ (UNCHANGED handle /\ op'.info = op.info)
    BY <2>1, <2>2 DEF OpenOps
  <2> QED
    BY <1>0, <2>1, <2>3, IdleStep DEF OpenerHasNone
<1>3. CASE \E i \in Infos : NANDClose(i) \/ NANDSafeClose(i)
  <2>1. op' = Idle \/ op'.step = "flush"
    BY <1>3, CloseStarts
  <2> QED
    BY <1>0, <2>1, IdleStep DEF OpenerHasNone
<1>4. CASE \E i \in Infos : \/ \E safe \in BOOLEAN : OpensForReading(i, safe)
                            \/ \E b \in Blocks : NANDWrite(i, b)
                            \/ RetryClose(i)
  <2>1. op' = Idle
    BY <1>4 DEF OpensForReading, MayOpen, NANDWrite, RetryClose
  <2> QED
    BY <1>0, <2>1, IdleStep DEF OpenerHasNone
<1>5. CASE \/ FlushStep \/ RenameStep \/ UnlinkStep \/ SecondRenameStep
           \/ DirSyncStep \/ DropShadowStep
  <2>1. op' = Idle \/ op'.step \in CloseSteps
    BY <1>5, ClosingStep DEF CloseOps
  <2> QED
    BY <1>0, <2>1, IdleStep DEF OpenerHasNone
<1>6. CASE NANDCreate \/ NANDDelete \/ Crash
  <2>1. op' = Idle
    BY <1>6, CrashForgets DEF NANDCreate, NANDDelete
  <2> QED
    BY <1>0, <2>1, IdleStep DEF OpenerHasNone
<1>7. CASE HostWritesBack \/ UNCHANGED vars
  BY <1>7 DEF HostWritesBack, guest, vars, OpenerHasNone
<1> QED
  BY <1>1, <1>2, <1>3, <1>4, <1>5, <1>6, <1>7 DEF Next

\* The save is opened in place.  Where that empties it there is no shadow to recover
\* it from.
LEMMA RecoveryInPlace ==
    ASSUME Typed, RecoveryInv, OpenerHasNone, InPlaceStep
    PROVE  RecoveryInv'
<1>0. /\ op.step = "inPlace" /\ op.step # "flush" /\ op'.step = "idle" /\ op.info \in Infos
      /\ world' = world /\ handle[op.info] = NoHandle /\ handle \in [Infos -> Handles]
      /\ data \in [Inodes -> Contents] /\ dir \in Directories
  BY IdleStep, OpFields
  DEF InPlaceStep, Typed, GuestOK, HostOK, OpenSteps, OpenOps, OpenerHasNone
<1>1. Does("careful") => ~ Source
  BY <1>0, OpeningHasNone DEF OpenSteps
\* A new save is on a file of its own.
<1>2. ASSUME dir["save"] = NoInode, CreatedFile("save", Blank)
      PROVE  /\ dir'["temp"] = dir["temp"] /\ dir'["save"] = FreshInode /\ FreshInode # dir["temp"]
             /\ Visible("temp")' = Visible("temp")
             /\ FreshInode \notin OpenFiles
  <2>1. /\ FreshInode \in FreeInodes
        /\ dir' = [dir EXCEPT !["save"] = FreshInode]
        /\ data' = [data EXCEPT ![FreshInode] = Blank]
    BY <1>2, CreatedOK, BlankIsNotMissing DEF Typed, CreatedFile, Filled, Names
  <2> DEFINE fresh == FreshInode
  <2>2. fresh \notin OpenFiles /\ fresh # dir["temp"]
    BY <2>1, FreeIsUnused DEF OnDisk
  <2>3. dir'["temp"] = dir["temp"] /\ dir'["save"] = fresh
    BY <1>0, <2>1 DEF Directories, Names
  <2>4. dir["temp"] # NoInode => data'[dir["temp"]] = data[dir["temp"]]
    BY <1>0, <2>1, <2>2 DEF Directories, Names
  <2> HIDE DEF fresh
  <2>5. Visible("temp")' = Visible("temp")
    BY <2>3, <2>4, NameStays DEF Names
  <2> QED
    BY <2>2, <2>3, <2>5 DEF fresh
<1>3. PICK x : /\ \/ UNCHANGED handle
                  \/ /\ handle' = [handle EXCEPT ![op.info] =
                            [inode |-> x, commit |-> FALSE, write |-> TRUE]]
                     /\ x # dir["temp"]
  <2>1. dir["save"] # NoInode => dir["save"] # dir["temp"]
    BY DEF Typed, HostOK, OnDisk, Distinct
  <2> QED
    BY <1>2, <2>1 DEF InPlaceStep, Opened
<1> DEFINE h == [inode |-> x, commit |-> FALSE, write |-> TRUE]
<1>4. ~ h.commit /\ h.inode = x
  OBVIOUS
<1>5. UNCHANGED handle \/ (handle' = [handle EXCEPT ![op.info] = h] /\ x # dir["temp"])
  BY <1>3
<1> HIDE DEF h
\* What is open stays open.
<1>6. dir["temp"] # NoInode /\ dir["temp"] \in OpenFiles => dir["temp"] \in OpenFiles'
  <2>1. CASE UNCHANGED handle
    BY <1>0, <2>1 DEF OpenFiles
  <2>2. CASE handle' = [handle EXCEPT ![op.info] = h]
    BY <1>0, <2>2, MoreOpen
  <2> QED
    BY <1>5, <2>1, <2>2
<1>7. /\ dir'["temp"] = dir["temp"]
      /\ Does("careful") => ~ Source'
  <2>1. CASE UNCHANGED host
    <3>1. Source' => Source
      BY <1>6, <2>1, HostStays, SourceHasFile DEF Source, Nonzero, Visible
    <3> QED
      BY <1>1, <2>1, <3>1, HostStays
  <2>2. CASE dir["save"] = NoInode /\ CreatedFile("save", Blank)
    <3>1. ~ Nonzero("save")
      BY <2>2 DEF Nonzero, Visible
    <3>2. Nonzero("temp") => dir["temp"] # NoInode
      BY DEF Nonzero, Visible
    <3>3. Source' => Source
      BY <1>2, <1>6, <2>2, <3>1, <3>2 DEF Source, Nonzero
    <3> QED
      BY <1>1, <1>2, <2>2, <3>3
  <2>3. CASE dir["save"] # NoInode /\ MayFail("open") /\ UNCHANGED dir
    <3>1. Does("careful") => dir["temp"] = NoInode \/ dir["temp"] \in OpenFiles'
      BY <1>0, <1>6, <2>3 DEF RecoveryInv, InPlaceNeedsNone
    <3> QED
      BY <2>3, <3>1 DEF Source, Nonzero, Visible
  <2> QED
    BY <2>1, <2>2, <2>3 DEF InPlaceStep, host
<1>8. ShadowHandles'
  BY <1>0, <1>4, <1>5, <1>7 DEF RecoveryInv, ShadowHandles
<1> QED
  BY <1>0, <1>7, <1>8, RecoveryGoesOn

\* A guest that writes: what it writes is not zero.
LEMMA RecoveryWrite ==
    ASSUME Typed, RecoveryInv, NEW i \in Infos, NEW b \in Blocks, NANDWrite(i, b)
    PROVE  RecoveryInv' /\ (Source => Visible("temp")' = Visible("temp"))
<1>0. /\ UNCHANGED <<dir, handle, created, probe, op, world>> /\ op.step = "idle"
      /\ handle[i].inode \in Inodes /\ handle[i].inode \in OpenFiles
      /\ data \in [Inodes -> Contents] /\ dir \in Directories
  BY IdleStep, HandleFields DEF NANDWrite, guest, Typed, HostOK
<1> DEFINE k == handle[i].inode
<1>1. /\ data' = [data EXCEPT ![k][b] = version'] /\ version' \in Nat \ {0}
      /\ data[k] \in [Blocks -> Versions]
  <2>1. version \in Nat
    BY DEF Typed, GuestOK, Versions
  <2> QED
    BY <1>0, <2>1 DEF NANDWrite, Contents
<1>2. data'[k] # Blank /\ data'[k] # Missing /\ \A x \in Inodes \ {k} : data'[x] = data[x]
  <2>1. data'[k][b] = version' /\ Blank[b] = 0
    BY <1>0, <1>1 DEF Blank
  <2>2. data'[k] = [data[k] EXCEPT ![b] = version']
    BY <1>0, <1>1
  <2>3. DOMAIN data'[k] = Blocks /\ b \in Blocks /\ DOMAIN Missing = {}
    BY <1>1, <2>2 DEF Missing
  <2>4. data'[k] # Missing
    BY <2>3
  <2>5. data'[k] # Blank
    BY <1>1, <2>1
  <2> QED
    BY <1>0, <1>1, <2>4, <2>5
<1>3. k \in Inodes /\ k \in OpenFiles
  BY <1>0
<1> HIDE DEF k
<1>4. OpenFiles' = OpenFiles
  BY <1>0 DEF OpenFiles
<1>5. ASSUME dir["temp"] \notin OpenFiles PROVE Visible("temp")' = Visible("temp")
  <2>1. dir["temp"] # NoInode => data'[dir["temp"]] = data[dir["temp"]]
    BY <1>0, <1>2, <1>3, <1>5 DEF Directories, Names
  <2> QED
    BY <1>0, <2>1, NameStays DEF Names
<1>6. Nonzero("save") => Nonzero("save")'
  <2>1. CASE dir["save"] = k /\ k # NoInode
    BY <1>0, <1>2, <2>1 DEF Nonzero, Visible
  <2>2. CASE dir["save"] # k \/ k = NoInode
    <3>1. dir["save"] # NoInode => data'[dir["save"]] = data[dir["save"]]
      BY <1>0, <1>2, <2>2 DEF Directories, Names
    <3>2. Visible("save")' = Visible("save")
      BY <1>0, <3>1, NameStays DEF Names
    <3> QED
      BY <3>2 DEF Nonzero
  <2> QED
    BY <2>1, <2>2
<1>7. Source' => Source
  <2> SUFFICES ASSUME Source' PROVE Source
    OBVIOUS
  <2>1. dir["temp"] \notin OpenFiles
    BY <1>0, <1>4 DEF Source
  <2>2. Visible("temp")' = Visible("temp")
    BY <1>5, <2>1
  <2> QED
    BY <1>6, <2>1, <2>2 DEF Source, Nonzero
<1>8. SourceIsTold'
  <2>1. ~ Commits
    BY <1>0 DEF Commits, CloseSteps
  <2> QED
    BY <1>0, <1>7, <2>1, NoNewSource
<1>9. InPlaceNeedsNone' /\ ShadowHandles'
  BY <1>0 DEF RecoveryInv, InPlaceNeedsNone, ShadowHandles
<1> QED
  BY <1>5, <1>8, <1>9 DEF RecoveryInv, Source

\* A guest that creates: a careful one has been told that there is nothing.
LEMMA RecoveryCreate ==
    ASSUME Typed, RecoveryInv, NANDCreate
    PROVE  RecoveryInv' /\ (Source => Visible("temp")' = Visible("temp"))
<1>0. /\ UNCHANGED <<handle, op, world>> /\ op.step = "idle" /\ op'.step = "idle"
      /\ dir \in Directories
  BY IdleStep DEF NANDCreate, Typed, HostOK
<1>1. Does("careful") => ~ Source
  <2>1. ~ Commits
    BY <1>0 DEF Commits, CloseSteps
  <2> QED
    BY <2>1 DEF NANDCreate, MayCreate, RecoveryInv, SourceIsTold
<1>2. OpenFiles' = OpenFiles
  BY <1>0 DEF OpenFiles
<1>3. CASE UNCHANGED host
  <2>1. Source' <=> Source
    BY <1>2, <1>3, HostStays DEF Source, Nonzero
  <2>2. ShadowHandles'
    BY <1>0, <1>3, HostStays, ShadowGone DEF RecoveryInv
  <2> QED
    BY <1>0, <1>1, <1>3, <2>1, <2>2, RecoveryGoesOn, HostStays
<1>4. CASE dir["save"] = NoInode /\ CreatedFile("save", Blank)
  <2> DEFINE fresh == FreshInode
  <2>1. /\ fresh \in FreeInodes
        /\ dir' = [dir EXCEPT !["save"] = fresh]
        /\ data' = [data EXCEPT ![fresh] = Blank]
    BY <1>4, CreatedOK, BlankIsNotMissing DEF Typed, CreatedFile, Filled, Names
  <2> HIDE DEF fresh
  <2>2. fresh # dir["temp"] /\ dir'["temp"] = dir["temp"]
    BY <1>0, <2>1, FreeIsUnused DEF OnDisk, Directories, Names
  <2>3. dir["temp"] # NoInode => data'[dir["temp"]] = data[dir["temp"]]
    BY <1>0, <2>1, <2>2 DEF Directories, Names, Typed, HostOK
  <2>4. Visible("temp")' = Visible("temp")
    BY <2>2, <2>3, NameStays DEF Names
  <2>5. Source' => Source
    BY <1>2, <1>4, <2>2, <2>4 DEF Source, Nonzero, Visible
  <2>6. ShadowHandles'
    BY <1>0, <2>2, ShadowGone DEF RecoveryInv
  <2> QED
    BY <1>0, <1>1, <2>4, <2>5, <2>6, RecoveryGoesOn
<1> QED
  BY <1>3, <1>4 DEF NANDCreate

\* A careful guest does not delete.
LEMMA RecoveryDelete ==
    ASSUME CarefulWorlds, Typed, RecoveryInv, NANDDelete
    PROVE  RecoveryInv' /\ ~ Does("careful")
<1>0. /\ UNCHANGED <<handle, op, world>> /\ op'.step = "idle" /\ Removed("save") /\ Does("delete")
  BY IdleStep DEF NANDDelete, guest
<1>1. ~ Does("careful")
  BY <1>0 DEF CarefulWorlds, Does, Typed, GuestOK
<1>2. dir'["temp"] = dir["temp"]
  BY <1>0, RemovedOK, HostHalves DEF Typed, Names, HostOK, Directories
<1>3. ShadowHandles'
  BY <1>0, <1>2, ShadowGone DEF RecoveryInv
<1> QED
  BY <1>0, <1>1, <1>3, RecoveryGoesOn

\* A second close reports what it reports.
LEMMA RecoveryRetry ==
    ASSUME RecoveryInv, NEW i \in Infos, RetryClose(i)
    PROVE  RecoveryInv' /\ Visible("temp")' = Visible("temp")
<1>0. UNCHANGED <<host, handle, created, probe, op, world>>
  BY DEF RetryClose, ghosts
<1>1. dir' = dir /\ Visible("save")' = Visible("save") /\ Visible("temp")' = Visible("temp")
  BY <1>0, HostStays
<1>2. OpenFiles' = OpenFiles
  BY <1>0 DEF OpenFiles
<1>3. Source' <=> Source
  BY <1>1, <1>2 DEF Source, Nonzero
<1> QED
  BY <1>0, <1>1, <1>2, <1>3
  DEF RecoveryInv, SourceIsTold, InPlaceNeedsNone, ShadowHandles, Commits, Does, MayFail

\* The host writes back what the program sees.
LEMMA RecoveryWriteBack ==
    ASSUME Typed, RecoveryInv, HostWritesBack
    PROVE  RecoveryInv' /\ Visible("temp")' = Visible("temp")
<1>0. /\ UNCHANGED <<dir, handle, created, probe, op, world>>
      /\ Settled(dir, [i \in Inodes |-> [b \in Blocks |-> {data[i][b]}]])
  BY DEF HostWritesBack, guest, ghosts
<1>1. ASSUME NEW n \in Names PROVE Visible(n)' = Visible(n)
  <2>1. dir[n] # NoInode => dir[n] \in Inodes
    BY DEF Typed, HostOK, Directories
  <2>2. dir[n] # NoInode => data'[dir[n]] = data[dir[n]]
    BY <1>0, <2>1 DEF Settled
  <2> QED
    BY <1>0, <2>2, NameStays
<1>2. Visible("save")' = Visible("save") /\ Visible("temp")' = Visible("temp")
  BY <1>1 DEF Names
<1>3. OpenFiles' = OpenFiles
  BY <1>0 DEF OpenFiles
<1>4. Source' <=> Source
  BY <1>0, <1>2, <1>3 DEF Source, Nonzero
<1> QED
  BY <1>0, <1>2, <1>3, <1>4
  DEF RecoveryInv, SourceIsTold, InPlaceNeedsNone, ShadowHandles, Commits, Does, MayFail

\* After a crash the guest has read nothing yet.
LEMMA RecoveryCrash ==
    ASSUME Crash
    PROVE  RecoveryInv'
<1>1. op'.step = "idle" /\ handle' = [i \in Infos |-> NoHandle]
  BY CrashForgets, IdleStep
<1>2. probe' = "unread" /\ created' = FALSE
  BY Zenon DEF Crash
<1>3. \A i \in Infos : ~ handle'[i].commit /\ handle'[i].inode = NoInode
  BY <1>1 DEF NoHandle
<1> QED
  BY <1>1, <1>2, <1>3 DEF RecoveryInv, SourceIsTold, InPlaceNeedsNone, ShadowHandles

\* A close begins: the handle that goes is the only one on the shadow if it commits,
\* and is not on it if it does not.
LEMMA RecoveryClose ==
    ASSUME Typed, RecoveryInv, NEW i \in Infos, NANDClose(i) \/ NANDSafeClose(i)
    PROVE  RecoveryInv' /\ Visible("temp")' = Visible("temp")
<1>1. PICK safe \in BOOLEAN : op = Idle /\ Retire(i, safe)
  BY DEF NANDClose, NANDSafeClose
<1>0. /\ UNCHANGED <<host, created, probe, world>> /\ op.step = "idle"
      /\ handle' = [handle EXCEPT ![i] = NoHandle] /\ handle \in [Infos -> Handles]
  BY <1>1, IdleStep DEF Retire, ghosts, Typed, GuestOK
<1>2. dir' = dir /\ Visible("save")' = Visible("save") /\ Visible("temp")' = Visible("temp")
  BY <1>0, HostStays
<1>3. \/ ~ handle[i].write /\ op'.step = "idle"
      \/ op'.step = "flush" /\ op'.inode = handle[i].inode /\ op'.commit = handle[i].commit
  BY <1>0, <1>1, IdleStep DEF Retire
<1>4. ~ Commits
  BY <1>0 DEF Commits, CloseSteps
\* The files of the other handles, and the one that is flushed, stay open.
<1>5. ASSUME dir["temp"] # NoInode, dir["temp"] \in OpenFiles, ~ handle[i].commit
      PROVE  dir["temp"] \in OpenFiles'
  <2>1. PICK j \in Infos : dir["temp"] = handle[j].inode
    BY <1>0, <1>5 DEF OpenFiles
  <2>2. j # i
    BY <1>5, <2>1 DEF RecoveryInv, ShadowHandles
  <2>3. handle'[j] = handle[j]
    BY <1>0, <2>2
  <2> QED
    BY <2>1, <2>3 DEF OpenFiles
<1>6. CASE handle[i].commit
  <2>1. op'.step = "flush" /\ op'.commit
    BY <1>3, <1>6 DEF RecoveryInv, ShadowHandles
  <2>2. SourceIsTold' /\ InPlaceNeedsNone'
    BY <2>1 DEF SourceIsTold, InPlaceNeedsNone, Commits, CloseSteps
  <2>3. ShadowHandles'
    BY <1>0, <1>2, <2>1, HandleFields DEF RecoveryInv, ShadowHandles, NoHandle
  <2> QED
    BY <1>2, <2>2, <2>3 DEF RecoveryInv
<1>7. CASE ~ handle[i].commit
  <2>1. op'.step \in {"idle", "flush"}
    BY <1>3
  <2>2. Source' => Source
    BY <1>2, <1>5, <1>7, SourceHasFile DEF Source, Nonzero, Visible
  <2>3. SourceIsTold'
    BY <1>0, <1>4, <2>1, <2>2, NoNewSource
  <2>4. ShadowHandles'
    <3>1. \A j \in Infos : handle'[j] = handle[j] \/ handle'[j] = NoHandle
      BY <1>0
    <3>2. ~ NoHandle.commit /\ NoHandle.inode = NoInode
      BY DEF NoHandle
    <3> QED
      BY <1>2, <1>3, <1>7, <3>1, <3>2 DEF RecoveryInv, ShadowHandles
  <2> QED
    BY <1>2, <2>1, <2>3, <2>4 DEF RecoveryInv, InPlaceNeedsNone
<1> QED
  BY <1>6, <1>7

\* A step of a close that commits: when it returns the shadow is gone, or in use.
LEMMA RecoveryCommits ==
    ASSUME CarefulWorlds, SafeWorlds, Typed, NamesOK, RecoveryInv, op.commit,
           \/ FlushStep \/ RenameStep \/ UnlinkStep \/ SecondRenameStep
           \/ DirSyncStep \/ DropShadowStep
    PROVE  RecoveryInv'
<1>0. /\ op \in CloseOps /\ op.step \in CloseSteps /\ handle' = handle /\ world' = world
      /\ \/ op' = Idle
         \/ op' \in CloseOps /\ \E step \in CloseSteps : op' = [op EXCEPT !.step = step]
  BY ClosingStep, WorldStays DEF Next
<1>1. CASE op'.step \in CloseSteps \ {"flush"} /\ op'.commit /\ dir'["temp"] \in {dir["temp"], NoInode}
  <2>1. ShadowHandles'
    BY <1>0, <1>1, ShadowGone DEF RecoveryInv
  <2> QED
    BY <1>1, <2>1 DEF RecoveryInv, SourceIsTold, InPlaceNeedsNone, Commits, CloseSteps
<1>2. CASE /\ op' = Idle /\ dir'["temp"] \in {dir["temp"], NoInode}
           /\ Does("careful") => dir'["temp"] = NoInode \/ dir'["temp"] \in OpenFiles'
  <2>1. op'.step = "idle"
    BY <1>2, IdleStep
  <2>2. ShadowHandles'
    BY <1>0, <1>2, <2>1, ShadowGone DEF RecoveryInv
  <2>3. Does("careful") => ~ Source'
    BY <1>2 DEF Source, Nonzero, Visible
  <2> QED
    BY <1>0, <2>1, <2>2, <2>3, RecoveryGoesOn
<1>3. ASSUME NEW step \in CloseSteps, Goes(step)
      PROVE  op'.step = step /\ op'.commit
  BY <1>0, <1>3 DEF Goes, CloseOps
<1>4. dir \in Directories
  BY DEF Typed, HostOK
<1>5. CASE FlushStep
  <2>1. \E step \in {"rename", "dropShadow"} : Goes(step)
    BY <1>5 DEF FlushStep
  <2>2. op'.step \in {"rename", "dropShadow"} /\ op'.commit
    BY <1>3, <2>1 DEF CloseSteps
  <2>3. dir' = dir
    BY <1>5 DEF FlushStep
  <2> QED
    BY <1>1, <2>2, <2>3 DEF CloseSteps
<1>6. CASE RenameStep
  <2>1. dir["temp"] # NoInode
    BY <1>6 DEF RenameStep, NamesOK, ClosingNamed
  <2>2. Renamed["temp"] = NoInode
    BY <2>1, RenamedOK, HostHalves DEF Typed
  <2>3. CASE dir' = Renamed /\ CloseReturns(TRUE)
    BY <1>2, <2>2, <2>3 DEF CloseReturns
  <2>4. CASE Relinked(Renamed) /\ Goes("dirsync")
    BY <1>1, <1>3, <2>2, <2>4 DEF Relinked, CloseSteps
  <2>5. CASE Goes(AfterFailedRename) /\ UNCHANGED host
    <3>1. AfterFailedRename \in {"unlink", "dropShadow"}
      BY DEF AfterFailedRename
    <3> QED
      BY <1>1, <1>3, <2>5, <3>1, HostStays DEF CloseSteps
  <2> QED
    BY <1>6, <2>3, <2>4, <2>5 DEF RenameStep
<1>7. CASE UnlinkStep
  <2>1. dir'["temp"] = dir["temp"]
    BY <1>4, <1>7, RemovedOK, HostHalves DEF UnlinkStep, Typed, Names, Directories
  <2>2. Goes("rename2") \/ Goes("dropShadow")
    BY <1>7 DEF UnlinkStep
  <2> QED
    BY <1>1, <1>3, <2>1, <2>2 DEF CloseSteps
<1>8. CASE SecondRenameStep
  <2>1. dir["temp"] # NoInode
    BY <1>8 DEF SecondRenameStep, NamesOK, ClosingNamed
  <2>2. Renamed["temp"] = NoInode
    BY <2>1, RenamedOK, HostHalves DEF Typed
  <2>3. dir'["temp"] \in {dir["temp"], NoInode}
    BY <1>8, <2>2 DEF SecondRenameStep, Relinked
  <2>4. Goes("dirsync") \/ Goes("dropShadow")
    BY <1>8 DEF SecondRenameStep
  <2> QED
    BY <1>1, <1>3, <2>3, <2>4 DEF CloseSteps
<1>9. CASE DirSyncStep
  <2>1. dir["temp"] = NoInode /\ dir' = dir /\ op' = Idle
    BY <1>9 DEF DirSyncStep, CloseReturns, NamesOK, ClosingNamed
  <2> QED
    BY <1>2, <2>1
<1>10. CASE DropShadowStep
  <2>1. op' = Idle /\ op.step = "dropShadow" /\ op'.step = "idle"
    BY <1>10, IdleStep DEF DropShadowStep, CloseReturns
  <2>2. OpenFiles' = OpenFiles
    BY <1>0, <2>1 DEF OpenFiles
  <2>3. \/ dir'["temp"] = NoInode
        \/ /\ MayFail("remove") \/ ~ Removable("temp")
           /\ dir' = dir
    BY <1>4, <1>10, RemovedOK, HostHalves DEF DropShadowStep, Dropped, Typed, Names, Directories
  <2> QED
    BY <1>2, <2>1, <2>2, <2>3, StaysInUse
<1> QED
  BY <1>5, <1>6, <1>7, <1>8, <1>9, <1>10

\* A step of a close that does not is its last.
LEMMA RecoveryFlushed ==
    ASSUME Typed, NamesOK, RecoveryInv, ~ op.commit,
           \/ FlushStep \/ RenameStep \/ UnlinkStep \/ SecondRenameStep
           \/ DirSyncStep \/ DropShadowStep
    PROVE  RecoveryInv'
<1>0. /\ op \in CloseOps /\ op.step \in CloseSteps /\ handle' = handle /\ world' = world
  BY ClosingStep, WorldStays DEF Next
<1>1. op.step = "flush"
  BY <1>0 DEF NamesOK, ClosingNamed
<1>2. FlushStep
  BY <1>1 DEF RenameStep, UnlinkStep, SecondRenameStep, DirSyncStep, DropShadowStep
<1>3. /\ op' = Idle /\ op'.step = "idle" /\ UNCHANGED <<dir, data, created, probe>>
  BY <1>2, IdleStep DEF FlushStep, CloseReturns
<1>4. Visible("save")' = Visible("save") /\ Visible("temp")' = Visible("temp")
  BY <1>3 DEF Visible
<1>5. dir["temp"] # NoInode /\ dir["temp"] \in OpenFiles => dir["temp"] \in OpenFiles'
  BY <1>0, <1>1 DEF OpenFiles, RecoveryInv, ShadowHandles
<1>6. Source' => Source
  BY <1>3, <1>4, <1>5 DEF Source, Nonzero, Visible
<1>7. SourceIsTold'
  <2>1. ~ Commits
    BY DEF Commits
  <2> QED
    BY <1>0, <1>3, <1>6, <2>1, NoNewSource
<1>8. ShadowHandles'
  BY <1>0, <1>3, ShadowGone DEF RecoveryInv
<1> QED
  BY <1>3, <1>7, <1>8 DEF RecoveryInv, InPlaceNeedsNone

\* Every step keeps what the invariant says, and a source that is not on its way to
\* the save.
LEMMA RecoveryStep ==
    ASSUME CarefulWorlds, SafeWorlds, Typed, Alone, NamesOK, OpenerHasNone, RecoveryInv, [Next]_vars
    PROVE  /\ RecoveryInv'
           /\ Does("careful") /\ Source /\ op.step \notin CloseSteps =>
                  Visible("temp")' = Visible("temp") \/ Crash
<1>0. ASSUME Does("careful"), Source, op.step \notin CloseSteps PROVE op.step \notin OpenSteps
  BY <1>0, OpeningHasNone
<1>1. ASSUME NEW i \in Infos, NEW safe \in BOOLEAN, OpensForReading(i, safe)
      PROVE  RecoveryInv' /\ Visible("temp")' = Visible("temp")
  BY <1>1, RecoveryRead, HostStays DEF OpensForReading
<1>2. ASSUME NEW i \in Infos, NANDOpen(i) \/ NANDSafeOpen(i)
      PROVE  RecoveryInv' /\ Visible("temp")' = Visible("temp")
  BY <1>2, RecoveryOpen, HostStays DEF NANDOpen, NANDSafeOpen
<1>3. CASE DiscardStep \/ CopyStep \/ FopenStep \/ DropStep \/ InPlaceStep
  <2>1. op.step \in OpenSteps
    BY <1>3 DEF DiscardStep, CopyStep, FopenStep, DropStep, InPlaceStep, OpenSteps
  <2> QED
    BY <1>0, <1>3, <2>1, RecoveryDiscard, RecoveryCopy, RecoveryFopen, RecoveryDrop, RecoveryInPlace
<1>4. CASE \E i \in Infos, b \in Blocks : NANDWrite(i, b)
  BY <1>4, RecoveryWrite
<1>5. CASE NANDCreate
  BY <1>5, RecoveryCreate
<1>6. CASE NANDDelete
  BY <1>6, RecoveryDelete
<1>7. CASE \E i \in Infos : NANDClose(i) \/ NANDSafeClose(i) \/ RetryClose(i)
  BY <1>7, RecoveryClose, RecoveryRetry
<1>8. CASE \/ FlushStep \/ RenameStep \/ UnlinkStep \/ SecondRenameStep
           \/ DirSyncStep \/ DropShadowStep
  <2>1. op.step \in CloseSteps
    BY <1>8, ClosingStep
  <2> QED
    BY <1>8, <2>1, RecoveryCommits, RecoveryFlushed
<1>9. CASE HostWritesBack
  BY <1>9, RecoveryWriteBack
<1>10. CASE Crash
  BY <1>10, RecoveryCrash
<1>11. CASE UNCHANGED vars
  <2>1. UNCHANGED <<dir, data, handle, created, probe, op, world>>
    BY <1>11 DEF vars
  <2>2. Visible("save")' = Visible("save") /\ Visible("temp")' = Visible("temp") /\ OpenFiles' = OpenFiles
    BY <2>1 DEF Visible, OpenFiles
  <2>3. Source' <=> Source
    BY <2>1, <2>2 DEF Source, Nonzero
  <2> QED
    BY <2>1, <2>2, <2>3
    DEF RecoveryInv, SourceIsTold, InPlaceNeedsNone, ShadowHandles, Commits, Does, MayFail
<1> QED
  BY <1>1, <1>2, <1>3, <1>4, <1>5, <1>6, <1>7, <1>8, <1>9, <1>10, <1>11 DEF Next

\* On such hosts a guest that heeds what reading tells it never makes the program
\* destroy the data of a shadow while the save has none.
THEOREM RecoverySourceIsKept ==
    ASSUME CarefulWorlds, SafeWorlds
    PROVE  Spec => RecoverySourceKept
<1> DEFINE RInv == Typed /\ Alone /\ NamesOK /\ OpenerHasNone /\ RecoveryInv
           Kept == /\ Does("careful")
                   /\ ~ Nonzero("save")
                   /\ Nonzero("temp")
                   /\ op.step \notin CloseSteps
                   /\ dir["temp"] \notin OpenFiles
                   => \/ Visible("temp")' = Visible("temp")
                      \/ Crash
<1>1. Init => RInv
  <2>1. Init => OpenerHasNone
    BY IdleStep DEF Init, OpenerHasNone, OpenSteps
  <2> QED
    BY <2>1, TypedInit, AloneInit, NamesInit, RecoveryInit
<1>2. RInv /\ [Next]_vars => RInv'
  BY TypedStep, AloneStep, NamesStep, OpenerStep, RecoveryStep
<1>3. RInv /\ [Next]_vars => [Kept]_vars
  BY RecoveryStep DEF Source
<1>4. RecoverySourceKept <=> [][Kept]_vars
  BY DEF RecoverySourceKept
<1> HIDE DEF RInv, Kept
<1> QED
  BY <1>1, <1>2, <1>3, <1>4, PTL DEF Spec

=============================================================================
