-------------------------- MODULE FileReplace_proofs --------------------------
(***************************************************************************)
(* Proofs about FileReplace, for any number of inodes, contents and        *)
(* faults.                                                                 *)
(***************************************************************************)
EXTENDS FileReplace, TLAPS

WithTemp == {"write", "sync", "compare", "replace", "pause"}

(* The temporary file exists while a save is at it. Nobody else knows it.  *)
TempShape ==
    /\ temp # 0 <=> pc \in WithTemp
    /\ temp # 0 =>
          temp <= used /\ temp \notin onDisk /\ temp \notin touched

(* Names and writers refer to inodes that were created; one is left for    *)
(* the save that has passed its first look.                                *)
InodeShape ==
    /\ target \in onDisk
    /\ \A i \in onDisk \cup touched : i <= used
    /\ writer.inode # 0 => writer.inode \in touched
    /\ pc \in {"save", "create"} => used < MaxInodes

(* The inodes that only the plugin wrote are whole, and whole on the disk. *)
PluginsWhole ==
    /\ \A i \in onDisk \ touched : data[i] # Torn /\ flushed[i] = data[i]
    /\ pc \in WithTemp \ {"write"} => data[temp] # Torn
    /\ pc \in {"compare", "replace", "pause"} => flushed[temp] = data[temp]

(* What was read is whole; a file that is being written is not.            *)
SnapShape ==
    /\ pc # "idle" => snap # Torn
    /\ writer.begun => writer.inode # 0 /\ data[writer.inode] = Torn

(* Between comparison and replacement the file is what was compared, or a  *)
(* writer has begun in the meantime.                                       *)
Compared == pc = "replace" /\ ~recent => data[target] = snap

IInv ==
    /\ TypeOK /\ TempShape /\ InodeShape /\ PluginsWhole /\ SnapShape
    /\ Compared /\ ~unseen

-----------------------------------------------------------------------------
(* The invariant holds initially.                                          *)
LEMMA InitInv == Init => IInv
<1> SUFFICES ASSUME Init PROVE IInv
  OBVIOUS
<1> USE FileAssumption DEF Init, Inodes, NoWriter, Torn
<1>1. data \in [Inodes -> Nat] /\ data[1] = 1 /\ 1 \in Inodes
  OBVIOUS
<1>2. TypeOK
  BY <1>1 DEF TypeOK
<1>3. TempShape /\ InodeShape
  BY DEF TempShape, InodeShape, WithTemp
<1>4. PluginsWhole /\ SnapShape /\ Compared /\ ~unseen
  BY <1>1 DEF PluginsWhole, SnapShape, Compared, WithTemp
<1> QED
  BY <1>2, <1>3, <1>4 DEF IInv

(* A save begins with a whole document.                                    *)
LEMMA ReadInv == IInv /\ Read => IInv'
<1> SUFFICES ASSUME IInv, Read PROVE IInv'
  OBVIOUS
<1> USE FileAssumption
    DEF IInv, Read, disk, outside, observers, copies, Inodes
<1>1. TypeOK'
  BY DEF TypeOK, TempShape, InodeShape, WithTemp, Torn
<1>2. TempShape' /\ InodeShape'
  BY DEF TypeOK, TempShape, InodeShape, WithTemp
<1>3. PluginsWhole'
  BY DEF TypeOK, TempShape, InodeShape, PluginsWhole, WithTemp, Torn
<1>4. SnapShape'
  BY DEF TypeOK, TempShape, InodeShape, SnapShape, WithTemp, Torn
<1>5. Compared' /\ ~unseen'
  BY DEF TypeOK, TempShape, InodeShape, SnapShape, Compared, WithTemp, Torn
<1> QED
  BY <1>1, <1>2, <1>3, <1>4, <1>5

(* A save that returns has no temporary file any more, whether or not it   *)
(* could remove it.                                                        *)
LEMMA ReturnsEffect ==
    ASSUME TypeOK, NEW errors \in {0, 1}, Returns(errors)
    PROVE  /\ pc' = "idle" /\ temp' = 0 /\ faults' \in Nat
           /\ beside' \subseteq Inodes /\ excused' \subseteq Inodes
           /\ beside' \ excused' \subseteq (beside \ excused) \ {temp}
<1>1. errors \in Nat /\ faults \in Nat /\ temp \in Inodes \cup {0}
  BY DEF TypeOK
<1>2. beside \subseteq Inodes /\ excused \subseteq Inodes
  BY DEF TypeOK
<1>3. faults' \in Nat
  BY <1>1 DEF Returns
<1> QED
  BY <1>1, <1>2, <1>3 DEF Returns

(* The first comparison.                                                   *)
LEMMA CheckInv == IInv /\ Check => IInv'
<1> SUFFICES ASSUME IInv, Check PROVE IInv'
  OBVIOUS
<1> USE FileAssumption
    DEF IInv, Check, disk, outside, observers, copies, Inodes, CtxDone
<1>0. /\ pc = "save" /\ pc' \in {"create", "idle"} /\ temp = 0 /\ temp' = 0
      /\ faults' \in Nat
      /\ beside' \subseteq Inodes /\ excused' \subseteq Inodes
      /\ UNCHANGED <<windows, data, flushed, used, target, onDisk, done, snap,
                     writer, touched, last, recent, unseen>>
  <2> USE DEF TempShape, WithTemp
  <2>1. CASE Returns(0)
    BY <2>1, ReturnsEffect
  <2>2. CASE /\ pc' = "create" /\ UNCHANGED <<temp, copies, faults>>
    BY <2>2 DEF TypeOK, copies
  <2> QED
    BY <2>1, <2>2
<1> HIDE DEF Inodes, Check
<1>1. TypeOK'
  BY <1>0 DEF TypeOK
<1>2. TempShape' /\ InodeShape'
  BY <1>0 DEF TypeOK, TempShape, InodeShape, WithTemp
<1>3. PluginsWhole'
  BY <1>0 DEF TypeOK, TempShape, PluginsWhole, WithTemp, Torn
<1>4. SnapShape'
  BY <1>0 DEF SnapShape, Torn
<1>5. Compared' /\ ~unseen'
  BY <1>0 DEF Compared
<1> QED
  BY <1>1, <1>2, <1>3, <1>4, <1>5

(* The temporary file is an inode nobody has.                              *)
LEMMA CreateTempInv == IInv /\ CreateTemp => IInv'
<1> SUFFICES ASSUME IInv, CreateTemp PROVE IInv'
  OBVIOUS
<1> USE FileAssumption
    DEF IInv, CreateTemp, disk, outside, observers, copies, Inodes
<1>1. TypeOK'
  BY DEF TypeOK, TempShape, InodeShape, WithTemp, Torn
<1>2. TempShape' /\ InodeShape'
  BY DEF TypeOK, TempShape, InodeShape, WithTemp
<1>3. PluginsWhole'
  BY DEF TypeOK, TempShape, InodeShape, PluginsWhole, WithTemp, Torn
<1>4. SnapShape'
  BY DEF TypeOK, TempShape, InodeShape, SnapShape, WithTemp, Torn
<1>5. Compared' /\ ~unseen'
  BY DEF TypeOK, TempShape, InodeShape, SnapShape, Compared, WithTemp, Torn
<1> QED
  BY <1>1, <1>2, <1>3, <1>4, <1>5

(* Only the temporary file changes.                                        *)
LEMMA WriteInv == IInv /\ Write => IInv'
<1> SUFFICES ASSUME IInv, Write PROVE IInv'
  OBVIOUS
<1> USE FileAssumption
    DEF IInv, Write, disk, outside, observers, copies, Inodes
<1>1. TypeOK'
  <2>1. temp \in Inodes /\ last + 1 \in Nat /\ data \in [Inodes -> Nat]
    BY DEF TypeOK, TempShape, WithTemp
  <2>2. data' \in [Inodes -> Nat] /\ last' \in Nat
    BY <2>1
  <2> QED
    BY <2>2 DEF TypeOK
<1>2. TempShape' /\ InodeShape'
  BY DEF TypeOK, TempShape, InodeShape, WithTemp
<1>3. PluginsWhole'
  BY DEF TypeOK, TempShape, InodeShape, PluginsWhole, WithTemp, Torn
<1>4. SnapShape'
  BY DEF TypeOK, TempShape, InodeShape, SnapShape, WithTemp, Torn
<1>5. Compared' /\ ~unseen'
  BY DEF TypeOK, TempShape, InodeShape, SnapShape, Compared, WithTemp, Torn
<1> QED
  BY <1>1, <1>2, <1>3, <1>4, <1>5

(* It is whole on the disk from here on.                                   *)
LEMMA SyncInv == IInv /\ Sync => IInv'
<1> SUFFICES ASSUME IInv, Sync PROVE IInv'
  OBVIOUS
<1> USE FileAssumption
    DEF IInv, Sync, disk, outside, observers, copies, Inodes
<1>1. TypeOK'
  BY DEF TypeOK, TempShape, InodeShape, WithTemp, Torn
<1>2. TempShape' /\ InodeShape'
  BY DEF TypeOK, TempShape, InodeShape, WithTemp
<1>3. PluginsWhole'
  BY DEF TypeOK, TempShape, InodeShape, PluginsWhole, WithTemp, Torn
<1>4. SnapShape'
  BY DEF TypeOK, TempShape, InodeShape, SnapShape, WithTemp, Torn
<1>5. Compared' /\ ~unseen'
  BY DEF TypeOK, TempShape, InodeShape, SnapShape, Compared, WithTemp, Torn
<1> QED
  BY <1>1, <1>2, <1>3, <1>4, <1>5

(* The second comparison establishes Compared.                             *)
LEMMA RecheckInv == IInv /\ Recheck => IInv'
<1> SUFFICES ASSUME IInv, Recheck PROVE IInv'
  OBVIOUS
<1> USE FileAssumption
    DEF IInv, Recheck, disk, outside, observers, copies, Inodes, CtxDone
<1>0. /\ pc = "compare" /\ target' = target
      /\ \/ pc' = "replace" /\ data[target] = snap /\ temp' = temp
         \/ pc' = "idle" /\ temp' = 0
      /\ temp' \in Inodes \cup {0} /\ faults' \in Nat
      /\ beside' \subseteq Inodes /\ excused' \subseteq Inodes
      /\ UNCHANGED <<windows, data, flushed, used, target, onDisk, done, snap,
                     writer, touched, last, recent, unseen>>
  <2>1. CASE Returns(0)
    BY <2>1, ReturnsEffect
  <2>2. CASE /\ data[target] = snap /\ pc' = "replace"
             /\ UNCHANGED <<temp, copies, faults>>
    BY <2>2 DEF TypeOK, copies
  <2> QED
    BY <2>1, <2>2
<1> HIDE DEF Inodes, Recheck
<1>1. TypeOK'
  BY <1>0 DEF TypeOK
<1>2. TempShape' /\ InodeShape'
  BY <1>0 DEF TypeOK, TempShape, InodeShape, WithTemp
<1>3. PluginsWhole'
  BY <1>0 DEF TypeOK, TempShape, PluginsWhole, WithTemp, Torn
<1>4. SnapShape'
  BY <1>0 DEF SnapShape, Torn
<1>5. Compared' /\ ~unseen'
  BY <1>0 DEF Compared
<1> QED
  BY <1>1, <1>2, <1>3, <1>4, <1>5

(* The name moves to an inode that is whole, over what was compared.       *)
LEMMA ReplaceInv == IInv /\ Replace => IInv'
<1> SUFFICES ASSUME IInv, Replace PROVE IInv'
  OBVIOUS
<1> USE FileAssumption
    DEF IInv, Replace, disk, outside, observers, copies, Inodes, CtxDone
<1>1. TypeOK'
  BY DEF TypeOK, TempShape, InodeShape, WithTemp, Torn
<1>2. TempShape' /\ InodeShape'
  BY DEF TypeOK, TempShape, InodeShape, WithTemp
<1>3. PluginsWhole'
  BY DEF TypeOK, TempShape, InodeShape, PluginsWhole, WithTemp, Torn
<1>4. SnapShape'
  BY DEF TypeOK, TempShape, InodeShape, SnapShape, WithTemp, Torn
<1>5. Compared' /\ ~unseen'
  BY DEF TypeOK, TempShape, InodeShape, SnapShape, Compared, WithTemp, Torn
<1> QED
  BY <1>1, <1>2, <1>3, <1>4, <1>5

(* A sharing violation ends the attempt.                                   *)
LEMMA BlockedInv == IInv /\ Blocked => IInv'
<1> SUFFICES ASSUME IInv, Blocked PROVE IInv'
  OBVIOUS
<1> USE FileAssumption
    DEF IInv, Blocked, disk, outside, observers, copies, Inodes, CtxDone
<1>1. TypeOK'
  BY DEF TypeOK, TempShape, InodeShape, WithTemp, Torn
<1>2. TempShape' /\ InodeShape'
  BY DEF TypeOK, TempShape, InodeShape, WithTemp
<1>3. PluginsWhole'
  BY DEF TypeOK, TempShape, InodeShape, PluginsWhole, WithTemp, Torn
<1>4. SnapShape'
  BY DEF TypeOK, TempShape, InodeShape, SnapShape, WithTemp, Torn
<1>5. Compared' /\ ~unseen'
  BY DEF TypeOK, TempShape, InodeShape, SnapShape, Compared, WithTemp, Torn
<1> QED
  BY <1>1, <1>2, <1>3, <1>4, <1>5

(* All of it is done again, the comparison included.                       *)
LEMMA ResumeInv == IInv /\ Resume => IInv'
<1> SUFFICES ASSUME IInv, Resume PROVE IInv'
  OBVIOUS
<1> USE FileAssumption
    DEF IInv, Resume, disk, outside, observers, copies, Inodes
<1>1. TypeOK'
  BY DEF TypeOK, TempShape, InodeShape, WithTemp, Torn
<1>2. TempShape' /\ InodeShape'
  BY DEF TypeOK, TempShape, InodeShape, WithTemp
<1>3. PluginsWhole'
  BY DEF TypeOK, TempShape, InodeShape, PluginsWhole, WithTemp, Torn
<1>4. SnapShape'
  BY DEF TypeOK, TempShape, InodeShape, SnapShape, WithTemp, Torn
<1>5. Compared' /\ ~unseen'
  BY DEF TypeOK, TempShape, InodeShape, SnapShape, Compared, WithTemp, Torn
<1> QED
  BY <1>1, <1>2, <1>3, <1>4, <1>5

(* Fewer inodes may be behind the name.                                    *)
LEMMA SyncDirectoryInv == IInv /\ SyncDirectory => IInv'
<1> SUFFICES ASSUME IInv, SyncDirectory PROVE IInv'
  OBVIOUS
<1> USE FileAssumption
    DEF IInv, SyncDirectory, disk, outside, observers, copies, Inodes
<1>1. TypeOK'
  BY DEF TypeOK, TempShape, InodeShape, WithTemp, Torn
<1>2. TempShape' /\ InodeShape'
  BY DEF TypeOK, TempShape, InodeShape, WithTemp
<1>3. PluginsWhole'
  BY DEF TypeOK, TempShape, InodeShape, PluginsWhole, WithTemp, Torn
<1>4. SnapShape'
  BY DEF TypeOK, TempShape, InodeShape, SnapShape, WithTemp, Torn
<1>5. Compared' /\ ~unseen'
  BY DEF TypeOK, TempShape, InodeShape, SnapShape, Compared, WithTemp, Torn
<1> QED
  BY <1>1, <1>2, <1>3, <1>4, <1>5

(* A save that fails takes its temporary file with it.                     *)
LEMMA SaveFailsInv == IInv /\ SaveFails => IInv'
<1> SUFFICES ASSUME IInv, SaveFails PROVE IInv'
  OBVIOUS
<1> USE FileAssumption DEF IInv
<1>1. /\ pc' = "idle" /\ temp' = 0 /\ faults' \in Nat
      /\ beside' \subseteq Inodes /\ excused' \subseteq Inodes
      /\ UNCHANGED <<windows, data, flushed, used, target, onDisk, done, snap,
                     writer, touched, last, recent, unseen>>
  <2>1. \E errors \in {0, 1} : Returns(errors)
    BY DEF SaveFails
  <2> QED
    BY <2>1, ReturnsEffect DEF SaveFails, disk, outside, observers
<1>2. TypeOK'
  BY <1>1 DEF TypeOK
<1>3. TempShape' /\ InodeShape'
  BY <1>1 DEF TypeOK, TempShape, InodeShape, WithTemp
<1>4. PluginsWhole'
  BY <1>1 DEF TypeOK, PluginsWhole, WithTemp, Torn
<1>5. SnapShape' /\ Compared' /\ ~unseen'
  BY <1>1 DEF TypeOK, SnapShape, Compared, Torn
<1> QED
  BY <1>2, <1>3, <1>4, <1>5

(* Only the context changes.                                               *)
LEMMA CancelInv == IInv /\ Cancel => IInv'
<1> SUFFICES ASSUME IInv, Cancel PROVE IInv'
  OBVIOUS
<1> USE FileAssumption
    DEF IInv, Cancel, disk, outside, observers, copies, Inodes
<1>1. TypeOK'
  BY DEF TypeOK, TempShape, InodeShape, WithTemp, Torn
<1>2. TempShape' /\ InodeShape'
  BY DEF TypeOK, TempShape, InodeShape, WithTemp
<1>3. PluginsWhole'
  BY DEF TypeOK, TempShape, InodeShape, PluginsWhole, WithTemp, Torn
<1>4. SnapShape'
  BY DEF TypeOK, TempShape, InodeShape, SnapShape, WithTemp, Torn
<1>5. Compared' /\ ~unseen'
  BY DEF TypeOK, TempShape, InodeShape, SnapShape, Compared, WithTemp, Torn
<1> QED
  BY <1>1, <1>2, <1>3, <1>4, <1>5

(* Someone else opens the file, which counts as touched from now on.       *)
LEMMA WriterOpensInv ==
    ASSUME IInv, NEW truncates \in BOOLEAN, WriterOpens(truncates)
    PROVE  IInv'
<1> USE FileAssumption
    DEF IInv, WriterOpens, disk, outside, observers, copies, Inodes, NoWriter
<1>1. TypeOK'
  BY DEF TypeOK, TempShape, InodeShape, WithTemp, Torn
<1>2. TempShape' /\ InodeShape'
  BY DEF TypeOK, TempShape, InodeShape, WithTemp
<1>3. PluginsWhole'
  BY DEF TypeOK, TempShape, InodeShape, PluginsWhole, WithTemp, Torn
<1>4. SnapShape'
  BY DEF TypeOK, TempShape, InodeShape, SnapShape, WithTemp, Torn
<1>5. Compared' /\ ~unseen'
  BY DEF TypeOK, TempShape, InodeShape, SnapShape, Compared, WithTemp, Torn
<1> QED
  BY <1>1, <1>2, <1>3, <1>4, <1>5

(* A file that is begun is not what was compared.                          *)
LEMMA WriterWritesInv == IInv /\ WriterWrites => IInv'
<1> SUFFICES ASSUME IInv, WriterWrites PROVE IInv'
  OBVIOUS
<1> USE FileAssumption
    DEF IInv, WriterWrites, disk, outside, observers, copies, Inodes
<1>1. TypeOK'
  BY DEF TypeOK, TempShape, InodeShape, WithTemp, Torn
<1>2. TempShape' /\ InodeShape'
  BY DEF TypeOK, TempShape, InodeShape, WithTemp
<1>3. PluginsWhole'
  BY DEF TypeOK, TempShape, InodeShape, PluginsWhole, WithTemp, Torn
<1>4. SnapShape'
  BY DEF TypeOK, TempShape, InodeShape, SnapShape, WithTemp, Torn
<1>5. Compared' /\ ~unseen'
  BY DEF TypeOK, TempShape, InodeShape, SnapShape, Compared, WithTemp, Torn
<1> QED
  BY <1>1, <1>2, <1>3, <1>4, <1>5

(* It was begun before, and is not what was compared.                      *)
LEMMA WriterClosesInv == IInv /\ WriterCloses => IInv'
<1> SUFFICES ASSUME IInv, WriterCloses PROVE IInv'
  OBVIOUS
<1> USE FileAssumption
    DEF IInv, WriterCloses, disk, outside, observers, copies, Inodes, NoWriter
<1>1. TypeOK'
  <2>1. writer.inode \in Inodes /\ last + 1 \in Nat /\ data \in [Inodes -> Nat]
    BY DEF TypeOK, TempShape, WithTemp
  <2>2. data' \in [Inodes -> Nat] /\ last' \in Nat
    BY <2>1
  <2>3. writer' \in [inode : Inodes \cup {0}, begun : BOOLEAN]
    OBVIOUS
  <2> QED
    BY <2>2, <2>3 DEF TypeOK
<1>2. TempShape' /\ InodeShape'
  BY DEF TypeOK, TempShape, InodeShape, WithTemp
<1>3. PluginsWhole'
  BY DEF TypeOK, TempShape, InodeShape, PluginsWhole, WithTemp, Torn
<1>4. SnapShape'
  BY DEF TypeOK, TempShape, InodeShape, SnapShape, WithTemp, Torn
<1>5. Compared' /\ ~unseen'
  BY DEF TypeOK, TempShape, InodeShape, SnapShape, Compared, WithTemp, Torn
<1> QED
  BY <1>1, <1>2, <1>3, <1>4, <1>5

(* The name moves to an inode that counts as touched.                      *)
LEMMA OutsideRenameInv == IInv /\ OutsideRename => IInv'
<1> SUFFICES ASSUME IInv, OutsideRename PROVE IInv'
  OBVIOUS
<1> USE FileAssumption
    DEF IInv, OutsideRename, disk, outside, observers, copies, Inodes, NoWriter
<1>1. TypeOK'
  <2>1. used + 1 \in Inodes /\ last + 1 \in Nat
    BY DEF TypeOK
  <2>2. /\ data' \in [Inodes -> Nat] /\ flushed' \in [Inodes -> Nat]
        /\ target' \in Inodes /\ onDisk' \subseteq Inodes
        /\ touched' \subseteq Inodes /\ used' \in Inodes /\ last' \in Nat
    BY <2>1 DEF TypeOK
  <2> QED
    BY <2>2 DEF TypeOK
<1>2. TempShape' /\ InodeShape'
  BY DEF TypeOK, TempShape, InodeShape, WithTemp
<1>3. PluginsWhole'
  <2>1. \A i \in Inodes \ {used + 1} :
           data'[i] = data[i] /\ flushed'[i] = flushed[i]
    BY DEF TypeOK
  <2>2. \A i \in onDisk' \ touched' :
           i \in onDisk \ touched /\ i \in Inodes \ {used + 1}
    BY DEF TypeOK
  <2>3. pc \in WithTemp => temp \in Inodes \ {used + 1}
    BY DEF TypeOK, TempShape
  <2>4. UNCHANGED <<pc, temp>>
    OBVIOUS
  <2> HIDE FileAssumption DEF OutsideRename, Inodes
  <2> QED
    BY <2>1, <2>2, <2>3, <2>4 DEF PluginsWhole, WithTemp, Torn
<1>4. SnapShape'
  BY DEF TypeOK, TempShape, InodeShape, SnapShape, WithTemp, Torn
<1>5. Compared' /\ ~unseen'
  BY DEF TypeOK, TempShape, InodeShape, SnapShape, Compared, WithTemp, Torn
<1> QED
  BY <1>1, <1>2, <1>3, <1>4, <1>5

(* Nothing on the disk changes.                                            *)
LEMMA CrashInv == IInv /\ Crash => IInv'
<1> SUFFICES ASSUME IInv, Crash PROVE IInv'
  OBVIOUS
<1> USE FileAssumption
    DEF IInv, Crash, disk, outside, observers, copies, Inodes
<1>1. TypeOK'
  <2>1. NoWriter \in [inode : Inodes \cup {0}, begun : BOOLEAN]
    BY DEF NoWriter
  <2>2. writer' = writer \/ writer' = NoWriter
    OBVIOUS
  <2>3. writer' \in [inode : Inodes \cup {0}, begun : BOOLEAN]
    BY <2>1, <2>2 DEF TypeOK
  <2> QED
    BY <2>3 DEF TypeOK
<1>2. TempShape' /\ InodeShape'
  BY DEF TypeOK, TempShape, InodeShape, WithTemp, NoWriter
<1>3. PluginsWhole'
  BY DEF TypeOK, TempShape, InodeShape, PluginsWhole, WithTemp, Torn, NoWriter
<1>4. SnapShape'
  BY DEF TypeOK, TempShape, InodeShape, SnapShape, WithTemp, Torn, NoWriter
<1>5. Compared' /\ ~unseen'
  BY DEF TypeOK, TempShape, InodeShape, SnapShape, Compared, WithTemp, Torn, NoWriter
<1> QED
  BY <1>1, <1>2, <1>3, <1>4, <1>5

(* Untouched inodes behind the name are on the disk as they are.           *)
LEMMA PowerLossInv == IInv /\ PowerLoss => IInv'
<1> SUFFICES ASSUME IInv, PowerLoss PROVE IInv'
  OBVIOUS
<1> USE FileAssumption
    DEF IInv, PowerLoss, disk, outside, observers, copies, Inodes, NoWriter
<1>1. TypeOK'
  <2>1. data' \in [Inodes -> Nat] /\ flushed' \in [Inodes -> Nat]
    <3>1. /\ data' \in [Inodes -> {Torn} \cup 1..last] /\ flushed' = data'
          /\ last \in Nat
      BY DEF TypeOK
    <3> HIDE FileAssumption DEF IInv, PowerLoss, Inodes
    <3>2. {Torn} \cup 1..last \subseteq Nat
      BY <3>1 DEF Torn
    <3> QED
      BY <3>1, <3>2
  <2>2. target' \in Inodes /\ onDisk' \subseteq Inodes
    BY DEF TypeOK
  <2>3. /\ pc' = "idle" /\ temp' = 0 /\ writer' = NoWriter
        /\ faults' \in Nat
        /\ UNCHANGED <<windows, used, done, snap, last, touched, recent, unseen>>
    BY DEF TypeOK
  <2>4. NoWriter \in [inode : Inodes \cup {0}, begun : BOOLEAN]
    OBVIOUS
  <2>6. beside' \subseteq Inodes /\ excused' \subseteq Inodes
    <3>1. used \in Inodes /\ 2..used \subseteq Inodes
      BY DEF TypeOK
    <3>2. beside' \subseteq 2..used /\ excused' = excused \cup beside'
      OBVIOUS
    <3> QED
      BY <3>1, <3>2 DEF TypeOK
  <2> HIDE FileAssumption DEF IInv, PowerLoss, Inodes, NoWriter
  <2>5. TypeOK
    BY DEF IInv
  <2> QED
    BY <2>1, <2>2, <2>3, <2>4, <2>5, <2>6 DEF TypeOK
<1>2. TempShape' /\ InodeShape'
  BY DEF TypeOK, TempShape, InodeShape, WithTemp
<1>3. PluginsWhole'
  BY DEF TypeOK, TempShape, InodeShape, PluginsWhole, WithTemp, Torn
<1>4. SnapShape'
  BY DEF TypeOK, TempShape, InodeShape, SnapShape, WithTemp, Torn
<1>5. Compared' /\ ~unseen'
  BY DEF TypeOK, TempShape, InodeShape, SnapShape, Compared, WithTemp, Torn
<1> QED
  BY <1>1, <1>2, <1>3, <1>4, <1>5

-----------------------------------------------------------------------------
(* Every step keeps the invariant.                                         *)
LEMMA NextInv == IInv /\ [Next]_vars => IInv'
<1> SUFFICES ASSUME IInv, [Next]_vars PROVE IInv'
  OBVIOUS
<1>1. CASE Step
  BY <1>1, CheckInv, CreateTempInv, WriteInv, SyncInv, RecheckInv, ReplaceInv,
     BlockedInv, ResumeInv, SyncDirectoryInv, SaveFailsInv DEF Step
<1>2. CASE UNCHANGED vars
  BY <1>2 DEF vars, IInv, TypeOK, TempShape, InodeShape, PluginsWhole,
              SnapShape, Compared
<1> QED
  BY <1>1, <1>2, ReadInv, CancelInv, WriterOpensInv, WriterWritesInv,
     WriterClosesInv, OutsideRenameInv, CrashInv, PowerLossInv DEF Next

(* The invariant holds throughout.                                         *)
LEMMA Invariant == Spec => []IInv
BY InitInv, NextInv, PTL DEF Spec

(* The file a reader finds under the credential's name, after crashes and  *)
(* power losses in the midst of atomicWriteAuthFile and replaceAuthFileCAS *)
(* as well, is whole unless a writer other than the plugin was at it.      *)
THEOREM Whole == Spec => []WholeUnlessOutside
<1>1. IInv => WholeUnlessOutside
  BY DEF IInv, InodeShape, PluginsWhole, WholeUnlessOutside
<1> QED
  BY <1>1, Invariant, PTL

(* What replaceAuthFileCAS destroys without having compared it was begun   *)
(* between the comparison and the replacement of one attempt: on the way   *)
(* over any number of sharing violations each attempt compares anew.       *)
THEOREM SeenOnly == Spec => []NothingUnseenReplaced
<1>1. IInv => NothingUnseenReplaced
  BY DEF IInv, NothingUnseenReplaced
<1> QED
  BY <1>1, Invariant, PTL

-----------------------------------------------------------------------------
(* The temporary file of a save goes with it, or is accounted for.         *)
LEMMA CopiesKept ==
    ASSUME IInv, CopiesExcused, [Next]_vars
    PROVE  CopiesExcused'
<1> USE DEF CopiesExcused
<1>1. TypeOK /\ 0 \notin beside
  BY DEF IInv, TypeOK, Inodes
<1>2. CASE \E errors \in {0, 1} : Returns(errors)
  <2>1. temp' = 0 /\ beside' \ excused' \subseteq (beside \ excused) \ {temp}
    BY Zenon, <1>1, <1>2, ReturnsEffect
  <2> QED
    BY <2>1
<1>3. CASE CreateTemp
  <2>1. temp = 0
    BY <1>3 DEF CreateTemp, IInv, TempShape, WithTemp
  <2> QED
    BY <1>1, <1>3, <2>1 DEF CreateTemp
<1>4. CASE Replace
  BY <1>4 DEF Replace
<1>5. CASE Crash
  BY <1>1, <1>5 DEF Crash
<1>6. CASE PowerLoss
  BY <1>6 DEF PowerLoss
<1>7. CASE \/ Read \/ Write \/ Sync \/ Blocked \/ Resume \/ SyncDirectory
           \/ Cancel \/ (\E truncates \in BOOLEAN : WriterOpens(truncates))
           \/ WriterWrites \/ WriterCloses \/ OutsideRename
           \/ UNCHANGED vars
  BY <1>7 DEF Read, Write, Sync, Blocked, Resume, SyncDirectory, Cancel,
              WriterOpens, WriterWrites, WriterCloses, OutsideRename, vars,
              copies
<1>8. CASE Check \/ Recheck
  <2>1. Returns(0) \/ UNCHANGED <<temp, beside, excused>>
    BY <1>8 DEF Check, Recheck, copies
  <2> QED
    BY <1>2, <2>1
<1>9. CASE SaveFails
  BY <1>2, <1>9 DEF SaveFails
<1> QED
  BY Zenon, <1>3, <1>4, <1>5, <1>6, <1>7, <1>8, <1>9 DEF Next, Step

(* On whichever path atomicWriteAuthFile ends, its temporary file does not *)
(* stay, unless os.Remove fails or the process dies in the midst of it.    *)
THEOREM NothingLeft == Spec => []CopiesExcused
<1>1. Init => CopiesExcused
  BY DEF Init, CopiesExcused
<1> QED
  BY <1>1, CopiesKept, InitInv, NextInv, PTL DEF Spec
=============================================================================
