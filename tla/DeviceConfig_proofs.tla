------------------------ MODULE DeviceConfig_proofs ------------------------
(***************************************************************************)
(* The configfs tree of a volume: ConfigInv is inductive under failures,   *)
(* timeouts, late removals and crashes; what creation may build on, the    *)
(* order of removal and Export follow.                                     *)
(***************************************************************************)
EXTENDS DeviceConfig, TLAPS

-----------------------------------------------------------------------------
(* The two lists, entry by entry.                                          *)
LEMMA StepsAre ==
  /\ Len(Steps) = 9
  /\ Steps[1] = "pipe" /\ Steps[2] = "core" /\ Steps[3] = "configure" /\ Steps[4] = "start"
  /\ Steps[5] = "wwn" /\ Steps[6] = "tpgt" /\ Steps[7] = "nexus" /\ Steps[8] = "lun"
  /\ Steps[9] = "link"
BY DEF Steps

LEMMA RemovedAre ==
  /\ Len(pathsToRemove) = 6
  /\ pathsToRemove[1] = "link" /\ pathsToRemove[2] = "lun" /\ pathsToRemove[3] = "tpgt"
  /\ pathsToRemove[4] = "wwn" /\ pathsToRemove[5] = "core" /\ pathsToRemove[6] = "node"
BY DEF pathsToRemove

LEMMA ToRemove == \A i \in 1 .. 6 : pathsToRemove[i] \in Paths
<1> SUFFICES ASSUME NEW i \in 1 .. 6 PROVE pathsToRemove[i] \in Paths
  OBVIOUS
<1>1. i = 1 \/ i = 2 \/ i = 3 \/ i = 4 \/ i = 5 \/ i = 6
  OBVIOUS
<1> QED BY <1>1, RemovedAre DEF Paths

(* The tree is closed upwards: what a path needs is there.                 *)
Tree(F) == \A p \in F : \A q \in Paths : <<q, p>> \in Holds => q \in F

LEMMA TreeRemove ==
  ASSUME NEW F, NEW p, Tree(F), \A q \in F : <<p, q>> \notin Holds
  PROVE  Tree(F \ {p})
BY DEF Tree

(* A list whose first at - 1 paths are gone is removable at its next one.  *)
LEMMA InOrder ==
  ASSUME ConfigInv
  PROVE  RemovalInOrder
<1> SUFFICES ASSUME pc = "teardown", at <= 6, NEW q \in fs, <<pathsToRemove[at], q>> \in Holds
             PROVE  FALSE
  BY RemovedAre DEF RemovalInOrder, Removable
<1>1. /\ at \in 1 .. 6
      /\ \A i \in 1 .. at - 1 : pathsToRemove[i] # q
  BY RemovedAre, StepsAre DEF ConfigInv
<1>2. at = 1 \/ at = 2 \/ at = 3 \/ at = 4 \/ at = 5 \/ at = 6
  BY <1>1
<1>3. CASE at = 1
  BY <1>3, RemovedAre DEF Holds
<1>4. CASE at = 2
  BY <1>4, <1>1, RemovedAre DEF Holds
<1>5. CASE at = 3
  BY <1>5, <1>1, RemovedAre DEF Holds
<1>6. CASE at = 4
  BY <1>6, <1>1, RemovedAre DEF Holds
<1>7. CASE at = 5
  BY <1>7, <1>1, RemovedAre DEF Holds
<1>8. CASE at = 6
  BY <1>8, RemovedAre DEF Holds
<1> QED BY <1>2, <1>3, <1>4, <1>5, <1>6, <1>7, <1>8

(* A list walked to its end leaves nothing.                                *)
LEMMA AllGone ==
  ASSUME ConfigInv, pc = "teardown", at = Len(pathsToRemove) + 1
  PROVE  fs = {}
<1>1. at = 7
  BY RemovedAre
<1>2. \A i \in 1 .. 6 : pathsToRemove[i] \notin fs
  BY <1>1 DEF ConfigInv
<1>3. \A p \in Paths : \E i \in 1 .. 6 : pathsToRemove[i] = p
  BY RemovedAre DEF Paths
<1> QED BY <1>2, <1>3 DEF ConfigInv

-----------------------------------------------------------------------------
(* Directories are made under what is there, and none is made early.       *)
LEMMA MakeDirKept ==
  ASSUME ConfigInv, MakeDir
  PROVE  ConfigInv'
<1>1. /\ at \in 1 .. 9 /\ pc = "create" /\ Tree(fs) /\ fs \subseteq Paths
      /\ \A i \in at .. 9 : Steps[i] \notin fs
  BY StepsAre DEF MakeDir, ConfigInv, Tree
<1>2. (at = 2 /\ Steps[at] = "core") \/ (at = 5 /\ Steps[at] = "wwn")
        \/ (at = 6 /\ Steps[at] = "tpgt") \/ (at = 8 /\ Steps[at] = "lun")
  <2>1. at = 1 \/ at = 2 \/ at = 3 \/ at = 4 \/ at = 5 \/ at = 6 \/ at = 7 \/ at = 8 \/ at = 9
    BY <1>1
  <2> QED BY <2>1, StepsAre DEF MakeDir
<1>3. at' = at + 1 /\ pc' = pc /\ UNCHANGED <<pending, served, goal>>
  BY <1>2, StepsAre DEF MakeDir, Advance
<1>4. /\ fs' \subseteq Paths /\ Tree(fs') /\ fs \subseteq fs'
      /\ "node" \notin fs'
      /\ \A i \in at + 1 .. 9 : Steps[i] \notin fs'
  <2>1. CASE at = 2 /\ Steps[at] = "core"
    <3>1. fs' = fs \cup {"core"}
      BY <2>1 DEF MakeDir, Above
    <3>2. \A i \in 3 .. 9 : Steps[i] # "core"
      BY StepsAre
    <3> QED BY <1>1, <2>1, <3>1, <3>2 DEF Paths, Tree, Holds, ConfigInv
  <2>2. CASE at = 5 /\ Steps[at] = "wwn"
    <3>1. fs' = fs \cup {"wwn"}
      BY <2>2 DEF MakeDir, Above
    <3>2. \A i \in 6 .. 9 : Steps[i] # "wwn"
      BY StepsAre
    <3> QED BY <1>1, <2>2, <3>1, <3>2 DEF Paths, Tree, Holds, ConfigInv
  <2>3. CASE at = 6 /\ Steps[at] = "tpgt"
    <3>1. fs' = fs \cup {"tpgt", "wwn"}
      BY <2>3 DEF MakeDir, Above
    <3>2. \A i \in 7 .. 9 : Steps[i] \notin {"tpgt", "wwn"}
      BY StepsAre
    <3> QED BY <1>1, <2>3, <3>1, <3>2 DEF Paths, Tree, Holds, ConfigInv
  <2>4. CASE at = 8 /\ Steps[at] = "lun"
    <3>1. fs' = fs \cup {"lun", "tpgt", "wwn"}
      BY <2>4 DEF MakeDir, Above
    <3>2. \A i \in 9 .. 9 : Steps[i] \notin {"lun", "tpgt", "wwn"}
      BY StepsAre
    <3> QED BY <1>1, <2>4, <3>1, <3>2 DEF Paths, Tree, Holds, ConfigInv
  <2> QED BY <1>2, <2>1, <2>2, <2>3, <2>4
<1> QED BY <1>1, <1>2, <1>3, <1>4, StepsAre DEF ConfigInv, Tree

LEMMA SymlinkKept ==
  ASSUME ConfigInv, Symlink
  PROVE  ConfigInv'
<1>1. at = 9
  <2>1. at = 1 \/ at = 2 \/ at = 3 \/ at = 4 \/ at = 5 \/ at = 6 \/ at = 7 \/ at = 8 \/ at = 9
    BY StepsAre DEF ConfigInv
  <2> QED BY <2>1, StepsAre DEF Symlink
<1>2. at' = 1 /\ pc' = "open" /\ fs' = fs \cup {"link"} /\ UNCHANGED <<pending, served, goal>>
  BY <1>1, StepsAre DEF Symlink, Advance
<1>3. Tree(fs')
  BY <1>2 DEF Symlink, Tree, Holds, ConfigInv
<1>4. fs' \subseteq Paths
  BY <1>2 DEF ConfigInv, Paths
<1> QED BY <1>2, <1>3, <1>4, StepsAre DEF ConfigInv, Tree

(* The other steps of creation make nothing.                               *)
LEMMA BuildKept ==
  ASSUME ConfigInv, Write \/ Start
  PROVE  ConfigInv'
<1>1. at \in 1 .. 9 /\ at # 9
  BY StepsAre DEF ConfigInv, Write, Start
<1>2. at' = at + 1 /\ pc = "create" /\ pc' = "create" /\ UNCHANGED <<fs, pending, goal>>
  BY <1>1, StepsAre DEF Write, Start, Advance, ConfigInv
<1>3. served \in BOOLEAN /\ (served => "core" \in fs)
  BY DEF ConfigInv
<1>4. served' \in BOOLEAN
  BY <1>3, Zenon DEF Write, Start
<1>5. served' => "core" \in fs
  BY <1>3, Zenon DEF Write, Start
<1> QED BY <1>1, <1>2, <1>4, <1>5, StepsAre DEF ConfigInv

LEMMA ConfigInitial == Init => ConfigInv
<1> SUFFICES ASSUME Init PROVE ConfigInv
  OBVIOUS
<1>1. served \in BOOLEAN /\ ~served
  BY Zenon DEF Init
<1> QED BY <1>1, StepsAre DEF Init, ConfigInv

LEMMA ConfigStep == ConfigInv /\ [Next]_vars => ConfigInv'
<1> SUFFICES ASSUME ConfigInv, [Next]_vars PROVE ConfigInv'
  OBVIOUS
<1>1. CASE CallCreate
  BY <1>1, StepsAre, RemovedAre DEF CallCreate, GoOn, ConfigInv
<1>2. CASE MakeDir \/ Symlink
  BY <1>2, MakeDirKept, SymlinkKept
<1>3. CASE Write \/ Start
  BY <1>3, BuildKept
<1>4. CASE CreateFails
  <2>1. Tree(fs') /\ fs' \subseteq Paths /\ fs \subseteq fs'
    BY <1>4 DEF CreateFails, ConfigInv, Tree, Holds, Paths
  <2> QED BY <1>4, <2>1, StepsAre DEF CreateFails, GoOn, ConfigInv, Tree
<1>5. CASE Mknod
  <2>1. Tree(fs') /\ fs' \subseteq Paths /\ fs \subseteq fs'
    BY <1>5 DEF Mknod, ConfigInv, Tree, Holds, Paths
  <2> QED BY <1>5, <2>1, StepsAre DEF Mknod, ConfigInv, Tree
<1>6. CASE CallClose
  <2>1. /\ fs' \subseteq fs /\ pending' \subseteq Paths
        /\ "core" \in fs => "core" \in fs'
    BY <1>6 DEF CallClose, ConfigInv, Paths
  <2>2. Tree(fs')
    BY <1>6, TreeRemove DEF CallClose, ConfigInv, Holds, Tree
  <2> QED BY <1>6, <2>1, <2>2, StepsAre, RemovedAre DEF CallClose, GoOn, ConfigInv, Tree
<1>7. CASE Remove
  <2> DEFINE p == pathsToRemove[at]
  <2>1. Tree(fs \ {p})
    BY <1>7, TreeRemove DEF Remove, Removable, ConfigInv, Tree
  <2>2. /\ at \in 1 .. 6 /\ at' = at + 1 /\ fs' = fs \ {p} /\ pc = "teardown"
        /\ UNCHANGED <<pending, pc, goal>>
    BY <1>7, StepsAre, RemovedAre DEF Remove, Removed, ConfigInv
  <2>4. served' \in BOOLEAN /\ (served' => served /\ p # "core")
    BY <1>7, Zenon DEF Remove, Removed
  <2>3. \A i \in 1 .. at' - 1 : pathsToRemove[i] \notin fs'
    BY <2>2 DEF ConfigInv
  <2> QED BY <2>1, <2>2, <2>3, <2>4, StepsAre, RemovedAre DEF ConfigInv, Tree
<1>8. CASE RemoveFails \/ RemoveTimeout
  <2>1. pathsToRemove[at] \in Paths
    BY <1>8, ToRemove, StepsAre, RemovedAre DEF RemoveFails, RemoveTimeout, ConfigInv
  <2> QED BY <1>8, <2>1, StepsAre DEF RemoveFails, RemoveTimeout, GoOn, ConfigInv
<1>9. CASE TornDown
  <2>1. fs = {}
    BY <1>9, AllGone DEF TornDown
  <2> QED BY <1>9, <2>1, StepsAre DEF TornDown, GoOn, ConfigInv
<1>10. ASSUME NEW p \in Paths, LateRemove(p) PROVE ConfigInv'
  <2>1. pending' \subseteq pending /\ UNCHANGED <<pc, at, goal>>
    BY <1>10 DEF LateRemove
  <2>2. CASE UNCHANGED <<fs, served>>
    BY <2>1, <2>2 DEF ConfigInv
  <2>3. CASE Removable(p) /\ Removed(p)
    <3>1. fs' = fs \ {p} /\ Tree(fs')
      BY <2>3, TreeRemove DEF Removable, Removed, ConfigInv, Tree
    <3>2. served' \in BOOLEAN /\ (served' => served /\ p # "core")
      BY <2>3, Zenon DEF Removed
    <3> QED BY <2>1, <3>1, <3>2 DEF ConfigInv, Tree
  <2> QED BY <1>10, <2>2, <2>3 DEF LateRemove
<1>11. CASE Crash
  <2>1. served' \in BOOLEAN /\ ~served'
    BY <1>11, Zenon DEF Crash
  <2> QED BY <1>11, <2>1, StepsAre DEF Crash, GoOn, ConfigInv
<1>12. CASE UNCHANGED vars
  BY <1>12 DEF vars, ConfigInv
<1> QED BY <1>1, <1>2, <1>3, <1>4, <1>5, <1>6, <1>7, <1>8, <1>9, <1>10, <1>11, <1>12
        DEF Next, Create, Teardown

(* ConfigInv: whatever fails, outlasts its time or dies, the tree is whole *)
(* below and teardown and creation know what is not there.                 *)
THEOREM ConfigCorrect == Spec => []ConfigInv
BY ConfigInitial, ConfigStep, PTL DEF Spec

-----------------------------------------------------------------------------
(* CleanSlate: every creation starts from nothing, a Close that returned   *)
(* nil left nothing.                                                       *)
THEOREM CleanStart == Spec => []CleanSlate
<1>1. ConfigInv => CleanSlate
  <2> SUFFICES ASSUME ConfigInv, pc = "create", at = 1 PROVE fs = {} /\ ~served
    BY DEF ConfigInv, CleanSlate
  <2>1. \A i \in 1 .. 9 : Steps[i] \notin fs
    BY StepsAre DEF ConfigInv
  <2>2. fs = {}
    BY <2>1, StepsAre DEF ConfigInv, Paths
  <2> QED BY <2>2 DEF ConfigInv
<1> QED BY <1>1, ConfigCorrect, PTL

(* RemovalInOrder: no removal is refused for its place in the order, from  *)
(* whatever an earlier teardown, creation or process left.                 *)
THEOREM RemovalsOrdered == Spec => []RemovalInOrder
BY InOrder, ConfigCorrect, PTL

(* NoStaleNode: a LUN is never exported beside the node of another disk.   *)
THEOREM NodeFresh == Spec => NoStaleNode
<1>1. ConfigInv /\ [Next]_vars => [("link" \notin fs /\ "link" \in fs') => "node" \notin fs]_vars
  <2> SUFFICES ASSUME ConfigInv, Next, "link" \notin fs, "link" \in fs'
               PROVE  "node" \notin fs
    BY DEF NoStaleNode
  <2>1. MakeDir \/ Symlink
    BY DEF Next, Create, Teardown, CallCreate, Write, Start, CreateFails, Mknod, CallClose, Remove,
       Removed, RemoveFails, RemoveTimeout, TornDown, LateRemove, Crash
  <2> QED BY <2>1 DEF MakeDir, Symlink, ConfigInv
<1> QED BY <1>1, ConfigCorrect, PTL DEF Spec, NoStaleNode

(* Past its start, creation has a loop for the core directory there is.   *)
ServedInv == pc = "create" /\ at > 4 /\ "core" \in fs => served

LEMMA ServedStep ==
  ASSUME ~UioMayBeMissing, ConfigInv, ServedInv, [Next]_vars
  PROVE  ServedInv'
<1>1. CASE CallCreate \/ CreateFails \/ Mknod \/ CallClose \/ RemoveFails \/ RemoveTimeout \/ Remove
  BY <1>1 DEF CallCreate, CreateFails, Mknod, CallClose, RemoveFails, RemoveTimeout, Remove, GoOn,
     ServedInv
<1>2. CASE MakeDir \/ Symlink \/ Write
  <2>1. /\ Steps[at] # "start" /\ pc = "create" /\ UNCHANGED served /\ Advance
        /\ "core" \in fs' => "core" \in fs \/ Steps[at] = "core"
    BY <1>2 DEF MakeDir, Above, Symlink, Write
  <2>2. at \in 1 .. 9 /\ at # 4
    BY <2>1, StepsAre DEF ConfigInv
  <2>3. Steps[at] = "core" => at = 2
    <3>1. at = 1 \/ at = 2 \/ at = 3 \/ at = 5 \/ at = 6 \/ at = 7 \/ at = 8 \/ at = 9
      BY <2>2
    <3> QED BY <3>1, StepsAre
  <2>4. pc' = "create" => at' = at + 1
    BY <2>1, StepsAre DEF Advance
  <2>5. ASSUME pc' = "create", at' > 4, "core" \in fs' PROVE served
    BY <2>1, <2>2, <2>3, <2>4, <2>5 DEF ServedInv
  <2> QED BY <2>1, <2>5 DEF ServedInv
<1>3. CASE Start
  <2>1. "core" \in fs => served'
    BY <1>3, Zenon DEF Start
  <2> QED BY <1>3, <2>1 DEF Start, ServedInv
<1>4. CASE TornDown \/ Crash
  BY <1>4 DEF TornDown, Crash, GoOn, ServedInv
<1>5. ASSUME NEW p \in Paths, LateRemove(p) PROVE ServedInv'
  <2>1. CASE UNCHANGED <<fs, served>>
    BY <1>5, <2>1 DEF LateRemove, ServedInv
  <2>2. CASE Removed(p)
    <3>1. fs' = fs \ {p}
      BY <2>2 DEF Removed
    <3>2. served /\ p # "core" => served'
      BY <2>2, Zenon DEF Removed
    <3> QED BY <1>5, <3>1, <3>2 DEF LateRemove, ServedInv
  <2> QED BY <1>5, <2>1, <2>2 DEF LateRemove
<1>6. CASE UNCHANGED vars
  BY <1>6 DEF vars, ServedInv
<1> QED BY <1>1, <1>2, <1>3, <1>4, <1>5, <1>6 DEF Next, Create, Teardown

(* Taking away a path that may go takes Export one step or none.           *)
LEMMA RemovedMaps ==
  ASSUME NEW p, Removable(p), Removed(p)
  PROVE  [Exported!Next]_Disk
<1>1. fs' = fs \ {p} /\ (p = "core" => "link" \notin fs)
  BY DEF Removed, Removable, Holds
<1>2. served' <=> (served /\ p # "core")
  BY Zenon DEF Removed
<1> QED BY <1>1, <1>2 DEF Disk, Exported!Next, Exported!Hide, Exported!End, Exported!Clear

LEMMA ExportStep ==
  ASSUME ConfigInv, ServedInv, [Next]_vars
  PROVE  [Exported!Next]_Disk
<1>1. ASSUME "link" \in fs' <=> "link" \in fs, UNCHANGED served
      PROVE  UNCHANGED Disk
  BY <1>1 DEF Disk
<1>2. CASE CallCreate \/ MakeDir \/ Write \/ CreateFails \/ Mknod \/ CallClose \/ RemoveFails
             \/ RemoveTimeout \/ TornDown
  BY <1>1, <1>2 DEF CallCreate, MakeDir, Above, Write, CreateFails, Mknod, CallClose, RemoveFails,
     RemoveTimeout, TornDown
<1>3. CASE Symlink
  <2>1. /\ at \in 1 .. 9 /\ Steps[at] = "link" /\ pc = "create" /\ "core" \in fs
        /\ fs' = fs \cup {"link"} /\ UNCHANGED served
    BY <1>3, StepsAre DEF Symlink, ConfigInv
  <2>2. at = 9
    <3>1. at = 1 \/ at = 2 \/ at = 3 \/ at = 4 \/ at = 5 \/ at = 6 \/ at = 7 \/ at = 8 \/ at = 9
      BY <2>1
    <3> QED BY <2>1, <3>1, StepsAre
  <2>3. "link" \notin fs /\ served
    BY <2>1, <2>2, StepsAre DEF ConfigInv, ServedInv
  <2> QED BY <2>1, <2>3 DEF Disk, Exported!Next, Exported!Expose
<1>4. CASE Start
  <2>1. fs' = fs /\ "link" \notin fs
    BY <1>4, StepsAre DEF Start, ConfigInv
  <2>2. served => served'
    BY <1>4, Zenon DEF Start
  <2> QED BY <2>1, <2>2 DEF Disk, Exported!Next, Exported!Serve
<1>5. CASE Remove
  BY <1>5, RemovedMaps DEF Remove
<1>6. ASSUME NEW p \in Paths, LateRemove(p) PROVE [Exported!Next]_Disk
  BY <1>1, <1>6, RemovedMaps DEF LateRemove
<1>7. CASE Crash
  <2>1. ~served' /\ fs' = fs
    BY <1>7, Zenon DEF Crash
  <2> QED BY <2>1 DEF Disk, Exported!Next, Exported!Crash, Exported!End
<1>8. CASE UNCHANGED vars
  BY <1>1, <1>8 DEF vars
<1> QED BY <1>2, <1>3, <1>4, <1>5, <1>6, <1>7, <1>8 DEF Next, Create, Teardown

(* ExportSpec: if findDevice finds the uio device the kernel made, a LUN   *)
(* is exported only while a loop serves it, until the process dies.        *)
THEOREM ExportRefined ==
  ASSUME ~UioMayBeMissing
  PROVE  Spec => ExportSpec
<1>1. Init => Exported!Init /\ ServedInv
  <2> SUFFICES ASSUME Init PROVE Exported!Init /\ ServedInv
    OBVIOUS
  <2>1. ~served
    BY Zenon DEF Init
  <2> QED BY <2>1 DEF Init, Exported!Init, Disk, ServedInv
<1>2. ConfigInv /\ ServedInv /\ [Next]_vars => ServedInv' /\ [Exported!Next]_Disk
  BY ServedStep, ExportStep
<1> QED BY <1>1, <1>2, ConfigCorrect, PTL DEF Spec, ExportSpec, Exported!Spec
=============================================================================
