---------------------------- MODULE DeviceConfig ----------------------------
(***************************************************************************)
(* The configfs tree and the device node of one volume, built by           *)
(* newVirtBlockDevice and taken down by Close.  The tree outlives the      *)
(* process: any step may fail, any removal may outlast its 30 seconds and  *)
(* take effect later, the process may die between any two steps, and the   *)
(* next creation starts from what is there.  What the kernel allows to be  *)
(* removed is external.                                                    *)
(***************************************************************************)
EXTENDS Naturals, Sequences

CONSTANT UioMayBeMissing  \* TRUE: findDevice may find no uio device

ASSUME ConfigAssumption == UioMayBeMissing \in BOOLEAN

VARIABLES
  fs,      \* the paths that exist
  pending, \* paths whose removal timed out: removeAsync is still at it
  served,  \* a loop polls the uio device of the core directory there is
  pc,      \* what the library is doing with the volume
  at,      \* its place in Steps or in pathsToRemove
  goal     \* who called teardown: "create" or "close"

vars == <<fs, pending, served, pc, at, goal>>

(* user_42/<volume>, naa.<id>, naa.<id>/tpgt_1, tpgt_1/lun/lun_0, the      *)
(* symbolic link in it, and the device node under devPath.                 *)
Paths == {"core", "wwn", "tpgt", "lun", "link", "node"}

(* Directories that must be there for a path and cannot go before it.      *)
Holds == {<<"lun", "link">>, <<"core", "link">>, <<"tpgt", "lun">>, <<"wwn", "tpgt">>}

Removable(p) == \A q \in fs : <<p, q>> \notin Holds

(* Wrong: the LUN is exported before the loop is started.                  *)
StepsExportFirst ==
  <<"pipe", "core", "configure", "wwn", "tpgt", "nexus", "lun", "link", "start">>

(* What newVirtBlockDevice does after its Close, in order.                 *)
Steps == <<"pipe", "core", "configure", "start", "wwn", "tpgt", "nexus", "lun", "link">>

(* Wrong: the core directory goes before the link to it.                   *)
pathsToRemoveCoreFirst == <<"core", "link", "lun", "tpgt", "wwn", "node">>

(* Wrong: the node is left to the kernel.                                  *)
pathsToRemoveNoNode == <<"link", "lun", "tpgt", "wwn", "core">>

(* What teardown removes, in order.                                        *)
pathsToRemove == <<"link", "lun", "tpgt", "wwn", "core", "node">>

(* A volume that another process may have left in any state.               *)
Init ==
  /\ fs \in {F \in SUBSET Paths : \A p \in F : \A q \in Paths : <<q, p>> \in Holds => q \in F}
  /\ pending = {}
  /\ served = FALSE
  /\ pc = "idle"
  /\ at = 1
  /\ goal = "create"

-----------------------------------------------------------------------------
(* newVirtBlockDevice                                                      *)

GoOn(p) ==
  /\ pc' = p
  /\ at' = 1

(* It first calls Close on the new object; nothing keeps a caller from     *)
(* creating a volume that is open.                                         *)
CallCreate ==
  /\ pc \in {"idle", "open", "closed"}
  /\ GoOn("teardown")
  /\ goal' = "create"
  /\ UNCHANGED <<fs, pending, served>>

Advance ==
  /\ at' = IF at = Len(Steps) THEN 1 ELSE at + 1
  /\ pc' = IF at = Len(Steps) THEN "open" ELSE pc

(* os.MkdirAll makes the directories above that are missing too.           *)
Above(p) ==
  CASE p = "lun"  -> {"tpgt", "wwn"}
    [] p = "tpgt" -> {"wwn"}
    [] OTHER      -> {}

MakeDir ==
  /\ pc = "create"
  /\ Steps[at] \in {"core", "wwn", "tpgt", "lun"}
  /\ fs' = fs \cup {Steps[at]} \cup Above(Steps[at])
  /\ Advance
  /\ UNCHANGED <<pending, served, goal>>

(* os.Symlink, in the directory of the LUN, to the core directory          *)
Symlink ==
  /\ pc = "create"
  /\ Steps[at] = "link"
  /\ {"lun", "core"} \subseteq fs
  /\ fs' = fs \cup {"link"}
  /\ Advance
  /\ UNCHANGED <<pending, served, goal>>

(* unix.Pipe and the attributes written to control, enable and nexus       *)
Write ==
  /\ pc = "create"
  /\ Steps[at] \in {"pipe", "configure", "nexus"}
  /\ Advance
  /\ UNCHANGED <<fs, pending, served, goal>>

(* findDevice opens and maps the uio device, startPoll begins.  Without    *)
(* one findDevice returns nil too, and the loop polls the pipe alone.      *)
Start ==
  /\ pc = "create"
  /\ Steps[at] = "start"
  /\ \/ "core" \in fs /\ served' = TRUE
     \/ (UioMayBeMissing \/ "core" \notin fs) /\ UNCHANGED served
  /\ Advance
  /\ UNCHANGED <<fs, pending, goal>>

(* Any step may return an error; the object is dropped, what was made and  *)
(* a loop that was started stay.  writeLines makes the core directory      *)
(* again if it has gone before the attributes are written.                 *)
CreateFails ==
  /\ pc = "create"
  /\ \/ UNCHANGED fs
     \/ Steps[at] = "configure" /\ fs' = fs \cup {"core"}
  /\ GoOn("idle")
  /\ UNCHANGED <<pending, served, goal>>

-----------------------------------------------------------------------------
(* GenerateDevice: CreateDeviceComplete makes the node of an open device.  *)
Mknod ==
  /\ pc = "open"
  /\ "node" \notin fs
  /\ fs' = fs \cup {"node"}
  /\ UNCHANGED <<pending, served, pc, at, goal>>

-----------------------------------------------------------------------------
(* Close, and RemoveDevice, which removes the node first and ignores       *)
(* whether it could.                                                       *)
CallClose ==
  /\ pc = "open"
  /\ \/ UNCHANGED <<fs, pending>>
     \/ fs' = fs \ {"node"} /\ UNCHANGED pending
     \/ pending' = pending \cup {"node"} /\ UNCHANGED fs
  /\ GoOn("teardown")
  /\ goal' = "close"
  /\ UNCHANGED served

(* Losing the core directory destroys the uio device.                      *)
Removed(p) ==
  /\ fs' = fs \ {p}
  /\ served' = (served /\ p # "core")

(* remove; a path that is not there counts as removed.                     *)
Remove ==
  /\ pc = "teardown"
  /\ at <= Len(pathsToRemove)
  /\ Removable(pathsToRemove[at])
  /\ Removed(pathsToRemove[at])
  /\ at' = at + 1
  /\ UNCHANGED <<pending, pc, goal>>

(* Wrong: as remove1, which logs the error and returns nil.                *)
RemoveFailsLogged ==
  /\ pc = "teardown"
  /\ at <= Len(pathsToRemove)
  /\ at' = at + 1
  /\ UNCHANGED <<fs, pending, served, pc, goal>>

(* The first error ends teardown and its caller.                           *)
RemoveFails ==
  /\ pc = "teardown"
  /\ at <= Len(pathsToRemove)
  /\ GoOn(IF goal = "create" THEN "idle" ELSE "open")
  /\ UNCHANGED <<fs, pending, served, goal>>

(* Wrong: after 30 s the path is taken for removed.                        *)
RemoveTimeoutPassed ==
  /\ pc = "teardown"
  /\ at <= Len(pathsToRemove)
  /\ pending' = pending \cup {pathsToRemove[at]}
  /\ at' = at + 1
  /\ UNCHANGED <<fs, served, pc, goal>>

RemoveTimeout ==
  /\ pc = "teardown"
  /\ at <= Len(pathsToRemove)
  /\ pending' = pending \cup {pathsToRemove[at]}
  /\ GoOn(IF goal = "create" THEN "idle" ELSE "open")
  /\ UNCHANGED <<fs, served, goal>>

(* Nothing cancels the removal or waits for it, and there may be several   *)
(* of one path.                                                            *)
LateRemove(p) ==
  /\ p \in pending
  /\ \/ Removable(p) /\ Removed(p)
     \/ UNCHANGED <<fs, served>>
  /\ pending' \in {pending, pending \ {p}}
  /\ UNCHANGED <<pc, at, goal>>

(* teardown returned nil: newVirtBlockDevice begins to build; Close goes   *)
(* on as in VbdClose.                                                      *)
TornDown ==
  /\ pc = "teardown"
  /\ at = Len(pathsToRemove) + 1
  /\ GoOn(IF goal = "create" THEN "create" ELSE "closed")
  /\ UNCHANGED <<fs, pending, served, goal>>

-----------------------------------------------------------------------------
(* The process dies and is started again; the tree stays, and so do        *)
(* removals the kernel is at.                                              *)
Crash ==
  /\ GoOn("idle")
  /\ served' = FALSE
  /\ UNCHANGED <<fs, pending, goal>>

Create == CallCreate \/ MakeDir \/ Symlink \/ Write \/ Start \/ CreateFails

Teardown == Remove \/ RemoveFails \/ RemoveTimeout \/ TornDown

Next ==
  \/ Create
  \/ Mknod
  \/ CallClose
  \/ Teardown
  \/ \E p \in Paths : LateRemove(p)
  \/ Crash

Spec == Init /\ [][Next]_vars

-----------------------------------------------------------------------------
(* Every creation starts from nothing, and a Close that returned nil left  *)
(* nothing behind, whatever failed, timed out or died before               *)
(* (block_device.go:111, :135-139).                                        *)
CleanSlate == (pc = "create" /\ at = 1) \/ pc = "closed" => fs = {} /\ ~served

(* The order of pathsToRemove is one the kernel accepts from every state   *)
(* the tree can be left in: teardown never fails on a directory that is    *)
(* not empty or still linked to (block_device.go:380-393).                 *)
RemovalInOrder ==
  pc = "teardown" /\ at <= Len(pathsToRemove) => Removable(pathsToRemove[at])

(* No LUN is exported under a node that an earlier device left: its        *)
(* numbers would be another disk's (block_device.go:396-401, :230-236).    *)
NoStaleNode == [][("link" \notin fs /\ "link" \in fs') => "node" \notin fs]_vars

(* The tree and the loop together keep what Export promises.               *)
Disk ==
  IF "link" \in fs
  THEN IF served THEN "exported" ELSE "orphan"
  ELSE IF served THEN "served" ELSE "absent"

Exported == INSTANCE Export WITH disk <- Disk
ExportSpec == Exported!Spec

(* The tree is always one the kernel can hold, the loop has its device,    *)
(* and the library knows of what it has not made yet or has removed that   *)
(* it is not there.                                                        *)
ConfigInv ==
  /\ fs \subseteq Paths /\ pending \subseteq Paths
  /\ served \in BOOLEAN
  /\ pc \in {"idle", "open", "closed", "teardown", "create"}
  /\ goal \in {"create", "close"}
  /\ at \in 1 .. Len(Steps)
  /\ pc = "teardown" => at <= Len(pathsToRemove) + 1
  /\ \A p \in fs : \A q \in Paths : <<q, p>> \in Holds => q \in fs
  /\ served => "core" \in fs
  /\ pc = "teardown" => \A i \in 1 .. at - 1 : pathsToRemove[i] \notin fs
  /\ pc = "create" => "node" \notin fs /\ \A i \in at .. Len(Steps) : Steps[i] \notin fs
  /\ pc = "closed" => fs = {}
=============================================================================
