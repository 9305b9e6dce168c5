-------------------------------- MODULE HBA --------------------------------
(***************************************************************************)
(* Creation and removal of devices, hba.go.  CreateDevice takes the mutex  *)
(* and starts a goroutine, CreateDeviceComplete, that waits for the udev   *)
(* event of the new device, gives the device its number, RELEASES the      *)
(* mutex, registers the device and reports to CreateDevice over an         *)
(* unbuffered channel.  A third goroutine, monitorDeviceEvent, relays udev *)
(* events into the channel devEvent.                                       *)
(*                                                                         *)
(* One call of CreateDevice is one element of Calls and stands also for    *)
(* the device it creates. Its name is a volume, under which the map and    *)
(* configfs know it, and several calls may ask for the same. The kernel    *)
(* gives a disk the name and the number of one that is gone: a udev event  *)
(* says which number was added, and nothing about whose disk it was.       *)
(***************************************************************************)
EXTENDS Naturals, Sequences, FiniteSets

CONSTANTS
  Calls,      \* calls of CreateDevice
  Others,     \* TCMU disks other programs make beside this HBA
  Volumes,    \* names of devices
  Numbers,    \* names and numbers the kernel has for disks
  None,       \* nil
  EventCap,   \* capacity of devEvent
  MayTimeout  \* TRUE: CREATE_TIMEOUT may pass while a creation is under way

Disks == Calls \cup Others

ASSUME HBAAssumption ==
  /\ None \notin Calls \cup Volumes \cup Numbers
  /\ Calls \cap Others = {}
  /\ EventCap \in Nat \ {0}
  /\ MayTimeout \in BOOLEAN

VARIABLES
  locked,          \* the mutex of the HBA
  vbdInitializing, \* the device the completer is to give a number to
  create,          \* where each CreateDevice is
  name,            \* of each call, the name it was given
  complete,        \* where each CreateDeviceComplete is
  held,            \* the event a completer is working on
  result,          \* what a completer sends on the channel completion
  number,          \* device number set by SetDeviceNumber
  vbds,            \* the map of registered devices
  opened,          \* devices whose uio device is open and polled
  present,         \* kernel: disks there are
  disk,            \* kernel: the number it gave to each disk
  udev,            \* kernel: "add" events not yet received by the monitor
  devEvent,        \* the channel devEvent
  relay,           \* the event the monitor is sending
  monitor,         \* where monitorDeviceEvent is
  removing,        \* the device RemoveDevice is closing
  closed,          \* RemoveDevice has closed it
  stop,            \* where Stop is
  toRemove,        \* names Stop has still to look at
  crashed,         \* nil was dereferenced: the process is gone
  forgotten,       \* history: devices dropped while perhaps still open
  overlapped       \* history: two calls of the HBA were in progress at once

createVars == <<locked, vbdInitializing, create, name>>
completeVars == <<complete, held, result, number>>
mapVars == <<vbds, opened, forgotten>>
kernelVars == <<present, disk, udev>>
eventVars == <<devEvent, relay, monitor>>
removeVars == <<removing, closed, stop, toRemove>>
vars == <<createVars, completeVars, mapVars, kernelVars, eventVars, removeVars,
          crashed, overlapped>>

CreatePcs == {"idle", "lock", "new", "start", "enable", "set", "wait", "close", "clear",
              "ok", "failed", "refused"}
CompletePcs == {"idle", "select", "retry", "number", "mknod", "register", "send", "end", "gone"}
Results == {"SUCCESS", "ERROR", "TIMEOUT"}

Returned == {"ok", "failed", "refused"}
Outside == {"idle"} \cup Returned

Init ==
  /\ locked = FALSE
  /\ vbdInitializing = None
  /\ create = [c \in Calls |-> "idle"]
  /\ name = [c \in Calls |-> None]
  /\ complete = [c \in Calls |-> "idle"]
  /\ held = [c \in Calls |-> None]
  /\ result = [c \in Calls |-> "SUCCESS"]
  /\ number = [c \in Calls |-> None]
  /\ vbds = [v \in Volumes |-> None]
  /\ opened = {}
  /\ forgotten = {}
  /\ present = {}
  /\ disk = [d \in Disks |-> None]
  /\ udev = <<>>
  /\ devEvent = <<>>
  /\ relay = None
  /\ monitor = "run"
  /\ removing = None
  /\ closed = FALSE
  /\ stop = "idle"
  /\ toRemove = {}
  /\ crashed = FALSE
  /\ overlapped = FALSE

(* No call of the HBA is in progress.                                      *)
Quiet ==
  /\ \A c \in Calls : create[c] \in Outside
  /\ removing = None
  /\ stop # "range"

(* A call of the HBA begins.                                               *)
Begin == overlapped' = (overlapped \/ ~Quiet)

-----------------------------------------------------------------------------
(* The kernel (external)                                                   *)

(* A new disk gets a number that is free and is announced.                 *)
AddDisk(d) ==
  \E n \in Numbers :
    /\ \A e \in present : disk[e] # n
    /\ disk' = [disk EXCEPT ![d] = n]
    /\ present' = present \cup {d}
    /\ udev' = Append(udev, n)

(* The disk exported from the configfs tree of a volume, whose it may be.  *)
DisksOf(v) == {c \in Calls : name[c] = v}

(* IsTcmuDevice looks for the model name of the disk that has the number   *)
(* now.                                                                    *)
IsTcmuDevice(n) == \E d \in present : disk[d] = n

OtherComes(o) ==
  /\ disk[o] = None
  /\ AddDisk(o)
  /\ UNCHANGED <<createVars, completeVars, mapVars, eventVars, removeVars, crashed, overlapped>>

OtherGoes(o) ==
  /\ o \in present
  /\ present' = present \ {o}
  /\ UNCHANGED <<createVars, completeVars, mapVars, disk, udev, eventVars, removeVars,
                 crashed, overlapped>>

-----------------------------------------------------------------------------
(* CreateDevice                                                            *)

Call(c, v) ==
  /\ create[c] = "idle"
  /\ create' = [create EXCEPT ![c] = "lock"]
  /\ name' = [name EXCEPT ![c] = v]
  /\ Begin
  /\ UNCHANGED <<locked, vbdInitializing, completeVars, mapVars, kernelVars, eventVars,
                 removeVars, crashed>>

(* "other vbd initializing, try again": the mutex stays locked.            *)
Refuse(c) ==
  /\ create[c] = "lock"
  /\ ~locked
  /\ vbdInitializing # None
  /\ locked' = TRUE
  /\ create' = [create EXCEPT ![c] = "refused"]
  /\ UNCHANGED <<vbdInitializing, name, completeVars, mapVars, kernelVars, eventVars,
                 removeVars, crashed, overlapped>>

(* Wrong: another device being initialized is not looked for.              *)
AcquireAnyway(c) ==
  /\ create[c] = "lock"
  /\ ~locked
  /\ locked' = TRUE
  /\ create' = [create EXCEPT ![c] = "new"]
  /\ complete' = [complete EXCEPT ![c] = "select"]
  /\ UNCHANGED <<vbdInitializing, name, held, result, number, mapVars, kernelVars,
                 eventVars, removeVars, crashed, overlapped>>

(* Wrong: the mutex is not taken.                                          *)
AcquireNoLock(c) ==
  /\ create[c] = "lock"
  /\ ~locked
  /\ vbdInitializing = None
  /\ create' = [create EXCEPT ![c] = "new"]
  /\ complete' = [complete EXCEPT ![c] = "select"]
  /\ UNCHANGED <<locked, vbdInitializing, name, held, result, number, mapVars, kernelVars,
                 eventVars, removeVars, crashed, overlapped>>

(* The mutex is taken and the completer started.                           *)
Acquire(c) ==
  /\ create[c] = "lock"
  /\ ~locked
  /\ vbdInitializing = None
  /\ locked' = TRUE
  /\ create' = [create EXCEPT ![c] = "new"]
  /\ complete' = [complete EXCEPT ![c] = "select"]
  /\ UNCHANGED <<vbdInitializing, name, held, result, number, mapVars, kernelVars,
                 eventVars, removeVars, crashed, overlapped>>

(* newVirtBlockDevice begins with a Close of what there is under the name, *)
(* be it a device that is open and in the map.                             *)
Clean(c) ==
  /\ create[c] = "new"
  /\ create' = [create EXCEPT ![c] = "start"]
  /\ present' = present \ DisksOf(name[c])
  /\ UNCHANGED <<locked, vbdInitializing, name, completeVars, mapVars, disk, udev,
                 eventVars, removeVars, crashed, overlapped>>

(* newVirtBlockDevice fails before the uio device is open.  The completer  *)
(* is still waiting and the mutex is its to release.                       *)
NewFails(c) ==
  /\ create[c] \in {"new", "start"}
  /\ create' = [create EXCEPT ![c] = "failed"]
  /\ present' \in {present} \cup (IF create[c] = "new" THEN {present \ DisksOf(name[c])} ELSE {})
  /\ UNCHANGED <<locked, vbdInitializing, name, completeVars, mapVars, disk, udev,
                 eventVars, removeVars, crashed, overlapped>>

(* preEnableTcmu, start                                                    *)
Open(c) ==
  /\ create[c] = "start"
  /\ create' = [create EXCEPT ![c] = "enable"]
  /\ opened' = opened \cup {c}
  /\ UNCHANGED <<locked, vbdInitializing, name, completeVars, vbds, forgotten, kernelVars,
                 eventVars, removeVars, crashed, overlapped>>

(* postEnableTcmu fails: its error is returned and the open device dropped. *)
EnableFails(c) ==
  /\ create[c] = "enable"
  /\ create' = [create EXCEPT ![c] = "failed"]
  /\ forgotten' = forgotten \cup {c}
  /\ UNCHANGED <<locked, vbdInitializing, name, completeVars, vbds, opened, kernelVars,
                 eventVars, removeVars, crashed, overlapped>>

(* postEnableTcmu links the LUN, which a LUN of the same name prevents:    *)
(* the kernel announces the disk, perhaps long before CreateDevice has     *)
(* gone on.                                                                *)
Enable(c) ==
  /\ create[c] = "enable"
  /\ create' = [create EXCEPT ![c] = "set"]
  /\ present \cap DisksOf(name[c]) = {}
  /\ AddDisk(c)
  /\ UNCHANGED <<locked, vbdInitializing, name, completeVars, mapVars, eventVars,
                 removeVars, crashed, overlapped>>

SetInitializing(c) ==
  /\ create[c] = "set"
  /\ create' = [create EXCEPT ![c] = "wait"]
  /\ vbdInitializing' = c
  /\ UNCHANGED <<locked, name, completeVars, mapVars, kernelVars, eventVars, removeVars,
                 crashed, overlapped>>

(* Wrong: success is reported before the device is registered.             *)
ReceiveEarly(c) ==
  /\ create[c] = "wait"
  /\ complete[c] \in {"send", "register"}
  /\ create' = [create EXCEPT ![c] = IF result[c] = "SUCCESS" THEN "clear" ELSE "close"]
  /\ complete' = [complete EXCEPT ![c] = IF @ = "send" THEN "end" ELSE @]
  /\ UNCHANGED <<locked, vbdInitializing, name, held, result, number, mapVars, kernelVars,
                 eventVars, removeVars, crashed, overlapped>>

(* result := <-completion                                                  *)
Receive(c) ==
  /\ create[c] = "wait"
  /\ complete[c] = "send"
  /\ create' = [create EXCEPT ![c] = IF result[c] = "SUCCESS" THEN "clear" ELSE "close"]
  /\ complete' = [complete EXCEPT ![c] = "end"]
  /\ UNCHANGED <<locked, vbdInitializing, name, held, result, number, mapVars, kernelVars,
                 eventVars, removeVars, crashed, overlapped>>

(* VirBlkDev.Close of d. teardown goes by the name and takes any disk of   *)
(* that name away.                                                         *)
CloseDone(d) ==
  /\ opened' = opened \ {d}
  /\ present' = present \ DisksOf(name[d])
  /\ UNCHANGED forgotten

(* teardown stops at the first path it cannot remove, before or after the  *)
(* LUN; the uio device is not closed, and the error not looked at.         *)
CloseFails(d) ==
  /\ opened' = opened
  /\ present' \in {present, present \ DisksOf(name[d])}
  /\ forgotten' = forgotten \cup {d}

Close(d) == CloseDone(d) \/ CloseFails(d)

(* Wrong: a device that got no number is not closed.                       *)
CloseFailedNot(c) ==
  /\ create[c] = "close"
  /\ create' = [create EXCEPT ![c] = "clear"]
  /\ UNCHANGED <<locked, vbdInitializing, name, completeVars, mapVars, kernelVars,
                 eventVars, removeVars, crashed, overlapped>>

CloseFailed(c) ==
  /\ create[c] = "close"
  /\ Close(c)
  /\ create' = [create EXCEPT ![c] = "clear"]
  /\ UNCHANGED <<locked, vbdInitializing, name, completeVars, vbds, disk, udev, eventVars,
                 removeVars, crashed, overlapped>>

Clear(c) ==
  /\ create[c] = "clear"
  /\ vbdInitializing' = None
  /\ create' = [create EXCEPT ![c] = IF result[c] = "SUCCESS" THEN "ok" ELSE "failed"]
  /\ UNCHANGED <<locked, name, completeVars, mapVars, kernelVars, eventVars, removeVars,
                 crashed, overlapped>>

-----------------------------------------------------------------------------
(* CreateDeviceComplete                                                    *)

NextEvent == Head(devEvent)

(* The disk that has the number of the event now need not be the one the   *)
(* event was about, nor one of this HBA.                                   *)
TakeEvent(c) ==
  /\ complete[c] = "select"
  /\ devEvent # <<>> /\ IsTcmuDevice(NextEvent)
  /\ devEvent' = Tail(devEvent)
  /\ held' = [held EXCEPT ![c] = NextEvent]
  /\ complete' = [complete EXCEPT ![c] = "retry"]
  /\ UNCHANGED <<createVars, result, number, mapVars, kernelVars, relay, monitor,
                 removeVars, crashed, overlapped>>

SkipEvent(c) ==
  /\ complete[c] = "select"
  /\ devEvent # <<>> /\ ~IsTcmuDevice(NextEvent)
  /\ devEvent' = Tail(devEvent)
  /\ UNCHANGED <<createVars, completeVars, mapVars, kernelVars, relay, monitor,
                 removeVars, crashed, overlapped>>

(* The "add" event of number n is still on its way to a completer.         *)
Pending(n) ==
  \/ \E i \in DOMAIN udev : udev[i] = n
  \/ relay = n
  \/ \E i \in DOMAIN devEvent : devEvent[i] = n

(* No event is to come: the creation has failed, or the disk was taken     *)
(* away, by another call with its name, before its event was looked at.    *)
Hopeless(c) ==
  \/ create[c] = "failed"
  \/ create[c] = "wait" /\ c \notin present /\ ~Pending(disk[c])

(* The timer fires.  Without MayTimeout it does so only where it must.     *)
TimerFires(c) ==
  /\ complete[c] = "select"
  /\ MayTimeout \/ Hopeless(c)
  /\ complete' = [complete EXCEPT ![c] = "send"]
  /\ result' = [result EXCEPT ![c] = "TIMEOUT"]

(* Wrong: the timeout leaves the mutex locked.                             *)
TimeoutLocked(c) ==
  /\ TimerFires(c)
  /\ UNCHANGED <<createVars, held, number, mapVars, kernelVars, eventVars, removeVars,
                 crashed, overlapped>>

Timeout(c) ==
  /\ TimerFires(c)
  /\ locked' = FALSE
  /\ UNCHANGED <<vbdInitializing, create, name, held, number, mapVars, kernelVars,
                 eventVars, removeVars, crashed, overlapped>>

Look(c) ==
  /\ complete[c] = "retry"
  /\ vbdInitializing # None
  /\ complete' = [complete EXCEPT ![c] = "number"]
  /\ UNCHANGED <<createVars, held, result, number, mapVars, kernelVars, eventVars,
                 removeVars, crashed, overlapped>>

(* After the last of the 300 looks the loop is left: nothing is sent, and  *)
(* the mutex stays locked.                                                 *)
GiveUp(c) ==
  /\ complete[c] = "retry"
  /\ vbdInitializing = None
  /\ complete' = [complete EXCEPT ![c] = "gone"]
  /\ UNCHANGED <<createVars, held, result, number, mapVars, kernelVars, eventVars,
                 removeVars, crashed, overlapped>>

SetNumber(c) ==
  /\ complete[c] = "number"
  /\ vbdInitializing # None
  /\ number' = [number EXCEPT ![vbdInitializing] = held[c]]
  /\ complete' = [complete EXCEPT ![c] = "mknod"]
  /\ UNCHANGED <<createVars, held, result, mapVars, kernelVars, eventVars, removeVars,
                 crashed, overlapped>>

(* GenerateDevice, then Unlock                                             *)
MakeNode(c) ==
  /\ complete[c] = "mknod"
  /\ vbdInitializing # None
  /\ locked' = FALSE
  /\ \/ /\ complete' = [complete EXCEPT ![c] = "register"]
        /\ result' = [result EXCEPT ![c] = "SUCCESS"]
     \/ /\ complete' = [complete EXCEPT ![c] = "send"]
        /\ result' = [result EXCEPT ![c] = "ERROR"]
  /\ UNCHANGED <<vbdInitializing, create, name, held, number, mapVars, kernelVars,
                 eventVars, removeVars, crashed, overlapped>>

(* The map is written under the name, whoever is there.  A Stop that       *)
(* ranges over the map may come by the new entry or not.                   *)
Register(c) ==
  /\ complete[c] = "register"
  /\ vbdInitializing # None
  /\ LET v == name[vbdInitializing] IN
       /\ vbds' = [vbds EXCEPT ![v] = vbdInitializing]
       /\ forgotten' = forgotten \cup ({vbds[v]} \ {None, vbdInitializing})
       /\ toRemove' \in {toRemove} \cup (IF stop = "range" THEN {toRemove \cup {v}} ELSE {})
  /\ complete' = [complete EXCEPT ![c] = "send"]
  /\ UNCHANGED <<createVars, held, result, number, opened, kernelVars, eventVars,
                 removing, closed, stop, crashed, overlapped>>

(* vbdInitializing is read again at each of these steps.                   *)
Panic(c) ==
  /\ complete[c] \in {"number", "mknod", "register"}
  /\ vbdInitializing = None
  /\ crashed' = TRUE
  /\ UNCHANGED <<createVars, completeVars, mapVars, kernelVars, eventVars, removeVars,
                 overlapped>>

-----------------------------------------------------------------------------
(* monitorDeviceEvent                                                      *)

(* Only an event whose number is now that of a TCMU disk is relayed.       *)
Monitor ==
  /\ monitor = "run"
  /\ relay = None
  /\ udev # <<>>
  /\ udev' = Tail(udev)
  /\ relay' = IF IsTcmuDevice(Head(udev)) THEN Head(udev) ELSE None
  /\ UNCHANGED <<createVars, completeVars, mapVars, present, disk, devEvent, monitor,
                 removeVars, crashed, overlapped>>

(* Wrong: the channel has no bound.                                        *)
RelayAlways ==
  /\ relay # None
  /\ devEvent' = Append(devEvent, relay)
  /\ relay' = None
  /\ UNCHANGED <<createVars, completeVars, mapVars, kernelVars, monitor, removeVars,
                 crashed, overlapped>>

(* devEvent <- dev waits while the channel is full.                        *)
Relay ==
  /\ relay # None
  /\ Len(devEvent) < EventCap
  /\ devEvent' = Append(devEvent, relay)
  /\ relay' = None
  /\ UNCHANGED <<createVars, completeVars, mapVars, kernelVars, monitor, removeVars,
                 crashed, overlapped>>

MonitorStops ==
  /\ monitor = "run"
  /\ relay = None
  /\ stop = "done"
  /\ monitor' = "stopped"
  /\ UNCHANGED <<createVars, completeVars, mapVars, kernelVars, devEvent, relay,
                 removeVars, crashed, overlapped>>

-----------------------------------------------------------------------------
(* RemoveDevice and Stop.  Two removals never run at a time.  A device     *)
(* that is mounted is left alone.                                          *)

Remove(v) ==
  /\ vbds[v] # None
  /\ removing = None /\ stop # "range"
  /\ removing' = vbds[v]
  /\ Begin
  /\ UNCHANGED <<createVars, completeVars, mapVars, kernelVars, eventVars, closed, stop,
                 toRemove, crashed>>

RemoveClose ==
  /\ removing # None /\ ~closed
  /\ Close(removing)
  /\ closed' = TRUE
  /\ UNCHANGED <<createVars, completeVars, vbds, disk, udev, eventVars, removing, stop,
                 toRemove, crashed, overlapped>>

(* delete(h.vbds, name), whoever is there by now.                          *)
RemoveDelete ==
  /\ removing # None /\ closed
  /\ LET v == name[removing] IN
       /\ vbds' = [vbds EXCEPT ![v] = None]
       /\ forgotten' = forgotten \cup ({vbds[v]} \ {None, removing})
  /\ removing' = None
  /\ closed' = FALSE
  /\ UNCHANGED <<createVars, completeVars, opened, kernelVars, eventVars, stop, toRemove,
                 crashed, overlapped>>

StopBegins ==
  /\ stop = "idle"
  /\ removing = None
  /\ stop' = "range"
  /\ toRemove' = {v \in Volumes : vbds[v] # None}
  /\ Begin
  /\ UNCHANGED <<createVars, completeVars, mapVars, kernelVars, eventVars, removing,
                 closed, crashed>>

(* The next name of the map: removed, or busy.                             *)
StopNext(v) ==
  /\ stop = "range"
  /\ removing = None
  /\ v \in toRemove
  /\ toRemove' = toRemove \ {v}
  /\ removing' \in {None, vbds[v]}
  /\ UNCHANGED <<createVars, completeVars, mapVars, kernelVars, eventVars, closed, stop,
                 crashed, overlapped>>

StopEnds ==
  /\ stop = "range"
  /\ removing = None /\ toRemove = {}
  /\ stop' = "done"
  /\ UNCHANGED <<createVars, completeVars, mapVars, kernelVars, eventVars, removing,
                 closed, toRemove, crashed, overlapped>>

-----------------------------------------------------------------------------
CreateDevice(c) ==
  \/ \E v \in Volumes : Call(c, v)
  \/ Refuse(c) \/ Acquire(c)
  \/ Clean(c) \/ NewFails(c) \/ Open(c) \/ EnableFails(c) \/ Enable(c)
  \/ SetInitializing(c) \/ Receive(c) \/ CloseFailed(c) \/ Clear(c)

CreateDeviceComplete(c) ==
  \/ TakeEvent(c) \/ SkipEvent(c) \/ Timeout(c)
  \/ Look(c) \/ GiveUp(c) \/ SetNumber(c) \/ MakeNode(c) \/ Register(c)
  \/ Panic(c)

MonitorDeviceEvent == Monitor \/ Relay \/ MonitorStops

RemoveDevice == (\E v \in Volumes : Remove(v)) \/ RemoveClose \/ RemoveDelete

Stop == StopBegins \/ (\E v \in Volumes : StopNext(v)) \/ StopEnds

Kernel == \E o \in Others : OtherComes(o) \/ OtherGoes(o)

Next ==
  /\ ~crashed
  /\ \/ \E c \in Calls : CreateDevice(c) \/ CreateDeviceComplete(c)
     \/ MonitorDeviceEvent
     \/ RemoveDevice
     \/ Stop
     \/ Kernel

Spec == Init /\ [][Next]_vars

(* The goroutines run, calls of configfs return, the timer of a completer  *)
(* fires when nothing comes.  The program need not call anything.          *)
Fairness ==
  /\ \A c \in Calls :
       /\ WF_vars(~crashed /\ create[c] # "idle" /\ CreateDevice(c))
       /\ WF_vars(~crashed /\ CreateDeviceComplete(c))
  /\ WF_vars(~crashed /\ (Monitor \/ Relay))
  /\ WF_vars(~crashed /\ (RemoveClose \/ RemoveDelete))
  /\ WF_vars(~crashed /\ ((\E v \in Volumes : StopNext(v)) \/ StopEnds))

FairSpec == Spec /\ Fairness

-----------------------------------------------------------------------------
Registered(c) == \E v \in Volumes : vbds[v] = c

TypeOK ==
  /\ locked \in BOOLEAN
  /\ vbdInitializing \in Calls \cup {None}
  /\ create \in [Calls -> CreatePcs]
  /\ name \in [Calls -> Volumes \cup {None}]
  /\ \A c \in Calls :
       create[c] # "idle" \/ c \in {vbdInitializing, removing} \/ Registered(c) =>
         name[c] \in Volumes
  /\ complete \in [Calls -> CompletePcs]
  /\ held \in [Calls -> Numbers \cup {None}]
  /\ result \in [Calls -> Results]
  /\ number \in [Calls -> Numbers \cup {None}]
  /\ vbds \in [Volumes -> Calls \cup {None}]
  /\ opened \subseteq Calls
  /\ forgotten \subseteq Calls
  /\ present \subseteq Disks
  /\ disk \in [Disks -> Numbers \cup {None}]
  /\ udev \in Seq(Numbers)
  /\ devEvent \in Seq(Numbers)
  /\ Len(devEvent) <= EventCap
  /\ relay \in Numbers \cup {None}
  /\ monitor \in {"run", "stopped"}
  /\ removing \in Calls \cup {None}
  /\ closed \in BOOLEAN
  /\ stop \in {"idle", "range", "done"}
  /\ toRemove \subseteq Volumes
  /\ crashed \in BOOLEAN
  /\ overlapped \in BOOLEAN

(* A completer that has still to release the mutex.                        *)
MustUnlock(c) == complete[c] \in {"select", "retry", "number", "mknod"}

(* The mutex is locked in CreateDevice and unlocked in                     *)
(* CreateDeviceComplete, by another goroutine.  Every Unlock meets the     *)
(* Lock of its own CreateDevice: at most one completer has still to unlock *)
(* and then the mutex is locked ("unlock of unlocked mutex" would end the  *)
(* process).                                                               *)
UnlockPaired ==
  /\ \A c \in Calls : MustUnlock(c) => locked
  /\ \A c, d \in Calls : MustUnlock(c) /\ MustUnlock(d) => c = d

(* CreateDevice returns a device only with the number the kernel gave to   *)
(* this very device, though no event says whose it is (hba.go:136-147).    *)
OwnNumber == \A c \in Calls : create[c] = "ok" => number[c] = disk[c]

(* "must be closed" (newVirtBlockDevice): a device that is still open is   *)
(* registered, where RemoveDevice and Stop find it, or its CreateDevice    *)
(* has still to return.                                                    *)
OpenIsKnown ==
  \A c \in opened : Registered(c) \/ create[c] \notin Outside

(* An open device is lost only where the code drops it: by an error of     *)
(* postEnableTcmu (hba.go:112), by an error of Close (:117, :183), or by   *)
(* writing over or deleting the entry of another device of its name        *)
(* (:154, :184).  Whatever else happens, Stop finds it.                    *)
OpenIsAccounted ==
  \A c \in opened : Registered(c) \/ create[c] \notin Outside \/ c \in forgotten

(* vbdInitializing, read without a look at the mutex, is never nil where   *)
(* the completer dereferences it.                                          *)
NeverNil == ~crashed

(* The goroutines, the mutex and the events together do what Registry says *)
(* of a creation: it is one step from the first Lock to the entry in the   *)
(* map, though the mutex is released and vbdInitializing read in between   *)
(* (hba.go:80-119, :142-157).  The number is the device's own as long as   *)
(* no event but its own can be met: none is late, none of another program. *)
Made(c) ==
  /\ result[c] = "SUCCESS"
  /\ \/ create[c] = "wait" /\ complete[c] = "send"
     \/ create[c] = "clear"

Phase(c) ==
  CASE create[c] = "idle" -> "out"
    [] create[c] = "lock" -> "asked"
    [] create[c] \in Returned -> create[c]
    [] Made(c) -> "made"
    [] OTHER -> "in"

Names == INSTANCE Registry WITH
  OwnEvents <- ~MayTimeout /\ Others = {},
  phase <- [c \in Calls |-> Phase(c)],
  volume <- name,
  given <- [c \in Calls |-> disk[c]],
  number <- [c \in Calls |-> IF Phase(c) \in {"made", "ok"} THEN number[c] ELSE None],
  registered <- vbds
RegistrySpec == Names!Spec

(* A call of CreateDevice returns, if the program makes one call at a time *)
(* so that none is in progress then: what an earlier creation left behind, *)
(* failed or late, does not keep the mutex, unless a completer has given   *)
(* up after 300 looks at vbdInitializing and left without a word.          *)
CreateReturns ==
  (\E c \in Calls : create[c] = "lock") ~>
    \/ \A c \in Calls : create[c] \in Outside
    \/ overlapped
    \/ \E c \in Calls : complete[c] = "gone"

(* A refused CreateDevice may be tried again: the mutex becomes free.      *)
TryAgain == \A c \in Calls : create[c] = "refused" ~> ~locked
=============================================================================
