----------------------------- MODULE HBA_proofs -----------------------------
(***************************************************************************)
(* What holds of the HBA for every number of calls, of names, of disks and *)
(* numbers, and every capacity of devEvent.                                *)
(***************************************************************************)
EXTENDS HBAInv, SequenceTheorems, TLAPS

USE DEF createVars, completeVars, mapVars, kernelVars, eventVars, removeVars

(* TypeOK: in particular devEvent never holds more than its capacity.      *)
THEOREM HBATypeCorrect == Spec => []TypeOK
<1>1. Init => TypeOK
  <2> SUFFICES ASSUME Init PROVE TypeOK
    OBVIOUS
  <2> USE DEF Init
  <2>1. /\ create \in [Calls -> CreatePcs] /\ complete \in [Calls -> CompletePcs]
        /\ held \in [Calls -> Numbers \cup {None}] /\ result \in [Calls -> Results]
        /\ number \in [Calls -> Numbers \cup {None}] /\ name \in [Calls -> Volumes \cup {None}]
    BY DEF CreatePcs, CompletePcs, Results
  <2>2. /\ udev \in Seq(Numbers) /\ devEvent \in Seq(Numbers) /\ Len(devEvent) <= EventCap
    BY HBAAssumption
  <2>3. \A c \in Calls : create[c] = "idle" /\ c \notin {vbdInitializing, removing} /\ ~Registered(c)
    BY HBAAssumption DEF Registered
  <2> QED BY <2>1, <2>2, <2>3 DEF TypeOK
<1>2. TypeOK /\ [Next]_vars => TypeOK'
  <2> SUFFICES ASSUME TypeOK, [Next]_vars PROVE TypeOK'
    OBVIOUS
  <2> USE HBAAssumption DEF TypeOK, CreatePcs, CompletePcs, Results, Disks, Registered
  <2>1. ASSUME NEW c \in Calls, CreateDevice(c) PROVE TypeOK'
    <3>1. ASSUME NEW v \in Volumes, Call(c, v) PROVE TypeOK'
      <4>1. overlapped' \in BOOLEAN
        BY <3>1 DEF Call, Begin
      <4> QED BY <3>1, <4>1 DEF Call
    <3>2. CASE Refuse(c)
      BY <3>2 DEF Refuse
    <3>3. CASE Acquire(c)
      BY <3>3 DEF Acquire
    <3>4. CASE Clean(c)
      BY <3>4 DEF Clean
    <3>5. CASE NewFails(c)
      BY <3>5 DEF NewFails
    <3>6. CASE Open(c)
      BY <3>6 DEF Open
    <3>7. CASE EnableFails(c)
      BY <3>7 DEF EnableFails
    <3>8. CASE Enable(c)
      BY <3>8 DEF Enable, AddDisk
    <3>9. CASE SetInitializing(c)
      BY <3>9 DEF SetInitializing
    <3>10. CASE Receive(c)
      BY <3>10 DEF Receive
    <3>11. CASE CloseFailed(c)
      BY <3>11 DEF CloseFailed, Close, CloseDone, CloseFails
    <3>12. CASE Clear(c)
      BY <3>12 DEF Clear
    <3> HIDE DEF TypeOK
    <3> QED BY <2>1, <3>1, <3>2, <3>3, <3>4, <3>5, <3>6, <3>7, <3>8, <3>9, <3>10, <3>11,
       <3>12
       DEF CreateDevice
  <2>2. ASSUME NEW c \in Calls, CreateDeviceComplete(c) PROVE TypeOK'
    <3>1. CASE TakeEvent(c)
      <4>1. devEvent' \in Seq(Numbers) /\ Len(devEvent') <= EventCap
        BY <3>1, HeadTailProperties DEF TakeEvent
      <4>2. NextEvent \in Numbers
        BY <3>1, HeadTailProperties DEF TakeEvent, NextEvent
      <4> QED BY <3>1, <4>1, <4>2 DEF TakeEvent
    <3>2. CASE SkipEvent(c)
      <4>1. devEvent' \in Seq(Numbers) /\ Len(devEvent') <= EventCap
        BY <3>2, HeadTailProperties DEF SkipEvent
      <4>2. NextEvent \in Numbers
        BY <3>2, HeadTailProperties DEF SkipEvent, NextEvent
      <4> QED BY <3>2, <4>1, <4>2 DEF SkipEvent
    <3>3. CASE Timeout(c)
      BY <3>3 DEF Timeout, TimerFires
    <3>4. CASE Look(c)
      BY <3>4 DEF Look
    <3>5. CASE GiveUp(c)
      BY <3>5 DEF GiveUp
    <3>6. CASE SetNumber(c)
      BY <3>6 DEF SetNumber
    <3>7. CASE MakeNode(c)
      <4>1. complete' \in [Calls -> CompletePcs]
        BY <3>7 DEF MakeNode
      <4>2. result' \in [Calls -> Results]
        BY <3>7 DEF MakeNode
      <4> QED BY <3>7, <4>1, <4>2 DEF MakeNode
    <3>8. CASE Register(c)
      BY <3>8 DEF Register
    <3>9. CASE Panic(c)
      BY <3>9 DEF Panic
    <3> HIDE DEF TypeOK
    <3> QED BY <2>2, <3>1, <3>2, <3>3, <3>4, <3>5, <3>6, <3>7, <3>8, <3>9
       DEF CreateDeviceComplete
  <2>3. CASE MonitorDeviceEvent
    <3>1. CASE Monitor
      BY <3>1 DEF Monitor
    <3>2. CASE Relay
      <4>1. relay \in Numbers
        BY <3>2 DEF Relay
      <4>2. devEvent' \in Seq(Numbers) /\ Len(devEvent') <= EventCap
        BY <3>2, <4>1 DEF Relay
      <4> QED BY <3>2, <4>2 DEF Relay
    <3>3. CASE MonitorStops
      BY <3>3 DEF MonitorStops
    <3> HIDE DEF TypeOK
    <3> QED BY <2>3, <3>1, <3>2, <3>3 DEF MonitorDeviceEvent
  <2>4. CASE RemoveDevice
    <3>1. ASSUME NEW v \in Volumes, Remove(v) PROVE TypeOK'
      <4>1. overlapped' \in BOOLEAN
        BY <3>1 DEF Remove, Begin
      <4> QED BY <3>1, <4>1 DEF Remove
    <3>2. CASE RemoveClose
      BY <3>2 DEF RemoveClose, Close, CloseDone, CloseFails
    <3>3. CASE RemoveDelete
      <4>1. removing \in Calls /\ name[removing] \in Volumes
        BY <3>3 DEF RemoveDelete
      <4>2. forgotten' \subseteq Calls
        BY <3>3, <4>1 DEF RemoveDelete
      <4>3. vbds' \in [Volumes -> Calls \cup {None}] /\ \A c \in Calls : Registered(c)' => Registered(c)
        BY <3>3, <4>1 DEF RemoveDelete
      <4> QED BY <3>3, <4>2, <4>3 DEF RemoveDelete
    <3> HIDE DEF TypeOK
    <3> QED BY <2>4, <3>1, <3>2, <3>3 DEF RemoveDevice
  <2>5. CASE Stop
    <3>1. CASE StopBegins
      <4>1. overlapped' \in BOOLEAN
        BY <3>1 DEF StopBegins, Begin
      <4> QED BY <3>1, <4>1 DEF StopBegins
    <3>2. ASSUME NEW v \in Volumes, StopNext(v) PROVE TypeOK'
      BY <3>2 DEF StopNext
    <3>3. CASE StopEnds
      BY <3>3 DEF StopEnds
    <3> HIDE DEF TypeOK
    <3> QED BY <2>5, <3>1, <3>2, <3>3 DEF Stop
  <2>6. CASE Kernel
    <3>1. ASSUME NEW o \in Others, OtherComes(o) PROVE TypeOK'
      BY <3>1 DEF OtherComes, AddDisk
    <3>2. ASSUME NEW o \in Others, OtherGoes(o) PROVE TypeOK'
      BY <3>2 DEF OtherGoes
    <3> HIDE DEF TypeOK
    <3> QED BY <2>6, <3>1, <3>2 DEF Kernel
  <2>7. CASE UNCHANGED vars
    BY <2>7 DEF vars
  <2> HIDE DEF TypeOK
  <2> QED BY <2>1, <2>2, <2>3, <2>4, <2>5, <2>6, <2>7 DEF Next
<1> QED BY <1>1, <1>2, PTL DEF Spec

-----------------------------------------------------------------------------
(* What each goroutine, and the kernel by itself, leaves alone.            *)
LEMMA CreateFrame ==
  \A c \in Calls : CreateDevice(c) =>
    UNCHANGED <<held, result, number, vbds, devEvent, relay, monitor, removeVars, crashed>>
BY DEF CreateDevice, Call, Refuse, Acquire, Clean, NewFails, Open, EnableFails, Enable,
  SetInitializing, Receive, CloseFailed, Clear

LEMMA CompleteFrame ==
  \A c \in Calls : CreateDeviceComplete(c) =>
    UNCHANGED <<vbdInitializing, create, name, opened, kernelVars, relay, monitor, removing,
                closed, stop, overlapped>>
BY DEF CreateDeviceComplete, TakeEvent, SkipEvent, Timeout, TimerFires, Look, GiveUp, SetNumber,
  MakeNode, Register, Panic

LEMMA MonitorFrame ==
  MonitorDeviceEvent =>
    UNCHANGED <<createVars, completeVars, mapVars, present, disk, removeVars, crashed, overlapped>>
BY DEF MonitorDeviceEvent, Monitor, Relay, MonitorStops

LEMMA RemoveFrame ==
  RemoveDevice =>
    UNCHANGED <<createVars, completeVars, disk, udev, eventVars, stop, toRemove, crashed>>
BY DEF RemoveDevice, Remove, RemoveClose, RemoveDelete

LEMMA StopFrame ==
  Stop => UNCHANGED <<createVars, completeVars, mapVars, kernelVars, eventVars, closed, crashed>>
BY DEF Stop, StopBegins, StopNext, StopEnds

LEMMA KernelFrame ==
  ASSUME TypeOK, Kernel
  PROVE  /\ UNCHANGED <<createVars, completeVars, mapVars, eventVars, removeVars, crashed, overlapped>>
         /\ \A c \in Calls : disk'[c] = disk[c]
         /\ Others # {}
<1>1. ASSUME NEW o \in Others, OtherComes(o) PROVE \A c \in Calls : disk'[c] = disk[c]
  BY <1>1, HBAAssumption DEF OtherComes, AddDisk, TypeOK, Disks
<1>2. ASSUME NEW o \in Others, OtherGoes(o) PROVE \A c \in Calls : disk'[c] = disk[c]
  BY <1>2 DEF OtherGoes
<1> QED BY <1>1, <1>2 DEF Kernel, OtherComes, OtherGoes

-----------------------------------------------------------------------------
LEMMA UnlockStep ==
  ASSUME TypeOK, UnlockPaired, [Next]_vars
  PROVE  UnlockPaired'
<1> USE HBAAssumption DEF TypeOK, CreatePcs, CompletePcs
<1>1. ASSUME NEW c \in Calls, CreateDevice(c) PROVE UnlockPaired'
  <2>1. CASE Refuse(c)
    BY <2>1 DEF Refuse, UnlockPaired, MustUnlock
  <2>2. CASE Acquire(c)
    BY <2>2 DEF Acquire, UnlockPaired, MustUnlock
  <2>3. CASE Receive(c)
    BY <2>3 DEF Receive, UnlockPaired, MustUnlock
  <2>4. CASE (\E v \in Volumes : Call(c, v)) \/ Clean(c) \/ NewFails(c) \/ Open(c) \/
            EnableFails(c) \/ Enable(c) \/ SetInitializing(c) \/ CloseFailed(c) \/ Clear(c)
    BY <2>4
       DEF Call, Clean, NewFails, Open, EnableFails, Enable, AddDisk, SetInitializing,
           CloseFailed, Close, CloseDone, CloseFails, Clear, UnlockPaired, MustUnlock
  <2> QED BY <1>1, <2>1, <2>2, <2>3, <2>4 DEF CreateDevice
<1>2. ASSUME NEW c \in Calls, CreateDeviceComplete(c) PROVE UnlockPaired'
  <2>1. CASE TakeEvent(c)
    BY <2>1 DEF TakeEvent, NextEvent, UnlockPaired, MustUnlock
  <2>2. CASE Timeout(c)
    BY <2>2 DEF Timeout, TimerFires, UnlockPaired, MustUnlock
  <2>3. CASE Look(c)
    BY <2>3 DEF Look, UnlockPaired, MustUnlock
  <2>4. CASE GiveUp(c)
    BY <2>4 DEF GiveUp, UnlockPaired, MustUnlock
  <2>5. CASE SetNumber(c)
    BY <2>5 DEF SetNumber, UnlockPaired, MustUnlock
  <2>6. CASE MakeNode(c)
    <3>1. \A d \in Calls : d # c => ~MustUnlock(d)
      BY <2>6 DEF MakeNode, UnlockPaired, MustUnlock
    <3>2. \A d \in Calls : MustUnlock(d)' => MustUnlock(d) /\ d # c
      BY <2>6 DEF MakeNode, MustUnlock
    <3> QED BY <3>1, <3>2 DEF UnlockPaired
  <2>7. CASE Register(c)
    BY <2>7 DEF Register, UnlockPaired, MustUnlock
  <2>8. CASE SkipEvent(c) \/ Panic(c)
    BY <2>8 DEF SkipEvent, NextEvent, Panic, UnlockPaired, MustUnlock
  <2> QED BY <1>2, <2>1, <2>2, <2>3, <2>4, <2>5, <2>6, <2>7, <2>8 DEF CreateDeviceComplete
<1>3. CASE MonitorDeviceEvent
  BY <1>3, MonitorFrame DEF UnlockPaired, MustUnlock
<1>4. CASE RemoveDevice
  BY <1>4, RemoveFrame DEF UnlockPaired, MustUnlock
<1>5. CASE Stop
  BY <1>5, StopFrame DEF UnlockPaired, MustUnlock
<1>6. CASE Kernel
  BY <1>6, KernelFrame DEF UnlockPaired, MustUnlock
<1>7. CASE UNCHANGED vars
  BY <1>7 DEF vars, UnlockPaired, MustUnlock
<1> QED BY <1>1, <1>2, <1>3, <1>4, <1>5, <1>6, <1>7 DEF Next

(* UnlockPaired: whatever fails or is late, every Unlock of a completer    *)
(* meets the Lock of its own CreateDevice.                                 *)
THEOREM UnlockMeetsLock == Spec => []UnlockPaired
<1>1. Init => UnlockPaired
  BY DEF Init, UnlockPaired, MustUnlock
<1>2. TypeOK /\ UnlockPaired /\ [Next]_vars => UnlockPaired'
  BY UnlockStep
<1> QED BY <1>1, <1>2, HBATypeCorrect, PTL DEF Spec

-----------------------------------------------------------------------------
(* CreationInv, but for InvOne: a lemma for each conjunct.                 *)

LEMMA Working ==
  ASSUME TypeOK, CreationInv, NEW c \in Calls, complete[c] \in {"number", "mknod", "register"}
  PROVE  create[c] = "wait" /\ vbdInitializing = c
BY DEF TypeOK, CreatePcs, CreationInv, InvCompleter, InvInitializing

LEMMA InitializingStep ==
  ASSUME TypeOK, CreationInv, [Next]_vars
  PROVE  InvInitializing'
<1> USE HBAAssumption DEF TypeOK, CreatePcs, CompletePcs, Disks
<1>1. ASSUME NEW c \in Calls, CreateDevice(c) PROVE InvInitializing'
  <2>1. CASE SetInitializing(c)
    BY <2>1 DEF SetInitializing, CreationInv, InvInitializing, InvOne, Session, Active
  <2>2. CASE Receive(c)
    BY <2>2 DEF Receive, CreationInv, InvInitializing, InvOne, Session, Active
  <2>3. CASE CloseFailed(c)
    BY <2>3
       DEF CloseFailed, Close, CloseDone, CloseFails, CreationInv, InvInitializing, InvOne,
           Session, Active
  <2>4. CASE Clear(c)
    BY <2>4 DEF Clear, CreationInv, InvInitializing, InvOne, Session, Active
  <2>5. CASE (\E v \in Volumes : Call(c, v)) \/ Refuse(c) \/ Acquire(c) \/ Clean(c) \/
            NewFails(c) \/ Open(c) \/ EnableFails(c) \/ Enable(c)
    BY <2>5
       DEF Call, Refuse, Acquire, Clean, NewFails, Open, EnableFails, Enable, AddDisk,
           CreationInv, InvInitializing, InvOne, Session, Active
  <2> QED BY <1>1, <2>1, <2>2, <2>3, <2>4, <2>5 DEF CreateDevice
<1>2. ASSUME NEW c \in Calls, CreateDeviceComplete(c) PROVE InvInitializing'
  BY <1>2, CompleteFrame DEF CreationInv, InvInitializing, InvOne, Session, Active
<1>3. CASE MonitorDeviceEvent
  BY <1>3, MonitorFrame DEF CreationInv, InvInitializing, InvOne, Session, Active
<1>4. CASE RemoveDevice
  BY <1>4, RemoveFrame DEF CreationInv, InvInitializing, InvOne, Session, Active
<1>5. CASE Stop
  BY <1>5, StopFrame DEF CreationInv, InvInitializing, InvOne, Session, Active
<1>6. CASE Kernel
  BY <1>6, KernelFrame DEF CreationInv, InvInitializing, InvOne, Session, Active
<1>7. CASE UNCHANGED vars
  BY <1>7 DEF vars, CreationInv, InvInitializing, InvOne, Session, Active
<1> QED BY <1>1, <1>2, <1>3, <1>4, <1>5, <1>6, <1>7 DEF Next

LEMMA CompleterStep ==
  ASSUME TypeOK, CreationInv, [Next]_vars
  PROVE  InvCompleter'
<1> USE HBAAssumption DEF TypeOK, CreatePcs, CompletePcs, Disks
<1>1. ASSUME NEW c \in Calls, CreateDevice(c) PROVE InvCompleter'
  <2>1. ASSUME NEW v \in Volumes, Call(c, v) PROVE InvCompleter'
    BY <2>1 DEF Call, CreationInv, InvCompleter
  <2>2. CASE Refuse(c)
    BY <2>2 DEF Refuse, CreationInv, InvCompleter
  <2>3. CASE Acquire(c)
    BY <2>3 DEF Acquire, CreationInv, InvCompleter
  <2>4. CASE Clean(c)
    BY <2>4 DEF Clean, CreationInv, InvCompleter
  <2>5. CASE NewFails(c)
    BY <2>5 DEF NewFails, CreationInv, InvCompleter
  <2>6. CASE Open(c)
    BY <2>6 DEF Open, CreationInv, InvCompleter
  <2>7. CASE EnableFails(c)
    BY <2>7 DEF EnableFails, CreationInv, InvCompleter
  <2>8. CASE Enable(c)
    BY <2>8 DEF Enable, AddDisk, CreationInv, InvCompleter
  <2>9. CASE SetInitializing(c)
    BY <2>9 DEF SetInitializing, CreationInv, InvCompleter
  <2>10. CASE Receive(c)
    BY <2>10 DEF Receive, CreationInv, InvCompleter
  <2>11. CASE CloseFailed(c)
    BY <2>11 DEF CloseFailed, Close, CloseDone, CloseFails, CreationInv, InvCompleter
  <2>12. CASE Clear(c)
    BY <2>12 DEF Clear, CreationInv, InvCompleter
  <2> QED BY <1>1, <2>1, <2>2, <2>3, <2>4, <2>5, <2>6, <2>7, <2>8, <2>9, <2>10, <2>11, <2>12
     DEF CreateDevice
<1>2. ASSUME NEW c \in Calls, CreateDeviceComplete(c) PROVE InvCompleter'
  <2>1. CASE TakeEvent(c)
    BY <2>1 DEF TakeEvent, NextEvent, CreationInv, InvCompleter
  <2>2. CASE SkipEvent(c)
    BY <2>2 DEF SkipEvent, NextEvent, CreationInv, InvCompleter
  <2>3. CASE Timeout(c)
    BY <2>3 DEF Timeout, TimerFires, CreationInv, InvCompleter
  <2>4. CASE Look(c)
    BY <2>4
       DEF Look, InvInitializing, InvOne, Session, Active, MustUnlock, CreationInv,
           InvCompleter
  <2>5. CASE GiveUp(c)
    BY <2>5 DEF GiveUp, CreationInv, InvCompleter
  <2>6. CASE SetNumber(c)
    BY <2>6, Working DEF SetNumber, CreationInv, InvCompleter
  <2>7. CASE MakeNode(c)
    BY <2>7, Working DEF MakeNode, CreationInv, InvCompleter
  <2>8. CASE Register(c)
    BY <2>8, Working DEF Register, CreationInv, InvCompleter
  <2>9. CASE Panic(c)
    BY <2>9 DEF Panic, CreationInv, InvCompleter
  <2> QED BY <1>2, <2>1, <2>2, <2>3, <2>4, <2>5, <2>6, <2>7, <2>8, <2>9 DEF CreateDeviceComplete
<1>3. CASE MonitorDeviceEvent
  BY <1>3, MonitorFrame DEF CreationInv, InvCompleter
<1>4. CASE RemoveDevice
  BY <1>4, RemoveFrame DEF CreationInv, InvCompleter
<1>5. CASE Stop
  BY <1>5, StopFrame DEF CreationInv, InvCompleter
<1>6. CASE Kernel
  BY <1>6, KernelFrame DEF CreationInv, InvCompleter
<1>7. CASE UNCHANGED vars
  BY <1>7 DEF vars, CreationInv, InvCompleter
<1> QED BY <1>1, <1>2, <1>3, <1>4, <1>5, <1>6, <1>7 DEF Next

LEMMA ReturnedStep ==
  ASSUME TypeOK, CreationInv, [Next]_vars
  PROVE  InvReturned'
<1> USE HBAAssumption DEF TypeOK, CreatePcs, CompletePcs, Disks
<1>1. ASSUME NEW c \in Calls, CreateDevice(c) PROVE InvReturned'
  <2>1. CASE Receive(c)
    BY <2>1 DEF Receive, CreationInv, InvReturned, InvCompleter
  <2>2. CASE Clear(c)
    BY <2>2 DEF Clear, CreationInv, InvReturned, InvCompleter
  <2>3. CASE (\E v \in Volumes : Call(c, v)) \/ Refuse(c) \/ Acquire(c) \/ Clean(c) \/
            NewFails(c) \/ Open(c) \/ EnableFails(c) \/ Enable(c) \/ SetInitializing(c) \/
            CloseFailed(c)
    BY <2>3
       DEF Call, Refuse, Acquire, Clean, NewFails, Open, EnableFails, Enable, AddDisk,
           SetInitializing, CloseFailed, Close, CloseDone, CloseFails, CreationInv,
           InvReturned, InvCompleter
  <2> QED BY <1>1, <2>1, <2>2, <2>3 DEF CreateDevice
<1>2. ASSUME NEW c \in Calls, CreateDeviceComplete(c) PROVE InvReturned'
  <2>1. CASE Timeout(c)
    BY <2>1 DEF Timeout, TimerFires, CreationInv, InvReturned, InvCompleter
  <2>2. CASE MakeNode(c)
    BY <2>2 DEF MakeNode, CreationInv, InvReturned, InvCompleter
  <2>3. CASE Register(c)
    BY <2>3 DEF Register, CreationInv, InvReturned, InvCompleter
  <2>4. CASE TakeEvent(c) \/ SkipEvent(c) \/ Look(c) \/ GiveUp(c) \/ SetNumber(c) \/
            Panic(c)
    BY <2>4
       DEF TakeEvent, NextEvent, SkipEvent, Look, GiveUp, SetNumber, Panic, CreationInv,
           InvReturned, InvCompleter
  <2> QED BY <1>2, <2>1, <2>2, <2>3, <2>4 DEF CreateDeviceComplete
<1>3. CASE MonitorDeviceEvent
  BY <1>3, MonitorFrame DEF CreationInv, InvReturned, InvCompleter
<1>4. CASE RemoveDevice
  BY <1>4, RemoveFrame DEF CreationInv, InvReturned, InvCompleter
<1>5. CASE Stop
  BY <1>5, StopFrame DEF CreationInv, InvReturned, InvCompleter
<1>6. CASE Kernel
  BY <1>6, KernelFrame DEF CreationInv, InvReturned, InvCompleter
<1>7. CASE UNCHANGED vars
  BY <1>7 DEF vars, CreationInv, InvReturned, InvCompleter
<1> QED BY <1>1, <1>2, <1>3, <1>4, <1>5, <1>6, <1>7 DEF Next

LEMMA GivenStep ==
  ASSUME TypeOK, CreationInv, [Next]_vars
  PROVE  InvGiven'
<1> USE HBAAssumption DEF TypeOK, CreatePcs, CompletePcs, Disks
<1>1. ASSUME NEW c \in Calls, CreateDevice(c) PROVE InvGiven'
  <2>1. CASE Acquire(c)
    BY <2>1 DEF Acquire, CreationInv, InvGiven, InvCompleter
  <2>2. CASE Enable(c)
    BY <2>2 DEF Enable, AddDisk, CreationInv, InvGiven, InvCompleter
  <2>3. CASE SetInitializing(c)
    BY <2>3 DEF SetInitializing, CreationInv, InvGiven, InvCompleter
  <2>4. CASE Receive(c)
    BY <2>4 DEF Receive, CreationInv, InvGiven, InvCompleter
  <2>5. CASE Clear(c)
    BY <2>5 DEF Clear, CreationInv, InvGiven, InvCompleter
  <2>6. CASE (\E v \in Volumes : Call(c, v)) \/ Refuse(c) \/ Clean(c) \/ NewFails(c) \/
            Open(c) \/ EnableFails(c) \/ CloseFailed(c)
    BY <2>6
       DEF Call, Refuse, Clean, NewFails, Open, EnableFails, CloseFailed, Close, CloseDone,
           CloseFails, CreationInv, InvGiven, InvCompleter
  <2> QED BY <1>1, <2>1, <2>2, <2>3, <2>4, <2>5, <2>6 DEF CreateDevice
<1>2. ASSUME NEW c \in Calls, CreateDeviceComplete(c) PROVE InvGiven'
  <2>1. CASE TakeEvent(c)
    <3>1. NextEvent \in Numbers
      BY <2>1, HeadTailProperties DEF TakeEvent, NextEvent
    <3> QED BY <2>1, <3>1 DEF TakeEvent, CreationInv, InvGiven
  <2>2. CASE Look(c)
    BY <2>2 DEF Look, CreationInv, InvGiven, InvCompleter
  <2>3. CASE SetNumber(c)
    BY <2>3, Working DEF SetNumber, CreationInv, InvGiven, InvCompleter
  <2>4. CASE MakeNode(c)
    BY <2>4 DEF MakeNode, CreationInv, InvGiven, InvCompleter
  <2>5. CASE SkipEvent(c) \/ Timeout(c) \/ GiveUp(c) \/ Register(c) \/ Panic(c)
    BY <2>5
       DEF SkipEvent, NextEvent, Timeout, TimerFires, GiveUp, Register, Panic, CreationInv,
           InvGiven, InvCompleter
  <2> QED BY <1>2, <2>1, <2>2, <2>3, <2>4, <2>5 DEF CreateDeviceComplete
<1>3. CASE MonitorDeviceEvent
  BY <1>3, MonitorFrame DEF CreationInv, InvGiven, InvCompleter
<1>4. CASE RemoveDevice
  BY <1>4, RemoveFrame DEF CreationInv, InvGiven, InvCompleter
<1>5. CASE Stop
  BY <1>5, StopFrame DEF CreationInv, InvGiven, InvCompleter
<1>6. CASE Kernel
  BY <1>6, KernelFrame DEF CreationInv, InvGiven, InvCompleter
<1>7. CASE UNCHANGED vars
  BY <1>7 DEF vars, CreationInv, InvGiven, InvCompleter
<1> QED BY <1>1, <1>2, <1>3, <1>4, <1>5, <1>6, <1>7 DEF Next

LEMMA CrashStep ==
  ASSUME TypeOK, CreationInv, [Next]_vars
  PROVE  (~crashed)'
<1> USE HBAAssumption DEF TypeOK, CreatePcs, CompletePcs, Disks
<1>1. ASSUME NEW c \in Calls, CreateDevice(c) PROVE (~crashed)'
  BY <1>1, CreateFrame DEF CreationInv
<1>2. ASSUME NEW c \in Calls, CreateDeviceComplete(c) PROVE (~crashed)'
  <2>1. CASE Panic(c)
    BY <2>1, Working DEF Panic, CreationInv
  <2>2. CASE TakeEvent(c) \/ SkipEvent(c) \/ Timeout(c) \/ Look(c) \/ GiveUp(c) \/
            SetNumber(c) \/ MakeNode(c) \/ Register(c)
    BY <2>2
       DEF TakeEvent, NextEvent, SkipEvent, Timeout, TimerFires, Look, GiveUp, SetNumber,
           MakeNode, Register, CreationInv
  <2> QED BY <1>2, <2>1, <2>2 DEF CreateDeviceComplete
<1>3. CASE MonitorDeviceEvent
  BY <1>3, MonitorFrame DEF CreationInv
<1>4. CASE RemoveDevice
  BY <1>4, RemoveFrame DEF CreationInv
<1>5. CASE Stop
  BY <1>5, StopFrame DEF CreationInv
<1>6. CASE Kernel
  BY <1>6, KernelFrame DEF CreationInv
<1>7. CASE UNCHANGED vars
  BY <1>7 DEF vars, CreationInv
<1> QED BY <1>1, <1>2, <1>3, <1>4, <1>5, <1>6, <1>7 DEF Next

LEMMA CreationStep ==
  ASSUME TypeOK, CreationInv, [Next]_vars, InvOne'
  PROVE  CreationInv'
BY InitializingStep, CompleterStep, ReturnedStep, GivenStep, CrashStep DEF CreationInv

LEMMA CreationInit == Init => CreationInv
BY HBAAssumption DEF Init, CreationInv, InvOne, Session, Active, MustUnlock, InvInitializing,
  InvCompleter, InvReturned, InvGiven, Disks

-----------------------------------------------------------------------------
(* SessionInv: the mutex admits one creation at a time.                    *)

LEMMA SessionStep ==
  ASSUME TypeOK, SessionInv, MayTimeout = FALSE, [Next]_vars
  PROVE  InvSession'
<1> USE HBAAssumption DEF TypeOK, CreatePcs, CompletePcs, Disks
<1>1. ASSUME NEW c \in Calls, CreateDevice(c) PROVE InvSession'
  <2>1. ASSUME NEW v \in Volumes, Call(c, v) PROVE InvSession'
    BY <2>1
       DEF Call, SessionInv, CreationInv, InvSession, InvInitializing, InvCompleter,
           Session, Active, MustUnlock
  <2>2. CASE Refuse(c)
    BY <2>2
       DEF Refuse, SessionInv, CreationInv, InvSession, InvInitializing, InvCompleter,
           Session, Active, MustUnlock
  <2>3. CASE Acquire(c)
    BY <2>3
       DEF Acquire, SessionInv, CreationInv, InvSession, InvInitializing, InvCompleter,
           Session, Active, MustUnlock
  <2>4. CASE Clean(c)
    BY <2>4
       DEF Clean, SessionInv, CreationInv, InvSession, InvInitializing, InvCompleter,
           Session, Active, MustUnlock
  <2>5. CASE NewFails(c)
    BY <2>5
       DEF NewFails, SessionInv, CreationInv, InvSession, InvInitializing, InvCompleter,
           Session, Active, MustUnlock
  <2>6. CASE Open(c)
    BY <2>6
       DEF Open, SessionInv, CreationInv, InvSession, InvInitializing, InvCompleter,
           Session, Active, MustUnlock
  <2>7. CASE EnableFails(c)
    BY <2>7
       DEF EnableFails, SessionInv, CreationInv, InvSession, InvInitializing, InvCompleter,
           Session, Active, MustUnlock
  <2>8. CASE Enable(c)
    BY <2>8
       DEF Enable, AddDisk, SessionInv, CreationInv, InvSession, InvInitializing,
           InvCompleter, Session, Active, MustUnlock
  <2>9. CASE SetInitializing(c)
    BY <2>9
       DEF SetInitializing, SessionInv, CreationInv, InvSession, InvInitializing,
           InvCompleter, Session, Active, MustUnlock
  <2>10. CASE Receive(c)
    BY <2>10
       DEF Receive, SessionInv, CreationInv, InvSession, InvInitializing, InvCompleter,
           Session, Active, MustUnlock
  <2>11. CASE CloseFailed(c)
    BY <2>11
       DEF CloseFailed, Close, CloseDone, CloseFails, SessionInv, CreationInv, InvSession,
           InvInitializing, InvCompleter, Session, Active, MustUnlock
  <2>12. CASE Clear(c)
    BY <2>12
       DEF Clear, SessionInv, CreationInv, InvSession, InvInitializing, InvCompleter,
           Session, Active, MustUnlock
  <2> QED BY <1>1, <2>1, <2>2, <2>3, <2>4, <2>5, <2>6, <2>7, <2>8, <2>9, <2>10, <2>11, <2>12
     DEF CreateDevice
<1>2. ASSUME NEW c \in Calls, CreateDeviceComplete(c) PROVE InvSession'
  <2>1. CASE Timeout(c)
    BY <2>1
       DEF Timeout, TimerFires, Hopeless, SessionInv, CreationInv, InvSession,
           InvInitializing, InvCompleter, Session, Active, MustUnlock
  <2>2. CASE GiveUp(c)
    BY <2>2
       DEF GiveUp, SessionInv, CreationInv, InvSession, InvInitializing, InvCompleter,
           Session, Active, MustUnlock
  <2>3. CASE MakeNode(c)
    BY <2>3, Working
       DEF MakeNode, SessionInv, CreationInv, InvSession, InvInitializing, InvCompleter,
           Session, Active, MustUnlock
  <2>4. CASE TakeEvent(c) \/ SkipEvent(c) \/ Look(c) \/ SetNumber(c) \/ Register(c) \/
            Panic(c)
    BY <2>4
       DEF TakeEvent, NextEvent, SkipEvent, Look, SetNumber, Register, Panic, SessionInv,
           CreationInv, InvSession, InvInitializing, InvCompleter, Session, Active,
           MustUnlock
  <2> QED BY <1>2, <2>1, <2>2, <2>3, <2>4 DEF CreateDeviceComplete
<1>3. CASE MonitorDeviceEvent
  BY <1>3, MonitorFrame
     DEF SessionInv, CreationInv, InvSession, InvInitializing, InvCompleter, Session,
         Active, MustUnlock
<1>4. CASE RemoveDevice
  BY <1>4, RemoveFrame
     DEF SessionInv, CreationInv, InvSession, InvInitializing, InvCompleter, Session,
         Active, MustUnlock
<1>5. CASE Stop
  BY <1>5, StopFrame
     DEF SessionInv, CreationInv, InvSession, InvInitializing, InvCompleter, Session,
         Active, MustUnlock
<1>6. CASE Kernel
  BY <1>6, KernelFrame
     DEF SessionInv, CreationInv, InvSession, InvInitializing, InvCompleter, Session,
         Active, MustUnlock
<1>7. CASE UNCHANGED vars
  BY <1>7
     DEF vars, SessionInv, CreationInv, InvSession, InvInitializing, InvCompleter, Session,
         Active, MustUnlock
<1> QED BY <1>1, <1>2, <1>3, <1>4, <1>5, <1>6, <1>7 DEF Next

(* The event that a completer meets is its own.                            *)
LEMMA TakeOwn ==
  ASSUME TypeOK, SessionInv, Others = {}, NEW c \in Calls, TakeEvent(c)
  PROVE  NextEvent = disk[c] /\ create[c] \in {"set", "wait"}
<1>1. NextEvent = devEvent[1] /\ 1 \in DOMAIN devEvent /\ NextEvent \in Numbers
  BY DEF TakeEvent, NextEvent, TypeOK
<1>2. PICK d \in Calls : disk[d] = NextEvent /\ create[d] \in {"set", "wait"} /\ complete[d] = "select"
  BY <1>1 DEF SessionInv, InvEvents, Pending
<1>3. d = c
  BY <1>2 DEF TakeEvent, SessionInv, InvSession, Session, MustUnlock
<1> QED BY <1>2, <1>3

(* What is left of a queue when its first element is taken.                *)
LEMMA TailPlaces ==
  ASSUME NEW T, NEW q \in Seq(T), q # <<>>
  PROVE  /\ Head(q) = q[1] /\ 1 \in DOMAIN q /\ Head(q) \in T
         /\ Len(Tail(q)) = Len(q) - 1 /\ Len(q) \in Nat \ {0}
         /\ \A i \in DOMAIN Tail(q) : i + 1 \in DOMAIN q /\ Tail(q)[i] = q[i + 1]
OBVIOUS

LEMMA EventsStep ==
  ASSUME TypeOK, SessionInv, MayTimeout = FALSE, [Next]_vars, Others = {}
  PROVE  InvEvents'
<1> USE HBAAssumption DEF TypeOK, CreatePcs, CompletePcs, Disks
<1>1. ASSUME NEW c \in Calls, CreateDevice(c) PROVE InvEvents'
  <2>1. ASSUME NEW v \in Volumes, Call(c, v) PROVE InvEvents'
    BY <2>1 DEF Call, SessionInv, CreationInv, InvEvents, Pending
  <2>2. CASE Refuse(c)
    BY <2>2 DEF Refuse, SessionInv, CreationInv, InvEvents, Pending
  <2>3. CASE Acquire(c)
    BY <2>3 DEF Acquire, SessionInv, CreationInv, InvEvents, Pending
  <2>4. CASE Clean(c)
    BY <2>4 DEF Clean, SessionInv, CreationInv, InvEvents, Pending
  <2>5. CASE NewFails(c)
    BY <2>5 DEF NewFails, SessionInv, CreationInv, InvEvents, Pending
  <2>6. CASE Open(c)
    BY <2>6 DEF Open, SessionInv, CreationInv, InvEvents, Pending
  <2>7. CASE EnableFails(c)
    BY <2>7 DEF EnableFails, SessionInv, CreationInv, InvEvents, Pending
  <2>8. CASE Enable(c)
    <3>1. \A n \in Numbers : ~Pending(n)
      BY <2>8 DEF Enable, SessionInv, InvEvents, InvSession, Session, Active
    <3>2. udev = <<>> /\ relay = None /\ devEvent = <<>>
      <4>1. udev # <<>> => Pending(udev[1]) /\ udev[1] \in Numbers
        BY DEF Pending
      <4>2. devEvent # <<>> => Pending(devEvent[1]) /\ devEvent[1] \in Numbers
        BY DEF Pending
      <4> QED BY <3>1, <4>1, <4>2 DEF Pending
    <3>3. complete[c] = "select"
      BY <2>8 DEF Enable, SessionInv, InvEvents
    <3>4. udev' = <<disk'[c]>> /\ relay' = None /\ devEvent' = <<>>
      BY <2>8, <3>2 DEF Enable, AddDisk
    <3>5. Len(udev') + Len(devEvent') + (IF relay' = None THEN 0 ELSE 1) <= 1
      BY <3>4
    <3>6. \A n \in Numbers : Pending(n)' => n = disk'[c]
      BY <3>4 DEF Pending
    <3> QED BY <2>8, <3>3, <3>5, <3>6 DEF Enable, SessionInv, InvEvents
  <2>9. CASE SetInitializing(c)
    BY <2>9 DEF SetInitializing, SessionInv, CreationInv, InvEvents, Pending
  <2>10. CASE Receive(c)
    BY <2>10 DEF Receive, SessionInv, CreationInv, InvEvents, Pending
  <2>11. CASE CloseFailed(c)
    BY <2>11
       DEF CloseFailed, Close, CloseDone, CloseFails, SessionInv, CreationInv, InvEvents,
           Pending
  <2>12. CASE Clear(c)
    BY <2>12 DEF Clear, SessionInv, CreationInv, InvEvents, Pending
  <2> QED BY <1>1, <2>1, <2>2, <2>3, <2>4, <2>5, <2>6, <2>7, <2>8, <2>9, <2>10, <2>11, <2>12
     DEF CreateDevice
<1>2. ASSUME NEW c \in Calls, CreateDeviceComplete(c) PROVE InvEvents'
  <2>1. CASE TakeEvent(c)
    <3>1. /\ devEvent \in Seq(Numbers) /\ devEvent # <<>> /\ devEvent' = Tail(devEvent)
          /\ UNCHANGED <<udev, relay>>
      BY <2>1 DEF TakeEvent
    <3>2. /\ Len(devEvent') = Len(devEvent) - 1 /\ Len(devEvent) \in Nat \ {0} /\ Len(udev) \in Nat
      BY <3>1, TailPlaces
    <3>3. Len(udev') = 0 /\ Len(devEvent') = 0 /\ relay' = None
      BY <3>1, <3>2 DEF SessionInv, InvEvents
    <3>4. \A n \in Numbers : ~Pending(n)'
      BY <3>1, <3>3 DEF Pending
    <3>5. create[c] \in {"set", "wait"}
      BY <2>1, TakeOwn
    <3> QED BY <2>1, <3>3, <3>4, <3>5 DEF TakeEvent, SessionInv, InvEvents
  <2>2. CASE SkipEvent(c)
    <3>1. /\ devEvent \in Seq(Numbers) /\ devEvent # <<>> /\ devEvent' = Tail(devEvent)
          /\ UNCHANGED <<udev, relay>>
      BY <2>2 DEF SkipEvent
    <3>2. /\ Len(devEvent') = Len(devEvent) - 1 /\ Len(devEvent) \in Nat \ {0} /\ Len(udev) \in Nat
      BY <3>1, TailPlaces
    <3>3. Len(udev') = 0 /\ Len(devEvent') = 0 /\ relay' = None
      BY <3>1, <3>2 DEF SessionInv, InvEvents
    <3>4. \A n \in Numbers : ~Pending(n)'
      BY <3>1, <3>3 DEF Pending
    <3> QED BY <2>2, <3>3, <3>4 DEF SkipEvent, SessionInv, InvEvents
  <2>3. CASE Timeout(c)
    <3>1. \A n \in Numbers : ~Pending(n)
      <4> SUFFICES ASSUME NEW n \in Numbers, Pending(n) PROVE FALSE
        OBVIOUS
      <4>1. PICK d \in Calls : disk[d] = n /\ create[d] \in {"set", "wait"} /\ complete[d] = "select"
        BY DEF SessionInv, InvEvents
      <4>2. d = c
        BY <2>3, <4>1 DEF Timeout, TimerFires, SessionInv, InvSession, Session, MustUnlock
      <4> QED BY <2>3, <4>1, <4>2 DEF Timeout, TimerFires, Hopeless
    <3>2. \A n \in Numbers : ~Pending(n)'
      BY <2>3, <3>1 DEF Timeout, TimerFires, Pending
    <3>3. create[c] \notin {"new", "start", "enable"}
      BY <2>3 DEF Timeout, TimerFires, Hopeless
    <3> QED BY <2>3, <3>2, <3>3 DEF Timeout, TimerFires, SessionInv, InvEvents
  <2>4. CASE Look(c)
    BY <2>4 DEF Look, SessionInv, CreationInv, InvEvents, Pending
  <2>5. CASE GiveUp(c)
    BY <2>5 DEF GiveUp, SessionInv, CreationInv, InvEvents, Pending
  <2>6. CASE SetNumber(c)
    BY <2>6, Working DEF SetNumber, SessionInv, CreationInv, InvEvents, Pending
  <2>7. CASE MakeNode(c)
    BY <2>7, Working DEF MakeNode, SessionInv, CreationInv, InvEvents, Pending
  <2>8. CASE Register(c)
    BY <2>8, Working DEF Register, SessionInv, CreationInv, InvEvents, Pending
  <2>9. CASE Panic(c)
    BY <2>9 DEF Panic, SessionInv, CreationInv, InvEvents, Pending
  <2> QED BY <1>2, <2>1, <2>2, <2>3, <2>4, <2>5, <2>6, <2>7, <2>8, <2>9 DEF CreateDeviceComplete
<1>3. CASE MonitorDeviceEvent
  <2>1. CASE Monitor
    <3>1. /\ udev \in Seq(Numbers) /\ udev # <<>> /\ udev' = Tail(udev) /\ relay = None
          /\ relay' \in {None, Head(udev)}
          /\ UNCHANGED <<create, complete, disk, devEvent>>
      BY <2>1 DEF Monitor
    <3>2. \A i \in DOMAIN udev' : i + 1 \in DOMAIN udev /\ udev'[i] = udev[i + 1]
      BY <3>1, TailPlaces
    <3>3. /\ 1 \in DOMAIN udev /\ Head(udev) = udev[1] /\ Len(udev') = Len(udev) - 1
          /\ Len(udev) \in Nat \ {0} /\ Len(devEvent) \in Nat
      BY <3>1, TailPlaces
    <3>4. \A n \in Numbers : Pending(n)' => Pending(n)
      BY <3>1, <3>2, <3>3 DEF Pending
    <3>5. Len(udev') + Len(devEvent') + (IF relay' = None THEN 0 ELSE 1) <= 1
      BY <3>1, <3>3 DEF SessionInv, InvEvents
    <3> QED BY <3>1, <3>4, <3>5 DEF SessionInv, InvEvents
  <2>2. CASE Relay
    <3>1. /\ relay \in Numbers /\ relay # None /\ devEvent' = Append(devEvent, relay) /\ relay' = None
          /\ devEvent \in Seq(Numbers)
          /\ UNCHANGED <<create, complete, disk, udev>>
      BY <2>2 DEF Relay
    <3>2. Len(devEvent') = Len(devEvent) + 1 /\ Len(devEvent) \in Nat /\ Len(udev) \in Nat
      BY <3>1
    <3>3. \A i \in DOMAIN devEvent' : devEvent'[i] = relay \/ (i \in DOMAIN devEvent /\ devEvent'[i] = devEvent[i])
      BY <3>1
    <3>4. \A n \in Numbers : Pending(n)' => Pending(n)
      BY <3>1, <3>3 DEF Pending
    <3>5. Len(udev') + Len(devEvent') + (IF relay' = None THEN 0 ELSE 1) <= 1
      BY <3>1, <3>2 DEF SessionInv, InvEvents
    <3> QED BY <3>1, <3>4, <3>5 DEF SessionInv, InvEvents
  <2>3. CASE MonitorStops
    BY <2>3 DEF MonitorStops, SessionInv, CreationInv, InvEvents, Pending
  <2> QED BY <1>3, <2>1, <2>2, <2>3 DEF MonitorDeviceEvent
<1>4. CASE RemoveDevice
  BY <1>4, RemoveFrame DEF SessionInv, CreationInv, InvEvents, Pending
<1>5. CASE Stop
  BY <1>5, StopFrame DEF SessionInv, CreationInv, InvEvents, Pending
<1>6. CASE Kernel
  BY <1>6, KernelFrame DEF SessionInv, CreationInv, InvEvents, Pending
<1>7. CASE UNCHANGED vars
  BY <1>7 DEF vars, SessionInv, CreationInv, InvEvents, Pending
<1> QED BY <1>1, <1>2, <1>3, <1>4, <1>5, <1>6, <1>7 DEF Next

LEMMA NumberStep ==
  ASSUME TypeOK, SessionInv, MayTimeout = FALSE, [Next]_vars, Others = {}
  PROVE  InvNumber'
<1> USE HBAAssumption DEF TypeOK, CreatePcs, CompletePcs, Disks
<1>1. ASSUME NEW c \in Calls, CreateDevice(c) PROVE InvNumber'
  <2>1. CASE Acquire(c)
    BY <2>1 DEF Acquire, SessionInv, CreationInv, InvNumber, InvCompleter
  <2>2. CASE Enable(c)
    BY <2>2 DEF Enable, AddDisk, InvEvents, SessionInv, CreationInv, InvNumber, InvCompleter
  <2>3. CASE Receive(c)
    BY <2>3 DEF Receive, SessionInv, CreationInv, InvNumber, InvCompleter
  <2>4. CASE Clear(c)
    BY <2>4 DEF Clear, SessionInv, CreationInv, InvNumber, InvCompleter
  <2>5. CASE (\E v \in Volumes : Call(c, v)) \/ Refuse(c) \/ Clean(c) \/ NewFails(c) \/
            Open(c) \/ EnableFails(c) \/ SetInitializing(c) \/ CloseFailed(c)
    BY <2>5
       DEF Call, Refuse, Clean, NewFails, Open, EnableFails, SetInitializing, CloseFailed,
           Close, CloseDone, CloseFails, SessionInv, CreationInv, InvNumber, InvCompleter
  <2> QED BY <1>1, <2>1, <2>2, <2>3, <2>4, <2>5 DEF CreateDevice
<1>2. ASSUME NEW c \in Calls, CreateDeviceComplete(c) PROVE InvNumber'
  <2>1. CASE TakeEvent(c)
    BY <2>1, TakeOwn DEF TakeEvent, NextEvent, SessionInv, CreationInv, InvNumber, InvCompleter
  <2>2. CASE SkipEvent(c)
    BY <2>2 DEF SkipEvent, NextEvent, SessionInv, CreationInv, InvNumber, InvCompleter
  <2>3. CASE Timeout(c)
    BY <2>3 DEF Timeout, TimerFires, SessionInv, CreationInv, InvNumber, InvCompleter
  <2>4. CASE Look(c)
    BY <2>4 DEF Look, SessionInv, CreationInv, InvNumber, InvCompleter
  <2>5. CASE GiveUp(c)
    BY <2>5 DEF GiveUp, SessionInv, CreationInv, InvNumber, InvCompleter
  <2>6. CASE SetNumber(c)
    BY <2>6, Working DEF SetNumber, SessionInv, CreationInv, InvNumber, InvCompleter
  <2>7. CASE MakeNode(c)
    BY <2>7, Working DEF MakeNode, SessionInv, CreationInv, InvNumber, InvCompleter
  <2>8. CASE Register(c)
    BY <2>8 DEF Register, SessionInv, CreationInv, InvNumber, InvCompleter
  <2>9. CASE Panic(c)
    BY <2>9 DEF Panic, SessionInv, CreationInv, InvNumber, InvCompleter
  <2> QED BY <1>2, <2>1, <2>2, <2>3, <2>4, <2>5, <2>6, <2>7, <2>8, <2>9 DEF CreateDeviceComplete
<1>3. CASE MonitorDeviceEvent
  BY <1>3, MonitorFrame DEF SessionInv, CreationInv, InvNumber, InvCompleter
<1>4. CASE RemoveDevice
  BY <1>4, RemoveFrame DEF SessionInv, CreationInv, InvNumber, InvCompleter
<1>5. CASE Stop
  BY <1>5, StopFrame DEF SessionInv, CreationInv, InvNumber, InvCompleter
<1>6. CASE Kernel
  BY <1>6, KernelFrame DEF SessionInv, CreationInv, InvNumber, InvCompleter
<1>7. CASE UNCHANGED vars
  BY <1>7 DEF vars, SessionInv, CreationInv, InvNumber, InvCompleter
<1> QED BY <1>1, <1>2, <1>3, <1>4, <1>5, <1>6, <1>7 DEF Next

(* SessionInv: as long as no creation outlasts its timer, the mutex and    *)
(* vbdInitializing together admit one creation at a time.                  *)
THEOREM SessionCorrect ==
  ASSUME MayTimeout = FALSE
  PROVE  Spec => []SessionInv
<1>1. Init => SessionInv
  BY HBAAssumption, CreationInit DEF Init, SessionInv, InvSession, Session, Active, MustUnlock,
     InvEvents, Pending, InvNumber
<1>2. TypeOK /\ SessionInv /\ [Next]_vars => SessionInv'
  <2> SUFFICES ASSUME TypeOK, SessionInv, [Next]_vars PROVE SessionInv'
    OBVIOUS
  <2>1. InvSession'
    BY SessionStep
  <2>2. CreationInv'
    BY <2>1, CreationStep DEF SessionInv, InvSession, InvOne, Session
  <2>3. Others = {} => InvEvents' /\ InvNumber'
    BY EventsStep, NumberStep
  <2> QED BY <2>1, <2>2, <2>3 DEF SessionInv
<1> QED BY <1>1, <1>2, HBATypeCorrect, PTL DEF Spec

(* NeverNil: vbdInitializing is not nil where a completer dereferences it. *)
THEOREM NoNilDereference ==
  ASSUME MayTimeout = FALSE
  PROVE  Spec => []NeverNil
<1>1. SessionInv => NeverNil
  BY DEF SessionInv, CreationInv, NeverNil
<1> QED BY <1>1, SessionCorrect, PTL

(* OwnNumber: CreateDevice returns a device only with the number of its    *)
(* own disk, where no event can be late and no other program makes disks.  *)
THEOREM NumbersOwn ==
  ASSUME MayTimeout = FALSE, Others = {}
  PROVE  Spec => []OwnNumber
<1>1. SessionInv => OwnNumber
  BY DEF SessionInv, CreationInv, InvNumber, InvReturned, OwnNumber
<1> QED BY <1>1, SessionCorrect, PTL

-----------------------------------------------------------------------------
(* RegisteredInv: where the open devices are, of either invariant.         *)

LEMMA RegisteredStep ==
  ASSUME TypeOK, CreationInv, RegisteredInv, [Next]_vars
  PROVE  InvRegistered'
<1> USE HBAAssumption DEF TypeOK, CreatePcs, CompletePcs, Disks
<1>1. ASSUME NEW c \in Calls, CreateDevice(c) PROVE InvRegistered'
  <2>1. ASSUME NEW v \in Volumes, Call(c, v) PROVE InvRegistered'
    <3>1. c \notin opened /\ ~Registered(c)
      BY <2>1 DEF Call, RegisteredInv, InvOpen, InvRemoved
    <3>2. \A d \in Calls : Reported(d)' => Reported(d)
      BY <2>1 DEF Call, Reported
    <3>3. \A d \in Calls : d # c => name'[d] = name[d]
      BY <2>1 DEF Call
    <3>4. UNCHANGED <<opened, vbds, forgotten>>
      BY <2>1 DEF Call
    <3> QED BY <3>1, <3>2, <3>3, <3>4 DEF RegisteredInv, InvRegistered, Registered
  <2>2. CASE Open(c)
    BY <2>2
       DEF Open, CreationInv, RegisteredInv, InvRegistered, Reported, InvReturned,
           InvCompleter, InvRemoved, InvOpen, Registered
  <2>3. CASE EnableFails(c)
    BY <2>3
       DEF EnableFails, CreationInv, RegisteredInv, InvRegistered, Reported, InvReturned,
           InvCompleter, InvRemoved, InvOpen, Registered
  <2>4. CASE Receive(c)
    BY <2>4
       DEF Receive, CreationInv, RegisteredInv, InvRegistered, Reported, InvReturned,
           InvCompleter, InvRemoved, InvOpen, Registered
  <2>5. CASE CloseFailed(c)
    BY <2>5
       DEF CloseFailed, Close, CloseDone, CloseFails, CreationInv, RegisteredInv,
           InvRegistered, Reported, InvReturned, InvCompleter, InvRemoved, InvOpen,
           Registered
  <2>6. CASE Clear(c)
    BY <2>6
       DEF Clear, CreationInv, RegisteredInv, InvRegistered, Reported, InvReturned,
           InvCompleter, InvRemoved, InvOpen, Registered
  <2>7. CASE Refuse(c) \/ Acquire(c) \/ Clean(c) \/ NewFails(c) \/ Enable(c) \/
            SetInitializing(c)
    BY <2>7
       DEF Refuse, Acquire, Clean, NewFails, Enable, AddDisk, SetInitializing, CreationInv,
           RegisteredInv, InvRegistered, Reported, InvReturned, InvCompleter, InvRemoved,
           InvOpen, Registered
  <2> QED BY <1>1, <2>1, <2>2, <2>3, <2>4, <2>5, <2>6, <2>7 DEF CreateDevice
<1>2. ASSUME NEW c \in Calls, CreateDeviceComplete(c) PROVE InvRegistered'
  <2>1. CASE TakeEvent(c)
    BY <2>1
       DEF TakeEvent, NextEvent, CreationInv, RegisteredInv, InvRegistered, Reported,
           InvReturned, InvCompleter, InvRemoved, InvOpen, Registered
  <2>2. CASE SkipEvent(c)
    BY <2>2
       DEF SkipEvent, NextEvent, CreationInv, RegisteredInv, InvRegistered, Reported,
           InvReturned, InvCompleter, InvRemoved, InvOpen, Registered
  <2>3. CASE Timeout(c)
    BY <2>3
       DEF Timeout, TimerFires, CreationInv, RegisteredInv, InvRegistered, Reported,
           InvReturned, InvCompleter, InvRemoved, InvOpen, Registered
  <2>4. CASE Look(c)
    BY <2>4
       DEF Look, CreationInv, RegisteredInv, InvRegistered, Reported, InvReturned,
           InvCompleter, InvRemoved, InvOpen, Registered
  <2>5. CASE GiveUp(c)
    BY <2>5
       DEF GiveUp, CreationInv, RegisteredInv, InvRegistered, Reported, InvReturned,
           InvCompleter, InvRemoved, InvOpen, Registered
  <2>6. CASE SetNumber(c)
    BY <2>6
       DEF SetNumber, CreationInv, RegisteredInv, InvRegistered, Reported, InvReturned,
           InvCompleter, InvRemoved, InvOpen, Registered
  <2>7. CASE MakeNode(c)
    BY <2>7, Working
       DEF MakeNode, CreationInv, RegisteredInv, InvRegistered, Reported, InvReturned,
           InvCompleter, InvRemoved, InvOpen, Registered
  <2>8. CASE Register(c)
    BY <2>8, Working
       DEF Register, CreationInv, RegisteredInv, InvRegistered, Reported, InvReturned,
           InvCompleter, InvRemoved, InvOpen, Registered
  <2>9. CASE Panic(c)
    BY <2>9
       DEF Panic, CreationInv, RegisteredInv, InvRegistered, Reported, InvReturned,
           InvCompleter, InvRemoved, InvOpen, Registered
  <2> QED BY <1>2, <2>1, <2>2, <2>3, <2>4, <2>5, <2>6, <2>7, <2>8, <2>9 DEF CreateDeviceComplete
<1>3. CASE MonitorDeviceEvent
  BY <1>3, MonitorFrame
     DEF CreationInv, RegisteredInv, InvRegistered, Reported, InvReturned, InvCompleter,
         InvRemoved, InvOpen, Registered
<1>4. CASE RemoveDevice
  <2>1. ASSUME NEW v \in Volumes, Remove(v) PROVE InvRegistered'
    BY <2>1
       DEF Remove, CreationInv, RegisteredInv, InvRegistered, Reported, InvReturned,
           InvCompleter, InvRemoved, InvOpen, Registered
  <2>2. CASE RemoveClose
    BY <2>2
       DEF RemoveClose, Close, CloseDone, CloseFails, CreationInv, RegisteredInv,
           InvRegistered, Reported, InvReturned, InvCompleter, InvRemoved, InvOpen,
           Registered
  <2>3. CASE RemoveDelete
    BY <2>3
       DEF RemoveDelete, CreationInv, RegisteredInv, InvRegistered, Reported, InvReturned,
           InvCompleter, InvRemoved, InvOpen, Registered
  <2> QED BY <1>4, <2>1, <2>2, <2>3 DEF RemoveDevice
<1>5. CASE Stop
  BY <1>5, StopFrame
     DEF CreationInv, RegisteredInv, InvRegistered, Reported, InvReturned, InvCompleter,
         InvRemoved, InvOpen, Registered
<1>6. CASE Kernel
  BY <1>6, KernelFrame
     DEF CreationInv, RegisteredInv, InvRegistered, Reported, InvReturned, InvCompleter,
         InvRemoved, InvOpen, Registered
<1>7. CASE UNCHANGED vars
  BY <1>7
     DEF vars, CreationInv, RegisteredInv, InvRegistered, Reported, InvReturned,
         InvCompleter, InvRemoved, InvOpen, Registered
<1> QED BY <1>1, <1>2, <1>3, <1>4, <1>5, <1>6, <1>7 DEF Next

LEMMA RemovedStep ==
  ASSUME TypeOK, CreationInv, RegisteredInv, [Next]_vars
  PROVE  InvRemoved'
<1> USE HBAAssumption DEF TypeOK, CreatePcs, CompletePcs, Disks
<1>1. ASSUME NEW c \in Calls, CreateDevice(c) PROVE InvRemoved'
  <2>1. ASSUME NEW v \in Volumes, Call(c, v) PROVE InvRemoved'
    BY <2>1 DEF Call, CreationInv, RegisteredInv, InvRemoved, Registered
  <2>2. CASE Refuse(c)
    BY <2>2 DEF Refuse, CreationInv, RegisteredInv, InvRemoved, Registered
  <2>3. CASE Acquire(c)
    BY <2>3 DEF Acquire, CreationInv, RegisteredInv, InvRemoved, Registered
  <2>4. CASE Clean(c)
    BY <2>4 DEF Clean, CreationInv, RegisteredInv, InvRemoved, Registered
  <2>5. CASE NewFails(c)
    BY <2>5 DEF NewFails, CreationInv, RegisteredInv, InvRemoved, Registered
  <2>6. CASE Open(c)
    BY <2>6 DEF Open, CreationInv, RegisteredInv, InvRemoved, Registered
  <2>7. CASE EnableFails(c)
    BY <2>7 DEF EnableFails, CreationInv, RegisteredInv, InvRemoved, Registered
  <2>8. CASE Enable(c)
    BY <2>8 DEF Enable, AddDisk, CreationInv, RegisteredInv, InvRemoved, Registered
  <2>9. CASE SetInitializing(c)
    BY <2>9 DEF SetInitializing, CreationInv, RegisteredInv, InvRemoved, Registered
  <2>10. CASE Receive(c)
    BY <2>10 DEF Receive, CreationInv, RegisteredInv, InvRemoved, Registered
  <2>11. CASE CloseFailed(c)
    BY <2>11
       DEF CloseFailed, Close, CloseDone, CloseFails, CreationInv, RegisteredInv,
           InvRemoved, Registered
  <2>12. CASE Clear(c)
    BY <2>12 DEF Clear, CreationInv, RegisteredInv, InvRemoved, Registered
  <2> QED BY <1>1, <2>1, <2>2, <2>3, <2>4, <2>5, <2>6, <2>7, <2>8, <2>9, <2>10, <2>11, <2>12
     DEF CreateDevice
<1>2. ASSUME NEW c \in Calls, CreateDeviceComplete(c) PROVE InvRemoved'
  <2>1. CASE Register(c)
    BY <2>1, Working DEF Register, CreationInv, RegisteredInv, InvRemoved, Registered
  <2>2. CASE TakeEvent(c) \/ SkipEvent(c) \/ Timeout(c) \/ Look(c) \/ GiveUp(c) \/
            SetNumber(c) \/ MakeNode(c) \/ Panic(c)
    BY <2>2
       DEF TakeEvent, NextEvent, SkipEvent, Timeout, TimerFires, Look, GiveUp, SetNumber,
           MakeNode, Panic, CreationInv, RegisteredInv, InvRemoved, Registered
  <2> QED BY <1>2, <2>1, <2>2 DEF CreateDeviceComplete
<1>3. CASE MonitorDeviceEvent
  BY <1>3, MonitorFrame DEF CreationInv, RegisteredInv, InvRemoved, Registered
<1>4. CASE RemoveDevice
  <2>1. ASSUME NEW v \in Volumes, Remove(v) PROVE InvRemoved'
    BY <2>1 DEF Remove, CreationInv, RegisteredInv, InvRemoved, Registered
  <2>2. CASE RemoveClose
    BY <2>2
       DEF RemoveClose, Close, CloseDone, CloseFails, CreationInv, RegisteredInv,
           InvRemoved, Registered
  <2>3. CASE RemoveDelete
    BY <2>3 DEF RemoveDelete, CreationInv, RegisteredInv, InvRemoved, Registered
  <2> QED BY <1>4, <2>1, <2>2, <2>3 DEF RemoveDevice
<1>5. CASE Stop
  <2>1. CASE StopBegins
    BY <2>1 DEF StopBegins, CreationInv, RegisteredInv, InvRemoved, Registered
  <2>2. ASSUME NEW v \in Volumes, StopNext(v) PROVE InvRemoved'
    BY <2>2 DEF StopNext, CreationInv, RegisteredInv, InvRemoved, Registered
  <2>3. CASE StopEnds
    BY <2>3 DEF StopEnds, CreationInv, RegisteredInv, InvRemoved, Registered
  <2> QED BY <1>5, <2>1, <2>2, <2>3 DEF Stop
<1>6. CASE Kernel
  BY <1>6, KernelFrame DEF CreationInv, RegisteredInv, InvRemoved, Registered
<1>7. CASE UNCHANGED vars
  BY <1>7 DEF vars, CreationInv, RegisteredInv, InvRemoved, Registered
<1> QED BY <1>1, <1>2, <1>3, <1>4, <1>5, <1>6, <1>7 DEF Next

LEMMA OpenStep ==
  ASSUME TypeOK, CreationInv, RegisteredInv, [Next]_vars
  PROVE  InvOpen'
<1> USE HBAAssumption DEF TypeOK, CreatePcs, CompletePcs, Disks
<1>1. ASSUME NEW c \in Calls, CreateDevice(c) PROVE InvOpen'
  <2>1. ASSUME NEW v \in Volumes, Call(c, v) PROVE InvOpen'
    BY <2>1 DEF Call, CreationInv, RegisteredInv, InvOpen
  <2>2. CASE Refuse(c)
    BY <2>2 DEF Refuse, CreationInv, RegisteredInv, InvOpen
  <2>3. CASE Acquire(c)
    BY <2>3 DEF Acquire, CreationInv, RegisteredInv, InvOpen
  <2>4. CASE Clean(c)
    BY <2>4 DEF Clean, CreationInv, RegisteredInv, InvOpen
  <2>5. CASE NewFails(c)
    BY <2>5 DEF NewFails, CreationInv, RegisteredInv, InvOpen
  <2>6. CASE Open(c)
    BY <2>6 DEF Open, CreationInv, RegisteredInv, InvOpen
  <2>7. CASE EnableFails(c)
    BY <2>7 DEF EnableFails, CreationInv, RegisteredInv, InvOpen
  <2>8. CASE Enable(c)
    BY <2>8 DEF Enable, AddDisk, CreationInv, RegisteredInv, InvOpen
  <2>9. CASE SetInitializing(c)
    BY <2>9 DEF SetInitializing, CreationInv, RegisteredInv, InvOpen
  <2>10. CASE Receive(c)
    BY <2>10 DEF Receive, InvReturned, CreationInv, RegisteredInv, InvOpen
  <2>11. CASE CloseFailed(c)
    BY <2>11
       DEF CloseFailed, Close, CloseDone, CloseFails, InvReturned, CreationInv,
           RegisteredInv, InvOpen
  <2>12. CASE Clear(c)
    BY <2>12 DEF Clear, CreationInv, RegisteredInv, InvOpen
  <2> QED BY <1>1, <2>1, <2>2, <2>3, <2>4, <2>5, <2>6, <2>7, <2>8, <2>9, <2>10, <2>11, <2>12
     DEF CreateDevice
<1>2. ASSUME NEW c \in Calls, CreateDeviceComplete(c) PROVE InvOpen'
  <2>1. CASE Timeout(c)
    BY <2>1 DEF Timeout, TimerFires, InvCompleter, CreationInv, RegisteredInv, InvOpen
  <2>2. CASE MakeNode(c)
    BY <2>2, Working DEF MakeNode, CreationInv, RegisteredInv, InvOpen
  <2>3. CASE Register(c)
    BY <2>3, Working DEF Register, CreationInv, RegisteredInv, InvOpen
  <2>4. CASE TakeEvent(c) \/ SkipEvent(c) \/ Look(c) \/ GiveUp(c) \/ SetNumber(c) \/
            Panic(c)
    BY <2>4
       DEF TakeEvent, NextEvent, SkipEvent, Look, GiveUp, SetNumber, Panic, CreationInv,
           RegisteredInv, InvOpen
  <2> QED BY <1>2, <2>1, <2>2, <2>3, <2>4 DEF CreateDeviceComplete
<1>3. CASE MonitorDeviceEvent
  BY <1>3, MonitorFrame DEF CreationInv, RegisteredInv, InvOpen
<1>4. CASE RemoveDevice
  <2>1. ASSUME NEW v \in Volumes, Remove(v) PROVE InvOpen'
    BY <2>1 DEF Remove, CreationInv, RegisteredInv, InvOpen
  <2>2. CASE RemoveClose
    BY <2>2 DEF RemoveClose, Close, CloseDone, CloseFails, CreationInv, RegisteredInv, InvOpen
  <2>3. CASE RemoveDelete
    BY <2>3 DEF RemoveDelete, CreationInv, RegisteredInv, InvOpen
  <2> QED BY <1>4, <2>1, <2>2, <2>3 DEF RemoveDevice
<1>5. CASE Stop
  BY <1>5, StopFrame DEF CreationInv, RegisteredInv, InvOpen
<1>6. CASE Kernel
  BY <1>6, KernelFrame DEF CreationInv, RegisteredInv, InvOpen
<1>7. CASE UNCHANGED vars
  BY <1>7 DEF vars, CreationInv, RegisteredInv, InvOpen
<1> QED BY <1>1, <1>2, <1>3, <1>4, <1>5, <1>6, <1>7 DEF Next

LEMMA RegisteredInvStep ==
  ASSUME TypeOK, CreationInv, RegisteredInv, [Next]_vars
  PROVE  RegisteredInv'
BY RegisteredStep, RemovedStep, OpenStep DEF RegisteredInv

LEMMA RegisteredInit == Init => RegisteredInv
BY HBAAssumption DEF Init, RegisteredInv, InvRegistered, Reported, InvRemoved, Registered, InvOpen

LEMMA Accounted ==
  ASSUME TypeOK, CreationInv, RegisteredInv
  PROVE  OpenIsAccounted
<1> SUFFICES ASSUME NEW c \in opened, create[c] \in Outside, c \notin forgotten
             PROVE  Registered(c)
  BY DEF OpenIsAccounted
<1> USE DEF TypeOK
<1>1. create[c] = "ok"
  BY DEF RegisteredInv, InvOpen, Outside, Returned
<1>2. Reported(c)
  BY <1>1 DEF CreationInv, InvReturned, Reported
<1> QED BY <1>1, <1>2 DEF RegisteredInv, InvRegistered, Registered

(* RegisteredInv: whoever else works and whatever fails, a device reported *)
(* as created is in the map under its name as long as it is open and no    *)
(* error dropped it.                                                       *)
THEOREM RegisteredCorrect ==
  ASSUME MayTimeout = FALSE
  PROVE  Spec => []RegisteredInv
<1>1. TypeOK /\ SessionInv /\ RegisteredInv /\ [Next]_vars => RegisteredInv'
  BY RegisteredInvStep DEF SessionInv
<1> QED BY <1>1, RegisteredInit, HBATypeCorrect, SessionCorrect, PTL DEF Spec

(* OpenIsAccounted: a device that is open and not in the map is one that   *)
(* an error dropped, or its CreateDevice is still at work.                 *)
THEOREM OpenAccounted ==
  ASSUME MayTimeout = FALSE
  PROVE  Spec => []OpenIsAccounted
<1>1. TypeOK /\ SessionInv /\ RegisteredInv => OpenIsAccounted
  BY Accounted DEF SessionInv
<1> QED BY <1>1, HBATypeCorrect, SessionCorrect, RegisteredCorrect, PTL

-----------------------------------------------------------------------------
(* SequentialInv: one call at a time, and timers that fire.                *)

LEMMA AloneStep ==
  ASSUME TypeOK, SequentialInv, [Next]_vars, ~overlapped'
  PROVE  InvAlone'
<1> USE HBAAssumption DEF TypeOK, CreatePcs, CompletePcs, Disks
<1>1. ASSUME NEW c \in Calls, CreateDevice(c) PROVE InvAlone'
  <2>1. ASSUME NEW v \in Volumes, Call(c, v) PROVE InvAlone'
    BY <2>1 DEF Call, Begin, Quiet, SequentialInv, InvAlone, Busy, Outside, Returned
  <2>2. CASE Refuse(c)
    BY <2>2 DEF Refuse, SequentialInv, InvAlone, Busy, Outside, Returned
  <2>3. CASE Acquire(c)
    BY <2>3 DEF Acquire, SequentialInv, InvAlone, Busy, Outside, Returned
  <2>4. CASE Clean(c)
    BY <2>4 DEF Clean, SequentialInv, InvAlone, Busy, Outside, Returned
  <2>5. CASE NewFails(c)
    BY <2>5 DEF NewFails, SequentialInv, InvAlone, Busy, Outside, Returned
  <2>6. CASE Open(c)
    BY <2>6 DEF Open, SequentialInv, InvAlone, Busy, Outside, Returned
  <2>7. CASE EnableFails(c)
    BY <2>7 DEF EnableFails, SequentialInv, InvAlone, Busy, Outside, Returned
  <2>8. CASE Enable(c)
    BY <2>8 DEF Enable, AddDisk, SequentialInv, InvAlone, Busy, Outside, Returned
  <2>9. CASE SetInitializing(c)
    BY <2>9 DEF SetInitializing, SequentialInv, InvAlone, Busy, Outside, Returned
  <2>10. CASE Receive(c)
    BY <2>10 DEF Receive, SequentialInv, InvAlone, Busy, Outside, Returned
  <2>11. CASE CloseFailed(c)
    BY <2>11
       DEF CloseFailed, Close, CloseDone, CloseFails, SequentialInv, InvAlone, Busy,
           Outside, Returned
  <2>12. CASE Clear(c)
    BY <2>12 DEF Clear, SequentialInv, InvAlone, Busy, Outside, Returned
  <2> QED BY <1>1, <2>1, <2>2, <2>3, <2>4, <2>5, <2>6, <2>7, <2>8, <2>9, <2>10, <2>11, <2>12
     DEF CreateDevice
<1>2. ASSUME NEW c \in Calls, CreateDeviceComplete(c) PROVE InvAlone'
  BY <1>2, CompleteFrame DEF SequentialInv, InvAlone, Busy, Outside, Returned
<1>3. CASE MonitorDeviceEvent
  BY <1>3, MonitorFrame DEF SequentialInv, InvAlone, Busy, Outside, Returned
<1>4. CASE RemoveDevice
  <2>1. ASSUME NEW v \in Volumes, Remove(v) PROVE InvAlone'
    BY <2>1 DEF Remove, Begin, Quiet, SequentialInv, InvAlone, Busy, Outside, Returned
  <2>2. CASE RemoveClose
    BY <2>2
       DEF RemoveClose, Close, CloseDone, CloseFails, SequentialInv, InvAlone, Busy,
           Outside, Returned
  <2>3. CASE RemoveDelete
    BY <2>3 DEF RemoveDelete, SequentialInv, InvAlone, Busy, Outside, Returned
  <2> QED BY <1>4, <2>1, <2>2, <2>3 DEF RemoveDevice
<1>5. CASE Stop
  <2>1. CASE StopBegins
    BY <2>1 DEF StopBegins, Begin, Quiet, SequentialInv, InvAlone, Busy, Outside, Returned
  <2>2. ASSUME NEW v \in Volumes, StopNext(v) PROVE InvAlone'
    BY <2>2 DEF StopNext, SequentialInv, InvAlone, Busy, Outside, Returned
  <2>3. CASE StopEnds
    BY <2>3 DEF StopEnds, SequentialInv, InvAlone, Busy, Outside, Returned
  <2> QED BY <1>5, <2>1, <2>2, <2>3 DEF Stop
<1>6. CASE Kernel
  BY <1>6, KernelFrame DEF SequentialInv, InvAlone, Busy, Outside, Returned
<1>7. CASE UNCHANGED vars
  BY <1>7 DEF vars, SequentialInv, InvAlone, Busy, Outside, Returned
<1> QED BY <1>1, <1>2, <1>3, <1>4, <1>5, <1>6, <1>7 DEF Next

LEMMA OneStep ==
  ASSUME TypeOK, SequentialInv, UnlockPaired, [Next]_vars
  PROVE  InvOne'
<1> USE HBAAssumption DEF TypeOK, CreatePcs, CompletePcs, Disks
<1>1. ASSUME NEW c \in Calls, CreateDevice(c) PROVE InvOne'
  <2>1. CASE Acquire(c)
    BY <2>1
       DEF Acquire, SequentialInv, CreationInv, InvOne, InvAlone, Busy, Outside, Returned,
           UnlockPaired, Session, Active, MustUnlock
  <2>2. CASE (\E v \in Volumes : Call(c, v)) \/ Refuse(c) \/ Clean(c) \/ NewFails(c) \/
            Open(c) \/ EnableFails(c) \/ Enable(c) \/ SetInitializing(c) \/ Receive(c) \/
            CloseFailed(c) \/ Clear(c)
    BY <2>2
       DEF Call, Refuse, Clean, NewFails, Open, EnableFails, Enable, AddDisk,
           SetInitializing, Receive, CloseFailed, Close, CloseDone, CloseFails, Clear,
           SequentialInv, CreationInv, InvOne, InvAlone, Busy, Outside, Returned,
           UnlockPaired, Session, Active, MustUnlock
  <2> QED BY <1>1, <2>1, <2>2 DEF CreateDevice
<1>2. ASSUME NEW c \in Calls, CreateDeviceComplete(c) PROVE InvOne'
  <2>1. CASE Timeout(c)
    BY <2>1
       DEF Timeout, TimerFires, SequentialInv, CreationInv, InvOne, InvAlone, Busy, Outside,
           Returned, UnlockPaired, Session, Active, MustUnlock
  <2>2. CASE TakeEvent(c) \/ SkipEvent(c) \/ Look(c) \/ GiveUp(c) \/ SetNumber(c) \/
            MakeNode(c) \/ Register(c) \/ Panic(c)
    BY <2>2
       DEF TakeEvent, NextEvent, SkipEvent, Look, GiveUp, SetNumber, MakeNode, Register,
           Panic, SequentialInv, CreationInv, InvOne, InvAlone, Busy, Outside, Returned,
           UnlockPaired, Session, Active, MustUnlock
  <2> QED BY <1>2, <2>1, <2>2 DEF CreateDeviceComplete
<1>3. CASE MonitorDeviceEvent
  BY <1>3, MonitorFrame
     DEF SequentialInv, CreationInv, InvOne, InvAlone, Busy, Outside, Returned,
         UnlockPaired, Session, Active, MustUnlock
<1>4. CASE RemoveDevice
  BY <1>4, RemoveFrame
     DEF SequentialInv, CreationInv, InvOne, InvAlone, Busy, Outside, Returned,
         UnlockPaired, Session, Active, MustUnlock
<1>5. CASE Stop
  BY <1>5, StopFrame
     DEF SequentialInv, CreationInv, InvOne, InvAlone, Busy, Outside, Returned,
         UnlockPaired, Session, Active, MustUnlock
<1>6. CASE Kernel
  BY <1>6, KernelFrame
     DEF SequentialInv, CreationInv, InvOne, InvAlone, Busy, Outside, Returned,
         UnlockPaired, Session, Active, MustUnlock
<1>7. CASE UNCHANGED vars
  BY <1>7
     DEF vars, SequentialInv, CreationInv, InvOne, InvAlone, Busy, Outside, Returned,
         UnlockPaired, Session, Active, MustUnlock
<1> QED BY <1>1, <1>2, <1>3, <1>4, <1>5, <1>6, <1>7 DEF Next

LEMMA OverlapKept == [Next]_vars /\ ~overlapped' => ~overlapped
<1> SUFFICES ASSUME [Next]_vars, overlapped PROVE overlapped'
  OBVIOUS
<1>1. ASSUME NEW c \in Calls, CreateDevice(c) PROVE overlapped'
  BY <1>1 DEF CreateDevice, Call, Begin, Refuse, Acquire, Clean, NewFails, Open, EnableFails,
     Enable, SetInitializing, Receive, CloseFailed, Clear
<1>2. ASSUME NEW c \in Calls, CreateDeviceComplete(c) PROVE overlapped'
  BY <1>2, CompleteFrame
<1>3. CASE MonitorDeviceEvent
  BY <1>3, MonitorFrame
<1>4. CASE RemoveDevice
  BY <1>4 DEF RemoveDevice, Remove, Begin, RemoveClose, RemoveDelete
<1>5. CASE Stop
  BY <1>5 DEF Stop, StopBegins, Begin, StopNext, StopEnds
<1>6. CASE Kernel
  BY <1>6 DEF Kernel, OtherComes, OtherGoes
<1>7. CASE UNCHANGED vars
  BY <1>7 DEF vars
<1> QED BY <1>1, <1>2, <1>3, <1>4, <1>5, <1>6, <1>7 DEF Next

(* AloneInv: as long as no two calls of the HBA were in progress at once,  *)
(* SequentialInv holds, with every failure, timers that fire, disks of     *)
(* other programs and numbers that are used again.                         *)
THEOREM SequentialCorrect == Spec => []AloneInv
<1>1. Init => AloneInv
  <2> SUFFICES ASSUME Init PROVE InvAlone
    BY CreationInit, RegisteredInit DEF AloneInv, SequentialInv
  <2> QED BY DEF Init, InvAlone, Busy, Outside
<1>2. TypeOK /\ UnlockPaired /\ AloneInv /\ [Next]_vars => AloneInv'
  <2> SUFFICES ASSUME TypeOK, UnlockPaired, AloneInv, [Next]_vars, ~overlapped'
               PROVE  SequentialInv'
    BY DEF AloneInv
  <2>1. SequentialInv
    BY OverlapKept DEF AloneInv
  <2>2. InvAlone' /\ InvOne'
    BY <2>1, AloneStep, OneStep
  <2>3. CreationInv' /\ RegisteredInv'
    BY <2>1, <2>2, CreationStep, RegisteredInvStep DEF SequentialInv
  <2> QED BY <2>2, <2>3 DEF SequentialInv
<1> QED BY <1>1, <1>2, HBATypeCorrect, UnlockMeetsLock, PTL DEF Spec

(* NeverNil and OpenIsAccounted again, whatever is late, as long as no two *)
(* calls were in progress at once.                                         *)
THEOREM NoNilAlone ==
  Spec => [](overlapped \/ (NeverNil /\ OpenIsAccounted))
<1>1. TypeOK /\ AloneInv => overlapped \/ (NeverNil /\ OpenIsAccounted)
  BY Accounted DEF AloneInv, SequentialInv, CreationInv, NeverNil
<1> QED BY <1>1, HBATypeCorrect, SequentialCorrect, PTL

-----------------------------------------------------------------------------
(* The refinement of Registry.                                             *)

(* Who waits for the mutex waits beside one that has it.                   *)
OneByOne ==
  \A c, d \in Calls : create[c] = "lock" /\ Active(d) => locked \/ vbdInitializing # None

LEMMA SessionOneByOne == SessionInv => OneByOne
BY HBAAssumption DEF SessionInv, InvSession, Session, OneByOne

LEMMA SequentialOneByOne == SequentialInv => OneByOne
BY DEF SequentialInv, InvAlone, Busy, Outside, Returned, OneByOne, Active

(* A call under way in the code is under way in Registry.                  *)
LEMMA ActivePhase ==
  ASSUME TypeOK, NEW c \in Calls
  PROVE  Phase(c) \in {"in", "made"} <=> Active(c)
BY DEF TypeOK, CreatePcs, Phase, Made, Returned, Active

LEMMA NamesKept ==
  ASSUME UNCHANGED <<vbds, name>>, \A d \in Calls : Phase(d)' = Phase(d),
         \A d \in Calls : disk'[d] = disk[d],
         \A d \in Calls : Phase(d) \in {"made", "ok"} => number'[d] = number[d]
  PROVE  UNCHANGED Names!vars
BY DEF Names!vars

LEMMA NamesTurn ==
  ASSUME NEW c \in Calls, NEW from, NEW to, Phase(c) = from, Phase(c)' = to,
         \A d \in Calls \ {c} : Phase(d)' = Phase(d)
  PROVE  Names!Turn(c, from, to)
BY DEF Names!Turn

LEMMA NumberGiven ==
  ASSUME NEW c \in Calls, NEW n, Phase(c)' = "made", number'[c] = n, disk[c] # None,
         ~MayTimeout /\ Others = {} => n = disk[c],
         vbds' = [vbds EXCEPT ![name[c]] = c], UNCHANGED <<name, disk>>,
         \A d \in Calls \ {c} : Phase(d)' = Phase(d) /\ number'[d] = number[d],
         Names!Turn(c, "in", "made")
  PROVE  Names!Make(c, n)
<1> DEFINE m == [d \in Calls |-> IF Phase(d) \in {"made", "ok"} THEN number[d] ELSE None]
<1>1. \A d \in Calls : m'[d] = [m EXCEPT ![c] = n][d]
  OBVIOUS
<1>2. m' = [m EXCEPT ![c] = n]
  BY <1>1
<1>3. UNCHANGED <<name, [d \in Calls |-> disk[d]]>>
  OBVIOUS
<1> QED BY <1>2, <1>3 DEF Names!Make

LEMMA NamesStep ==
  ASSUME TypeOK, CreationInv, OneByOne, ~MayTimeout /\ Others = {} => InvNumber, [Next]_vars
  PROVE  [Names!Next]_(Names!vars)
<1> USE HBAAssumption DEF TypeOK, CreatePcs, CompletePcs, Disks
<1>1. ASSUME NEW c \in Calls, CreateDevice(c) PROVE [Names!Next]_(Names!vars)
  <2>1. ASSUME NEW v \in Volumes, Call(c, v) PROVE Names!Next
    <3>1. Names!Turn(c, "out", "asked")
      BY <2>1, NamesTurn DEF Call, Phase, Made, Returned
    <3>2. \A d \in Calls : Phase(d) \in {"made", "ok"} <=> Phase(d)' \in {"made", "ok"}
      BY <2>1 DEF Call, Phase, Made, Returned
    <3> QED BY <2>1, <3>1, <3>2 DEF Call, Names!Next, Names!Ask
  <2>2. CASE Refuse(c)
    <3>1. Names!Turn(c, "asked", "refused")
      BY <2>2, NamesTurn DEF Refuse, Phase, Made, Returned
    <3>2. \E d \in Calls : Active(d)
      BY <2>2 DEF Refuse, CreationInv, InvInitializing, Active
    <3>3. Names!UnderWay
      BY <3>2, ActivePhase DEF Names!UnderWay
    <3>4. \A d \in Calls : Phase(d) \in {"made", "ok"} <=> Phase(d)' \in {"made", "ok"}
      BY <2>2 DEF Refuse, Phase, Made, Returned
    <3> QED BY <2>2, <3>1, <3>3, <3>4 DEF Refuse, Names!Next, Names!Refuse
  <2>3. CASE Acquire(c)
    <3>1. Names!Turn(c, "asked", "in")
      BY <2>3, NamesTurn DEF Acquire, Phase, Made, Returned
    <3>2. \A d \in Calls : ~Active(d)
      BY <2>3 DEF Acquire, OneByOne
    <3>3. ~Names!UnderWay
      BY <3>2, ActivePhase DEF Names!UnderWay
    <3>4. \A d \in Calls : Phase(d) \in {"made", "ok"} <=> Phase(d)' \in {"made", "ok"}
      BY <2>3 DEF Acquire, Phase, Made, Returned
    <3> QED BY <2>3, <3>1, <3>3, <3>4 DEF Acquire, Names!Next, Names!Enter
  <2>4. CASE NewFails(c) \/ EnableFails(c)
    <3>1. Names!Turn(c, "in", "failed")
      BY <2>4, NamesTurn DEF NewFails, EnableFails, Phase, Made, Returned
    <3>2. \A d \in Calls : Phase(d) \in {"made", "ok"} <=> Phase(d)' \in {"made", "ok"}
      BY <2>4 DEF NewFails, EnableFails, Phase, Made, Returned
    <3> QED BY <2>4, <3>1, <3>2 DEF NewFails, EnableFails, Names!Next, Names!Fail
  <2>5. CASE Clear(c)
    <3>1. CASE result[c] = "SUCCESS"
      <4>1. Names!Turn(c, "made", "ok")
        BY <2>5, <3>1, NamesTurn DEF Clear, Phase, Made, Returned
      <4>2. \A d \in Calls : Phase(d) \in {"made", "ok"} <=> Phase(d)' \in {"made", "ok"}
        BY <2>5, <3>1 DEF Clear, Phase, Made, Returned
      <4> QED BY <2>5, <4>1, <4>2 DEF Clear, Names!Next, Names!Return
    <3>2. CASE result[c] # "SUCCESS"
      <4>1. Names!Turn(c, "in", "failed")
        BY <2>5, <3>2, NamesTurn DEF Clear, Phase, Made, Returned
      <4>2. \A d \in Calls : Phase(d) \in {"made", "ok"} <=> Phase(d)' \in {"made", "ok"}
        BY <2>5, <3>2 DEF Clear, Phase, Made, Returned
      <4> QED BY <2>5, <4>1, <4>2 DEF Clear, Names!Next, Names!Fail
    <3> QED BY <3>1, <3>2
  <2>6. CASE Enable(c)
    <3>1. PICK n \in Numbers : disk' = [disk EXCEPT ![c] = n]
      BY <2>6 DEF Enable, AddDisk
    <3>2. disk[c] = None /\ Phase(c) = "in"
      BY <2>6 DEF Enable, CreationInv, InvGiven, Phase, Made, Returned
    <3>3. \A d \in Calls : Phase(d)' = Phase(d)
      BY <2>6 DEF Enable, Phase, Made, Returned
    <3>4. [d \in Calls |-> disk'[d]] = [[d \in Calls |-> disk[d]] EXCEPT ![c] = n]
      BY <3>1
    <3>5. UNCHANGED <<name, number, vbds>>
      BY <2>6 DEF Enable
    <3>6. \A d \in Calls : Phase(d) \in {"made", "ok"} <=> Phase(d)' \in {"made", "ok"}
      BY <3>3
    <3>7. Names!Announce(c, n)
      BY <3>2, <3>3, <3>4, <3>5, <3>6 DEF Names!Announce
    <3> QED BY <3>7 DEF Names!Next
  <2>7. CASE Receive(c)
    <3>1. \A d \in Calls : Phase(d)' = Phase(d)
      BY <2>7 DEF Receive, Phase, Made, Returned
    <3> QED BY <2>7, <3>1, NamesKept DEF Receive
  <2>8. CASE SetInitializing(c)
    <3>1. \A d \in Calls : Phase(d)' = Phase(d)
      BY <2>8 DEF SetInitializing, CreationInv, InvCompleter, Phase, Made, Returned
    <3> QED BY <2>8, <3>1, NamesKept DEF SetInitializing
  <2>9. CASE CloseFailed(c)
    <3>1. \A d \in Calls : Phase(d)' = Phase(d)
      BY <2>9 DEF CloseFailed, CreationInv, InvReturned, Phase, Made, Returned
    <3> QED BY <2>9, <3>1, NamesKept DEF CloseFailed
  <2>10. CASE Clean(c) \/ Open(c)
    <3>1. \A d \in Calls : Phase(d)' = Phase(d)
      BY <2>10 DEF Clean, Open, Phase, Made, Returned
    <3> QED BY <2>10, <3>1, NamesKept DEF Clean, Open
  <2> QED BY <1>1, <2>1, <2>2, <2>3, <2>4, <2>5, <2>6, <2>7, <2>8, <2>9, <2>10 DEF CreateDevice
<1>2. ASSUME NEW c \in Calls, CreateDeviceComplete(c) PROVE [Names!Next]_(Names!vars)
  <2>1. CASE Register(c)
    <3>1. create[c] = "wait" /\ vbdInitializing = c /\ result[c] = "SUCCESS" /\ complete[c] = "register"
      BY <2>1, Working DEF Register, CreationInv, InvReturned
    <3>2. Names!Turn(c, "in", "made")
      BY <2>1, <3>1, NamesTurn DEF Register, Phase, Made, Returned
    <3>3. /\ Phase(c)' = "made"
          /\ \A d \in Calls \ {c} : Phase(d)' = Phase(d) /\ number'[d] = number[d]
      BY <2>1, <3>1 DEF Register, Phase, Made, Returned
    <3>4. vbds' = [vbds EXCEPT ![name[c]] = c] /\ UNCHANGED <<name, disk, number>>
      BY <2>1, <3>1 DEF Register
    <3>5. number[c] \in Numbers /\ disk[c] # None
      BY <3>1 DEF CreationInv, InvGiven
    <3>6. PICK n \in Numbers : n = number[c]
      BY <3>5
    <3>7. ~MayTimeout /\ Others = {} => n = disk[c]
      BY <3>1, <3>6 DEF InvNumber
    <3>8. Names!Make(c, n)
      BY <3>2, <3>3, <3>4, <3>5, <3>6, <3>7, NumberGiven
    <3> QED BY <3>6, <3>8 DEF Names!Next
  <2>2. CASE Timeout(c)
    <3>1. \A d \in Calls : Phase(d)' = Phase(d)
      BY <2>2 DEF Timeout, TimerFires, CreationInv, InvCompleter, Phase, Made, Returned
    <3> QED BY <2>2, <3>1, NamesKept DEF Timeout
  <2>3. CASE SetNumber(c)
    <3>1. create[c] = "wait" /\ vbdInitializing = c
      BY <2>3, Working DEF SetNumber
    <3>2. \A d \in Calls : Phase(d)' = Phase(d)
      BY <2>3 DEF SetNumber, Phase, Made, Returned
    <3>3. \A d \in Calls : Phase(d) \in {"made", "ok"} => number'[d] = number[d]
      BY <2>3, <3>1 DEF SetNumber, Phase, Made, Returned
    <3> QED BY <2>3, <3>2, <3>3, NamesKept DEF SetNumber
  <2>4. CASE MakeNode(c)
    <3>1. \A d \in Calls : Phase(d)' = Phase(d)
      BY <2>4, Working DEF MakeNode, Phase, Made, Returned
    <3> QED BY <2>4, <3>1, NamesKept DEF MakeNode
  <2>5. CASE TakeEvent(c) \/ SkipEvent(c) \/ Look(c) \/ GiveUp(c) \/ Panic(c)
    <3>1. \A d \in Calls : Phase(d)' = Phase(d)
      BY <2>5 DEF TakeEvent, SkipEvent, Look, GiveUp, Panic, Phase, Made, Returned
    <3> QED BY <2>5, <3>1, NamesKept DEF TakeEvent, SkipEvent, Look, GiveUp, Panic
  <2> QED BY <1>2, <2>1, <2>2, <2>3, <2>4, <2>5 DEF CreateDeviceComplete
<1>3. CASE MonitorDeviceEvent
  BY <1>3, MonitorFrame, NamesKept DEF Phase, Made
<1>4. CASE RemoveDevice
  <2>1. UNCHANGED <<create, name, complete, result, number, disk>>
    BY <1>4, RemoveFrame
  <2>2. \A d \in Calls : Phase(d)' = Phase(d)
    BY <2>1 DEF Phase, Made
  <2>3. CASE RemoveDelete
    <3>1. PICK v \in Volumes : vbds' = [vbds EXCEPT ![v] = None]
      BY <2>3 DEF RemoveDelete
    <3>2. CASE vbds[v] # None
      <4>1. Names!Remove(v)
        BY <2>1, <2>2, <3>1, <3>2 DEF Names!Remove
      <4> QED BY <4>1 DEF Names!Next
    <3>3. CASE vbds[v] = None
      <4>1. vbds' = vbds
        BY <3>1, <3>3
      <4> QED BY <2>1, <2>2, <4>1, NamesKept
    <3> QED BY <3>2, <3>3
  <2>4. CASE ~RemoveDelete
    <3>1. UNCHANGED vbds
      BY <1>4, <2>4 DEF RemoveDevice, Remove, RemoveClose
    <3> QED BY <2>1, <2>2, <3>1, NamesKept
  <2> QED BY <2>3, <2>4
<1>5. CASE Stop
  BY <1>5, StopFrame, NamesKept DEF Phase, Made
<1>6. CASE Kernel
  BY <1>6, KernelFrame, NamesKept DEF Phase, Made
<1>7. CASE UNCHANGED vars
  BY <1>7, NamesKept DEF vars, Phase, Made
<1> QED BY <1>1, <1>2, <1>3, <1>4, <1>5, <1>6, <1>7 DEF Next

LEMMA NamesInit == Init => Names!Init
<1> SUFFICES ASSUME Init PROVE Names!Init
  OBVIOUS
<1>1. \A c \in Calls : Phase(c) = "out"
  <2>1. \A c \in Calls : create[c] = "idle"
    BY DEF Init
  <2> QED BY <2>1 DEF Phase, Made, Returned
<1> QED BY <1>1 DEF Init, Names!Init, Disks

(* RegistrySpec: as long as no creation outlasts its timer, the goroutines *)
(* create devices as Registry says, one at a time and entered before they  *)
(* are returned, however many call CreateDevice; and each with its own     *)
(* number, if no other program makes disks.                                *)
THEOREM RegistryImplemented ==
  ASSUME MayTimeout = FALSE
  PROVE  Spec => RegistrySpec
<1>1. TypeOK /\ SessionInv /\ [Next]_vars => [Names!Next]_(Names!vars)
  BY SessionOneByOne, NamesStep DEF SessionInv
<1> QED BY <1>1, NamesInit, HBATypeCorrect, SessionCorrect, PTL DEF Spec, RegistrySpec, Names!Spec

(* RegistrySpec again, with timers that fire, as long as no two calls are  *)
(* in progress at once; whose number a device gets is then not said.       *)
THEOREM RegistryImplementedAlone ==
  ASSUME MayTimeout = TRUE
  PROVE  Spec /\ []~overlapped => RegistrySpec
<1>1. TypeOK /\ AloneInv /\ ~overlapped /\ [Next]_vars => [Names!Next]_(Names!vars)
  BY SequentialOneByOne, NamesStep DEF AloneInv, SequentialInv
<1> QED BY <1>1, NamesInit, HBATypeCorrect, SequentialCorrect, PTL DEF Spec, RegistrySpec, Names!Spec
=============================================================================
