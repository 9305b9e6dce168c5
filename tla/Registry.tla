------------------------------ MODULE Registry ------------------------------
(***************************************************************************)
(* What the HBA promises to those who create devices, with no mutex, no    *)
(* completer and no udev event: devices are created one at a time, a call  *)
(* is refused only beside another creation, and a device that is returned  *)
(* was entered under its name before, with the number the kernel gave to   *)
(* its disk where no other disk's event can be taken for its own.          *)
(***************************************************************************)
CONSTANTS
  Calls,     \* the calls of CreateDevice, and the devices they create
  Volumes,   \* names of devices
  Numbers,   \* numbers of disks
  None,      \* no name, no number, no device
  OwnEvents  \* TRUE: a device meets only the event of its own disk

VARIABLES
  phase,      \* of each call, what has become of it
  volume,     \* of each call, the name it asks for
  given,      \* of each device, the number the kernel gave it
  number,     \* of each device, the number it was made with
  registered  \* the device RemoveDevice and Stop find under each name

vars == <<phase, volume, given, number, registered>>

Phases == {"out", "asked", "in", "made", "ok", "failed", "refused"}

Init ==
  /\ phase = [c \in Calls |-> "out"]
  /\ volume = [c \in Calls |-> None]
  /\ given = [c \in Calls |-> None]
  /\ number = [c \in Calls |-> None]
  /\ registered = [v \in Volumes |-> None]

UnderWay == \E c \in Calls : phase[c] \in {"in", "made"}

Turn(c, from, to) ==
  /\ phase[c] = from
  /\ phase' = [phase EXCEPT ![c] = to]

Ask(c, v) ==
  /\ Turn(c, "out", "asked")
  /\ volume' = [volume EXCEPT ![c] = v]
  /\ UNCHANGED <<given, number, registered>>

Enter(c) == Turn(c, "asked", "in") /\ ~UnderWay /\ UNCHANGED <<volume, given, number, registered>>

Refuse(c) ==
  Turn(c, "asked", "refused") /\ UnderWay /\ UNCHANGED <<volume, given, number, registered>>

Announce(c, n) ==
  /\ phase[c] = "in" /\ given[c] = None
  /\ given' = [given EXCEPT ![c] = n]
  /\ UNCHANGED <<phase, volume, number, registered>>

Make(c, n) ==
  /\ Turn(c, "in", "made")
  /\ given[c] # None
  /\ OwnEvents => n = given[c]
  /\ number' = [number EXCEPT ![c] = n]
  /\ registered' = [registered EXCEPT ![volume[c]] = c]
  /\ UNCHANGED <<volume, given>>

Return(c) == Turn(c, "made", "ok") /\ UNCHANGED <<volume, given, number, registered>>

Fail(c) == Turn(c, "in", "failed") /\ UNCHANGED <<volume, given, number, registered>>

(* A device may be removed as soon as it is registered.                    *)
Remove(v) ==
  /\ registered[v] # None
  /\ registered' = [registered EXCEPT ![v] = None]
  /\ UNCHANGED <<phase, volume, given, number>>

Next ==
  \/ \E c \in Calls :
       \/ \E v \in Volumes : Ask(c, v)
       \/ \E n \in Numbers : Announce(c, n) \/ Make(c, n)
       \/ Enter(c) \/ Refuse(c) \/ Return(c) \/ Fail(c)
  \/ \E v \in Volumes : Remove(v)

Spec == Init /\ [][Next]_vars
=============================================================================
