------------------------------- MODULE HBAInv -------------------------------
(***************************************************************************)
(* Inductive invariants of HBA: SessionInv where no creation outlasts      *)
(* CREATE_TIMEOUT (MayTimeout = FALSE), however many goroutines call       *)
(* CreateDevice, and SequentialInv while the calls come one at a time,     *)
(* whatever is late.                                                       *)
(***************************************************************************)
EXTENDS HBA

(* A creation under way: after Lock, and until both CreateDevice has       *)
(* cleared vbdInitializing and its completer has unlocked.                 *)
Active(c) == create[c] \in {"new", "start", "enable", "set", "wait", "close", "clear"}
Session(c) == Active(c) \/ MustUnlock(c)

(* Beside a creation under way no completer has still to unlock.           *)
InvOne == \A c, d \in Calls : Active(c) /\ Session(d) => c = d

InvInitializing ==
  \A c \in Calls : vbdInitializing = c <=> create[c] \in {"wait", "close", "clear"}

(* How far the completer can be, given where its CreateDevice is; one that *)
(* has something to send before its CreateDevice waits for it has run into *)
(* the timeout.                                                            *)
InvCompleter ==
  \A c \in Calls :
    /\ create[c] \in {"idle", "lock", "refused"} => complete[c] = "idle"
    /\ create[c] \in {"new", "start", "enable", "set"} =>
         complete[c] \in {"select", "retry", "send", "gone"}
    /\ create[c] \in {"close", "clear", "ok"} => complete[c] = "end"
    /\ create[c] = "failed" => complete[c] \in {"select", "retry", "send", "end", "gone"}
    /\ complete[c] = "send" /\ create[c] # "wait" => result[c] = "TIMEOUT"

(* CreateDevice returns a device only after SUCCESS, and closes one only   *)
(* without it; it is registered only with it.                              *)
InvReturned ==
  \A c \in Calls :
    /\ create[c] = "ok" => result[c] = "SUCCESS"
    /\ create[c] = "close" => result[c] # "SUCCESS"
    /\ complete[c] = "register" => result[c] = "SUCCESS"

(* What is given to a device is the number of some event, and the kernel   *)
(* gives its disk a number with the LUN.                                   *)
InvGiven ==
  \A c \in Calls :
    /\ complete[c] \in {"retry", "number", "mknod"} => held[c] \in Numbers
    /\ complete[c] \in {"mknod", "register"} => number[c] \in Numbers
    /\ create[c] \in {"idle", "lock", "refused", "new", "start", "enable"} => disk[c] = None
    /\ create[c] \in {"set", "wait", "close", "clear", "ok"} => disk[c] \in Numbers

(* What holds in either case.                                              *)
CreationInv ==
  /\ ~crashed
  /\ InvOne
  /\ InvInitializing
  /\ InvCompleter
  /\ InvReturned
  /\ InvGiven

-----------------------------------------------------------------------------
(* The mutex and vbdInitializing together admit one creation at a time,    *)
(* though the mutex is released before the creation is over.               *)
InvSession ==
  /\ \A c, d \in Calls : Session(c) /\ Session(d) => c = d
  /\ \A c \in Calls : Session(c) => locked \/ vbdInitializing = c

(* Without other programs' disks, at most one event is on its way, to the  *)
(* completer that waits for it.                                            *)
InvEvents ==
  /\ Len(udev) + Len(devEvent) + (IF relay = None THEN 0 ELSE 1) <= 1
  /\ \A n \in Numbers : Pending(n) =>
       \E c \in Calls : disk[c] = n /\ create[c] \in {"set", "wait"} /\ complete[c] = "select"
  /\ \A c \in Calls :
       /\ create[c] \in {"new", "start", "enable"} => complete[c] = "select"
       /\ complete[c] = "retry" => create[c] \in {"set", "wait"}

(* Then the number given is that of the disk under way.                    *)
InvNumber ==
  \A c \in Calls :
    /\ complete[c] \in {"retry", "number", "mknod"} => held[c] = disk[c]
    /\ complete[c] \in {"mknod", "register"} => number[c] = disk[c]
    /\ complete[c] = "send" /\ result[c] = "SUCCESS" => number[c] = disk[c]
    /\ create[c] \in {"close", "clear", "ok"} /\ result[c] = "SUCCESS" => number[c] = disk[c]

SessionInv ==
  /\ CreationInv
  /\ InvSession
  /\ Others = {} => InvEvents /\ InvNumber

-----------------------------------------------------------------------------
(* A device that was reported as created is in the map under its name, as  *)
(* long as it is open and was not dropped.                                 *)
Reported(c) ==
  /\ result[c] = "SUCCESS"
  /\ complete[c] = "send" \/ create[c] \in {"close", "clear", "ok"}

InvRegistered ==
  /\ \A c \in opened : Reported(c) => vbds[name[c]] = c \/ c \in forgotten
  /\ \A v \in Volumes : vbds[v] # None => name[vbds[v]] = v

(* Only devices past the opening are removed, and what was closed without  *)
(* an error stays closed.                                                  *)
InvRemoved ==
  /\ closed => removing # None /\ (removing \in opened => removing \in forgotten)
  /\ \A c \in Calls :
       Registered(c) \/ c = removing => create[c] \in {"wait", "close", "clear", "ok", "failed"}

(* A device stays open beyond a creation that failed only if it is dropped. *)
InvOpen ==
  \A c \in opened :
    /\ create[c] \in {"enable", "set", "wait", "close", "clear", "ok", "failed"}
    /\ create[c] = "failed" \/ (create[c] = "clear" /\ result[c] # "SUCCESS") => c \in forgotten

RegisteredInv == InvRegistered /\ InvRemoved /\ InvOpen

-----------------------------------------------------------------------------
(* One call at a time: the completers of earlier calls may still be there, *)
(* and so may events of disks that are gone or not of this HBA.            *)
Busy(c) == create[c] \notin Outside

InvAlone ==
  /\ \A c, d \in Calls : Busy(c) /\ Busy(d) => c = d
  /\ \A c \in Calls : Busy(c) => removing = None /\ stop # "range"

SequentialInv ==
  /\ CreationInv
  /\ InvAlone
  /\ RegisteredInv

(* While no two calls of the HBA are in progress at once, nothing that an  *)
(* earlier creation left behind disturbs a later one, except that it may   *)
(* be given another disk's number (hba.go:136) or keep the mutex (:143).   *)
AloneInv == overlapped \/ SequentialInv
=============================================================================
