------------------------------- MODULE Export -------------------------------
(***************************************************************************)
(* What a device promises to the kernel: a LUN is exported only when a     *)
(* loop serves its ring, the loop does not leave a LUN that is exported    *)
(* unless its process dies, and a LUN that a dead process left behind is   *)
(* taken away, never served again as it is.                                *)
(***************************************************************************)

VARIABLE disk  \* what the kernel and the library have of the device

States == {"absent", "served", "exported", "orphan"}

Init == disk \in {"absent", "orphan"}

Serve  == disk = "absent" /\ disk' = "served"
Expose == disk = "served" /\ disk' = "exported"
Hide   == disk = "exported" /\ disk' = "served"
End    == disk = "served" /\ disk' = "absent"
Crash  == disk = "exported" /\ disk' = "orphan"
Clear  == disk = "orphan" /\ disk' = "absent"

Next == Serve \/ Expose \/ Hide \/ End \/ Crash \/ Clear

Spec == Init /\ [][Next]_disk
=============================================================================
