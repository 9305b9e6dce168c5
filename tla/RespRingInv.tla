---------------------------- MODULE RespRingInv -----------------------------
(***************************************************************************)
(* Why the response ring works: the invariant behind the properties of     *)
(* RespRing, for as long as no slot is handed out before startRespx has    *)
(* left it, which nothing in handler.go checks; and what holds even then.  *)
(***************************************************************************)
EXTENDS RespRing

(* Commands whose slot startRespx has left behind. Between completeCommand *)
(* and the clearing of the slot the last one completed is not among them.  *)
Past == IF respPc = "clear" THEN Len(completed) - 1 ELSE Len(completed)

(* A command fetched and not past, and the slot k places after t.          *)
Live(n) == Past < n /\ n <= fetched
Place(t, k) == IF t + k < RingSize THEN t + k ELSE t + k - RingSize

(* No slot has been handed out a second time before startRespx has left    *)
(* it. startPollx moves the head on without looking (handler.go:121-124),  *)
(* so this is up to what the kernel has outstanding, and it fails with as  *)
(* many commands outstanding as there are slots.                           *)
RoomInRing == fetched - Past <= RingSize

(* Commands are fetched after they are submitted and completed after they  *)
(* are fetched; the kernel's limit.                                        *)
InvCounts ==
  /\ Len(completed) <= fetched
  /\ fetched <= submitted
  /\ submitted - Len(completed) <= InFlight

(* The commands fetched and not past hold consecutive slots from the tail, *)
(* and the head is the slot after them.                                    *)
InvSlots ==
  /\ head = Place(tail, fetched - Past)
  /\ \A n \in Cmds : Live(n) => index[n] = Place(tail, n - Past - 1)

(* Where the goroutine of each command can be.                             *)
InvStages ==
  \A n \in Cmds :
    /\ fetched < n => stage[n] = "none"
    /\ n <= fetched => stage[n] # "none"
    /\ n <= Past => stage[n] # "handle"

(* A slot holds a response exactly when the command it belongs to was      *)
(* handled; every other slot is empty.                                     *)
InvData ==
  /\ \A n \in Cmds : Live(n) => (data[index[n]] = Nil <=> stage[n] = "handle")
  /\ \A s \in Slots :
       data[s] # Nil => \E n \in Cmds : Live(n) /\ index[n] = s

(* startRespx works on the slot at the tail.                               *)
InvResponder ==
  /\ respPc = "complete" => Len(completed) < fetched /\ data[tail] = resp
  /\ respPc = "clear" =>
       completed # <<>> /\ data[tail] = completed[Len(completed)]

SlotInv == TypeOK /\ InvCounts /\ InvSlots /\ InvStages /\ InvData /\ InvResponder

(* A response in a slot, and a response completed, is the command's own.   *)
InvOwn ==
  /\ \A n \in Cmds :
       Live(n) /\ stage[n] # "handle" => data[index[n]].id = n
  /\ \A k \in 1 .. Len(completed) : completed[k].id = k

(* No command is answered twice, with handlers that return no Go error: a  *)
(* response startRespx has written is in no slot it will look at again     *)
(* (handler.go:145-163), even where slots are handed out too early.        *)
NoneTwice ==
  \A i, j \in 1 .. Len(completed) : completed[i].id = completed[j].id => i = j

(* Why: a response is put into one slot, by the command it belongs to, and *)
(* startRespx clears the slot it has written from before it looks again.   *)
(* What a handler has put there meanwhile goes with it.                    *)
Told(id) == \E i \in 1 .. Len(completed) : completed[i].id = id
InvOnce ==
  /\ \A n \in Cmds : (stage[n] = "none") <=> (fetched < n)
  /\ NoneTwice
  /\ \A i \in 1 .. Len(completed) :
       \E n \in Cmds : n = completed[i].id /\ stage[n] \in {"send", "done"}
  /\ \A s \in Slots : data[s] # Nil =>
       /\ \E n \in Cmds : n = data[s].id /\ stage[n] \in {"send", "done"}
       /\ \A t \in Slots : data[t] # Nil /\ data[t].id = data[s].id => t = s
       /\ Told(data[s].id) => respPc = "clear" /\ s = tail
  /\ respPc = "complete" =>
       /\ \E n \in Cmds : n = resp.id /\ stage[n] \in {"send", "done"}
       /\ ~Told(resp.id)
       /\ \A s \in Slots : data[s] # Nil /\ data[s].id = resp.id => s = tail
=============================================================================
