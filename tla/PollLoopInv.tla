---------------------------- MODULE PollLoopInv ----------------------------
(***************************************************************************)
(* The inductive invariants of PollLoop: what the four cursors, the units  *)
(* of the ring, the histories and the goroutine startPoll agree on in      *)
(* every state.  RingInv is about where entries lie and who has passed     *)
(* them, and holds whatever the handler returns; ReplyInv is about what    *)
(* the entries say, and needs a handler that returns no Go error.          *)
(* TLC checks them on small instances, PollLoop_proofs proves them for     *)
(* every ring size, every set of entry lengths and every set of cmd_ids.   *)
(***************************************************************************)
EXTENDS PollLoop

(* Where entry k of the log starts; the entry after the last one will      *)
(* start at cmd_head.                                                      *)
Off(k) == IF k <= Len(log) THEN log[k].off ELSE mbCmdHead

(* How many commands there are among the first k entries.                  *)
Seqs(k) == IF k = 0 THEN 0 ELSE log[k].seq

(* The entries the kernel has published and not taken back.                *)
Window == nClean + 1 .. Len(log)

(* Distances are measured from the oldest entry of the window.             *)
Rel(o) == Dist(lastCleaned, o)

IsCmd(k) == log[k].op = "cmd"

-----------------------------------------------------------------------------
(* Each cursor stands at the start of the entry it has not passed yet.     *)
InvCursors ==
  /\ nClean <= nTail /\ nTail <= nFetch /\ nFetch <= Len(log)
  /\ lastCleaned = Off(nClean + 1)
  /\ mbCmdTail = Off(nTail + 1)
  /\ cmdTail = Off(nFetch + 1)

(* The entries of the window lie one behind the other, none across the     *)
(* end of the ring.                                                        *)
InvChain ==
  \A k \in Window :
    /\ log[k].len > 0
    /\ log[k].off + log[k].len <= CmdrSize
    /\ Off(k + 1) = (log[k].off + log[k].len) % CmdrSize

(* They lie in the order they were published.                              *)
InvOrder ==
  /\ \A k \in Window : Rel(log[k].off) + log[k].len <= Rel(mbCmdHead)
  /\ \A i, j \in Window : i < j => Rel(log[i].off) + log[i].len <= Rel(log[j].off)

(* The ring holds the header of every entry of the window.                 *)
InvHeaders ==
  \A k \in Window :
    /\ ring[log[k].off].op = log[k].op
    /\ ring[log[k].off].len = log[k].len

(* An entry that is not answered has the cmd_id the kernel gave it.        *)
Answering(k) == pollPc = "pass" /\ k = nTail + 1

InvUnanswered ==
  \A k \in nTail + 1 .. Len(log) :
    ~Answering(k) => ring[log[k].off].id = log[k].id

(* The log counts the commands.                                            *)
InvSeqs ==
  /\ \A k \in 1 .. Len(log) :
       log[k].seq = Seqs(k - 1) + (IF IsCmd(k) THEN 1 ELSE 0)
  /\ \A i, j \in 1 .. Len(log) : i <= j => log[i].seq <= log[j].seq
  /\ Len(submitted) = Seqs(Len(log))

(* What startPoll knows at each point of serving a command: it serves the  *)
(* last entry it has fetched, and between cmd_tail and that entry there    *)
(* are only pads.                                                          *)
Serving == pollPc \in {"handle", "complete", "pass"}

InvServing ==
  /\ ~Serving => Seqs(nTail) = Seqs(nFetch)
  /\ Serving =>
       /\ nTail < nFetch
       /\ IsCmd(nFetch)
       /\ cmd = log[nFetch].id
       /\ Seqs(nTail) + 1 = Seqs(nFetch)
  /\ pollPc = "pass" =>
       /\ nTail + 1 = nFetch
       /\ ring[mbCmdTail].status # "none"

(* A pad ends at the end of the ring and the space for its command is      *)
(* reserved.                                                               *)
InvPadded == padded # 0 => mbCmdHead = 0 /\ padded <= Free

RingInv ==
  /\ InvCursors
  /\ InvChain
  /\ InvOrder
  /\ InvHeaders
  /\ InvUnanswered
  /\ InvSeqs
  /\ InvServing
  /\ InvPadded

-----------------------------------------------------------------------------
(* An entry that is answered holds what the handler decided.               *)
InvAnswered ==
  \A k \in Window :
    (k <= nTail \/ Answering(k)) /\ IsCmd(k) =>
      served[log[k].seq] = [id |-> ring[log[k].off].id,
                            status |-> ring[log[k].off].status]

(* The command counted by an entry is the one it holds, and every command  *)
(* has its entry.                                                          *)
InvSubmitted ==
  /\ \A k \in 1 .. Len(log) : IsCmd(k) => submitted[log[k].seq] = log[k].id
  /\ \A i \in 1 .. Len(submitted) :
       \E k \in 1 .. Len(log) : IsCmd(k) /\ log[k].seq = i

(* How far the histories have come.                                        *)
InvCounts ==
  /\ Len(served) = Seqs(nFetch) - (IF pollPc = "handle" THEN 1 ELSE 0)
  /\ Len(done) = Seqs(nClean)

(* Handled in order, reported as handled.                                  *)
InvHistory ==
  /\ \A i \in 1 .. Len(served) : served[i].id = submitted[i]
  /\ \A i \in 1 .. Len(done) : done[i] = served[i]
  /\ pollPc = "complete" => served[Len(served)] = resp

(* The kernel knows every cmd_id it may read back, and uses none twice.    *)
InvInflight ==
  /\ ~broken
  /\ \A k \in Window : IsCmd(k) => log[k].id \in inflight
  /\ \A i, j \in Window : IsCmd(i) /\ IsCmd(j) /\ i # j => log[i].id # log[j].id

ReplyInv ==
  /\ InvAnswered
  /\ InvSubmitted
  /\ InvCounts
  /\ InvHistory
  /\ InvInflight
=============================================================================
