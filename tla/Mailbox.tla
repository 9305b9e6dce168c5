------------------------------ MODULE Mailbox ------------------------------
(***************************************************************************)
(* The memory libtcmu shares with the target_core_user kernel module: a    *)
(* mailbox (cmd_head, cmd_tail) and a command ring of variable-length      *)
(* entries, read and written by src/libtcmu/share_area.go and driven by    *)
(* getNextCommand and completeCommand of src/libtcmu/handler.go.           *)
(*                                                                         *)
(* This module has the state of the ring and one action per access the     *)
(* library makes to it; PollLoop composes them into the goroutines of the  *)
(* program.  The kernel's side is external: it is modelled as the library  *)
(* relies on it (pads at the end of the ring, one free unit so that head = *)
(* tail means empty, completions looked up by cmd_id).                     *)
(*                                                                         *)
(* Offsets count units of the ring's alignment (8 bytes) from              *)
(* mbCmdrOffset; the cdb and the iovecs of an entry are not represented.   *)
(***************************************************************************)
EXTENDS Integers, Sequences, FiniteSets

CONSTANTS
  CmdrSize, \* mbCmdrSize: the size of the command ring
  Lens,     \* the lengths a command entry may have
  CmdIds,   \* the cmd_id values the kernel uses; 0 is one of them
  MaxCmds   \* bound: how many commands the kernel submits in a behaviour

ASSUME RingAssumption ==
  /\ CmdrSize \in Nat \ {0}
  /\ Lens \subseteq Nat \ {0}
  /\ \A l \in Lens : 2 * l <= CmdrSize  \* the kernel refuses longer entries
  /\ CmdIds \subseteq Nat
  /\ 0 \in CmdIds
  /\ MaxCmds \in Nat

VARIABLES
  ring,        \* what each unit of the ring holds
  mbCmdHead,   \* mailbox: end of what the kernel has published
  mbCmdTail,   \* mailbox: end of what the library has completed
  cmdTail,     \* VirBlkDev.cmdTail: end of what getNextCommand has fetched
  lastCleaned, \* kernel: end of the completions it has taken back
  inflight,    \* kernel: the cmd_ids it has published and not taken back
  padded,      \* kernel: length of the command a pad was just written for
  irq,         \* kernel: the uio device was written, completions to take
  broken,      \* kernel: it met a completion whose cmd_id it does not know
  submitted,   \* history: cmd_ids in the order the kernel published them
  served,      \* history: what the handler decided, in order
  done,        \* history: completions as the kernel read them, in order
  log,         \* history: every entry published, pads included
  nClean, nTail, nFetch \* history: how many of log each cursor has passed

sharedVars == <<ring, mbCmdHead, mbCmdTail, cmdTail>>
kernelVars == <<lastCleaned, inflight, padded, irq, broken>>
histVars   == <<submitted, served, done, log, nClean, nTail, nFetch>>
ringVars   == <<sharedVars, kernelVars, histVars>>

Offsets  == 0 .. CmdrSize - 1
Statuses == {"none", "good", "check"}

(* What a unit of the ring holds: the header of an entry, or bytes in the  *)
(* middle of one, which are no header at all.                              *)
Unit == [op : {"pad", "cmd", "body"}, len : Nat, id : CmdIds, status : Statuses]
Body == [op |-> "body", len |-> 0, id |-> 0, status |-> "none"]
Pad(l) == [op |-> "pad", len |-> l, id |-> 0, status |-> "none"]
Cmd(l, id) == [op |-> "cmd", len |-> l, id |-> id, status |-> "none"]

(* History record of a published entry; seq counts the commands published  *)
(* up to it.                                                               *)
LogEntry == [op : {"pad", "cmd"}, off : Offsets, len : Nat, id : CmdIds, seq : Nat]

(* A ScsiResponse: the command it answers and the SAM status.              *)
Response == [id : CmdIds, status : {"good", "check"}]

(* What a handler decided of a command; "error" is a Go error.             *)
Outcome == [id : CmdIds, status : {"good", "check", "error"}]

RingInit ==
  /\ ring = [x \in Offsets |-> Body]
  /\ mbCmdHead = 0
  /\ mbCmdTail = 0
  /\ cmdTail = mbCmdTail   \* openDevice: vbd.cmdTail = vbd.mbCmdTail()
  /\ lastCleaned = 0
  /\ inflight = {}
  /\ padded = 0
  /\ irq = FALSE
  /\ broken = FALSE
  /\ submitted = <<>>
  /\ served = <<>>
  /\ done = <<>>
  /\ log = <<>>
  /\ nClean = 0
  /\ nTail = 0
  /\ nFetch = 0

-----------------------------------------------------------------------------
(* The kernel's side.                                                      *)

(* Units from offset a forward to offset b.                                *)
Dist(a, b) == IF b >= a THEN b - a ELSE b - a + CmdrSize

Free == CmdrSize - 1 - Dist(lastCleaned, mbCmdHead)
HeadToEnd == CmdrSize - mbCmdHead

WriteEntry(o, e) ==
  [x \in Offsets |->
     IF x = o THEN e ELSE IF x \in o + 1 .. o + e.len - 1 THEN Body ELSE ring[x]]

Publish(e, seq) ==
  /\ ring' = WriteEntry(mbCmdHead, e)
  /\ log' = Append(log, [op |-> e.op, off |-> mbCmdHead, len |-> e.len,
                         id |-> e.id, seq |-> seq])
  /\ mbCmdHead' = (mbCmdHead + e.len) % CmdrSize

(* A command that does not fit before the end of the ring is preceded by a *)
(* pad up to the end; the library can see the pad before the command.      *)
KernelPad(l) ==
  /\ ~broken
  /\ padded = 0
  /\ Len(submitted) < MaxCmds
  /\ inflight # CmdIds
  /\ HeadToEnd < l
  /\ HeadToEnd + l <= Free
  /\ Publish(Pad(HeadToEnd), Len(submitted))
  /\ padded' = l
  /\ UNCHANGED <<mbCmdTail, cmdTail, lastCleaned, inflight, irq, broken,
                 submitted, served, done, nClean, nTail, nFetch>>

KernelSubmit(l, id) ==
  /\ ~broken
  /\ Len(submitted) < MaxCmds
  /\ id \notin inflight
  /\ \/ padded = l
     \/ padded = 0 /\ l <= HeadToEnd /\ l <= Free
  /\ Publish(Cmd(l, id), Len(submitted) + 1)
  /\ submitted' = Append(submitted, id)
  /\ inflight' = inflight \cup {id}
  /\ padded' = 0
  /\ UNCHANGED <<mbCmdTail, cmdTail, lastCleaned, irq, broken,
                 served, done, nClean, nTail, nFetch>>

(* After a write to the uio device the kernel walks the entries up to      *)
(* cmd_tail; an entry whose cmd_id it does not know breaks the device.     *)
Oldest == ring[lastCleaned]

Cleaning == irq /\ ~broken /\ lastCleaned # mbCmdTail

PassOldest ==
  /\ lastCleaned' = (lastCleaned + Oldest.len) % CmdrSize
  /\ nClean' = nClean + 1

CleanEnd ==
  /\ irq /\ ~broken
  /\ lastCleaned = mbCmdTail
  /\ irq' = FALSE
  /\ UNCHANGED <<sharedVars, lastCleaned, inflight, padded, broken, histVars>>

CleanPad ==
  /\ Cleaning
  /\ Oldest.op # "cmd"
  /\ PassOldest
  /\ UNCHANGED <<sharedVars, inflight, padded, irq, broken,
                 submitted, served, done, log, nTail, nFetch>>

CleanCmd ==
  /\ Cleaning
  /\ Oldest.op = "cmd" /\ Oldest.id \in inflight
  /\ PassOldest
  /\ inflight' = inflight \ {Oldest.id}
  /\ done' = Append(done, [id |-> Oldest.id, status |-> Oldest.status])
  /\ UNCHANGED <<sharedVars, padded, irq, broken,
                 submitted, served, log, nTail, nFetch>>

CleanUnknown ==
  /\ Cleaning
  /\ Oldest.op = "cmd" /\ Oldest.id \notin inflight
  /\ broken' = TRUE
  /\ UNCHANGED <<sharedVars, lastCleaned, inflight, padded, irq, histVars>>

KernelClean == CleanEnd \/ CleanPad \/ CleanCmd \/ CleanUnknown

-----------------------------------------------------------------------------
(* getNextCommand, one action per iteration of its loop.                   *)

NextEntryOff == cmdTail
HeadEntryOff == mbCmdHead
TailEntryOff == mbCmdTail

EntHdrOp(off) == ring[off].op
EntHdrLen(off) == ring[off].len
EntCmdId(off) == ring[off].id

(* Wrong: the cursor does not wrap at the end of the ring.                 *)
AfterNoWrap(off) == off + EntHdrLen(off)

(* The cursor after the entry at off.                                      *)
After(off) == (off + EntHdrLen(off)) % CmdrSize

AdvanceFetch ==
  /\ cmdTail' = After(NextEntryOff)
  /\ nFetch' = nFetch + 1

NoCommand == NextEntryOff = HeadEntryOff

(* Wrong: a pad is taken for one unit long.                                *)
FetchPadAsUnit ==
  /\ NextEntryOff # HeadEntryOff
  /\ EntHdrOp(NextEntryOff) = "pad"
  /\ cmdTail' = (NextEntryOff + 1) % CmdrSize
  /\ nFetch' = nFetch + 1
  /\ UNCHANGED <<ring, mbCmdHead, mbCmdTail, kernelVars,
                 submitted, served, done, log, nClean, nTail>>

FetchPad ==
  /\ NextEntryOff # HeadEntryOff
  /\ EntHdrOp(NextEntryOff) = "pad"
  /\ AdvanceFetch
  /\ UNCHANGED <<ring, mbCmdHead, mbCmdTail, kernelVars,
                 submitted, served, done, log, nClean, nTail>>

(* Wrong: the command stays the next one.                                  *)
FetchCmdAgain ==
  /\ NextEntryOff # HeadEntryOff
  /\ EntHdrOp(NextEntryOff) = "cmd"
  /\ UNCHANGED ringVars

(* The entry is a command: the caller takes EntCmdId(NextEntryOff).        *)
FetchCmd ==
  /\ NextEntryOff # HeadEntryOff
  /\ EntHdrOp(NextEntryOff) = "cmd"
  /\ AdvanceFetch
  /\ UNCHANGED <<ring, mbCmdHead, mbCmdTail, kernelVars,
                 submitted, served, done, log, nClean, nTail>>

-----------------------------------------------------------------------------
(* completeCommand: skip what is not a command, write the response into    *)
(* the entry at the tail, move the tail past it.  The kernel may look at   *)
(* the ring between any two of these.                                      *)

AdvanceTail ==
  /\ mbCmdTail' = After(TailEntryOff)
  /\ nTail' = nTail + 1

(* Wrong: whatever stands at the tail is skipped up to what was fetched.   *)
SkipTailAny ==
  /\ TailEntryOff # cmdTail
  /\ AdvanceTail
  /\ UNCHANGED <<ring, mbCmdHead, cmdTail, kernelVars,
                 submitted, served, done, log, nClean, nFetch>>

SkipTailPad ==
  /\ EntHdrOp(TailEntryOff) # "cmd"
  /\ AdvanceTail
  /\ UNCHANGED <<ring, mbCmdHead, cmdTail, kernelVars,
                 submitted, served, done, log, nClean, nFetch>>

(* setEntCmdId, setEntRespSCSIStatus, copyEntRespSenseData                 *)
Answered(e, r) == [op |-> e.op, len |-> e.len, id |-> r.id, status |-> r.status]

(* Wrong: only a status other than GOOD is written.                        *)
WriteSenseOnly(r) ==
  /\ EntHdrOp(TailEntryOff) = "cmd"
  /\ ring' = [ring EXCEPT ![TailEntryOff] =
                 IF r.status = "good" THEN @ ELSE Answered(@, r)]
  /\ UNCHANGED <<mbCmdHead, mbCmdTail, cmdTail, kernelVars, histVars>>

WriteResponse(r) ==
  /\ EntHdrOp(TailEntryOff) = "cmd"
  /\ ring' = [ring EXCEPT ![TailEntryOff] = Answered(@, r)]
  /\ UNCHANGED <<mbCmdHead, mbCmdTail, cmdTail, kernelVars, histVars>>

(* Wrong: everything published counts as completed.                        *)
PassToHead ==
  /\ mbCmdTail' = HeadEntryOff
  /\ nTail' = nTail + 1
  /\ UNCHANGED <<ring, mbCmdHead, cmdTail, kernelVars,
                 submitted, served, done, log, nClean, nFetch>>

PassTailEntry ==
  /\ AdvanceTail
  /\ UNCHANGED <<ring, mbCmdHead, cmdTail, kernelVars,
                 submitted, served, done, log, nClean, nFetch>>

(* "Tell the fd there's something new".                                    *)
NotifyKernel ==
  /\ irq' = TRUE
  /\ UNCHANGED <<sharedVars, lastCleaned, inflight, padded, broken, histVars>>

-----------------------------------------------------------------------------
RingTypeOK ==
  /\ ring \in [Offsets -> Unit]
  /\ mbCmdHead \in Offsets
  /\ mbCmdTail \in Offsets
  /\ cmdTail \in Offsets
  /\ lastCleaned \in Offsets
  /\ inflight \subseteq CmdIds
  /\ padded \in Lens \cup {0}
  /\ irq \in BOOLEAN
  /\ broken \in BOOLEAN
  /\ submitted \in Seq(CmdIds)
  /\ served \in Seq(Outcome)
  /\ done \in Seq([id : CmdIds, status : Statuses])
  /\ log \in Seq(LogEntry)
  /\ nClean \in Nat
  /\ nTail \in Nat
  /\ nFetch \in Nat
=============================================================================
