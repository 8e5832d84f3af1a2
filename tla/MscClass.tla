------------------------------ MODULE MscClass ------------------------------
(***************************************************************************)
(* The USB mass-storage class (src/src/msc.rs) as UsbDisk drives it        *)
(* (src/src/usbdisk.rs): Bulk-Only Transport, the SCSI commands, the block *)
(* cache and the attach / detach of the card, with the host and the card   *)
(* as its environment.                                                     *)
(*                                                                         *)
(* There is no executor.  UsbDisk::poll polls one future, which polls      *)
(* embassy's device task first and MscClass::run second; `phase` is        *)
(* "class" from the device task's turn until the class awaits something    *)
(* that is not there, and "outside" while the main loop runs other code.   *)
(* The host and the USB hardware move at any time.                         *)
(*                                                                         *)
(* The unit of transfer is the block: eight 64-byte packets in the code.   *)
(* A command block (31 bytes) never has the length of a packet of data,    *)
(* which is how the class tells the two apart.                             *)
(***************************************************************************)
EXTENDS BlockCache, Sequences

CONSTANTS
    Ops,       \* the kinds of command the host issues
    Extents,   \* the <<lba, blocks>> it addresses
    Lengths,   \* {TRUE}, or with FALSE: transfer length or direction may
               \* disagree with the command
    Faults,    \* what the card does wrong: "csd", "read", "write", "torn"
    Forced,    \* the user presses the way out while the host has the card
    GivesUp    \* the host may abandon a command with a Bulk-Only reset

MediaOps == {"read", "write"}
StopOps  == {"eject", "load", "spin"}
ReplyOps == {"inquiry", "sense", "capacity_10", "capacity_16"}
AllOps   == MediaOps \cup StopOps \cup ReplyOps
              \cup {"tur", "sync", "unknown", "other_lun"}

ASSUME ClassAssumption ==
    /\ Ops \subseteq AllOps
    /\ Extents \subseteq Nat \X Nat
    /\ Lengths \subseteq BOOLEAN
    /\ Faults \subseteq {"csd", "read", "write", "torn"}
    /\ Forced \in BOOLEAN /\ GivesUp \in BOOLEAN

VARIABLES
    card,        \* the blocks of the SD card
    shared,      \* SharedState: attached, configured, ejected, media, sense
    lines,       \* BlockCache.lines
    older,       \* BlockCache: order of the lines' last_used
    outdated,    \* cache_generation # SharedState.generation
    phase,       \* whose code runs: "outside" or "class"
    pc,          \* the await MscClass::run is suspended at, or its next step
    cmd,         \* the command block being executed
    cur,         \* `current` of read_10 and write_10
    slot,        \* the line read_10 is sending
    chunk,       \* blocks write_10 holds in the stream line
    left,        \* blocks discard_out still has to drop
    status,      \* CommandStatus of the coming CSW
    ep,          \* the bulk endpoints are enabled
    outbox,      \* what the bulk OUT endpoint holds for the class
    inbox,       \* what the bulk IN endpoint holds for the host
    bus,         \* the host's view: "off", "reset", "default", "config", "on",
                 \* or "confused" after an answer it cannot match
    req,         \* the command the host waits on
    moved,       \* blocks of that command the host has sent or received
    torn         \* history: blocks a failed write may or may not have changed

cacheVars == <<lines, older, outdated>>
locals    == <<cur, slot, chunk, left, status>>
classVars == <<pc, cmd, locals>>
usbVars   == <<ep, outbox, inbox, bus>>
hostVars  == <<req, moved>>
vars == <<card, shared, cacheVars, phase, classVars, usbVars, hostVars, torn>>

Statuses == {"passed", "failed", "phase_error"}
Senses   == {"none", "not_ready", "medium_error", "illegal_request"}

(* The 32-bit dCBWTag, by what the host tells with it: the command it waits*)
(* on, one it has given up, or one of a session before the last detach.    *)
Tags == {"current", "abandoned", "earlier"}

Nothing  == [kind |-> "nothing"]
ReplyMsg == [kind |-> "reply"]
Cbw == [kind : {"cbw"}, op : AllOps, lba : Nat, n : Nat, ok : BOOLEAN, tag : Tags]
Block == [kind : {"block"}, data : Data]
Csw == [kind : {"csw"}, status : Statuses, residue : Nat, tag : Tags]

Command == {Nothing} \cup Cbw
OutMsg  == Command \cup Block
InMsg   == {Nothing, ReplyMsg} \cup Block \cup Csw

Shared == [attached : BOOLEAN, configured : BOOLEAN, ejected : BOOLEAN,
           media : BOOLEAN, sense : Senses]

(* The command blocks this host may send; only READ and WRITE have blocks. *)
HostCbws ==
    {[kind |-> "cbw", op |-> o, lba |-> e[1], n |-> e[2], ok |-> k,
      tag |-> "current"] :
        o \in Ops \cap MediaOps, e \in Extents, k \in Lengths}
    \cup
    {[kind |-> "cbw", op |-> o, lba |-> 0, n |-> 0, ok |-> k,
      tag |-> "current"] :
        o \in Ops \ MediaOps, k \in Lengths}

(* What becomes of a command, or of the status of one, the host no longer  *)
(* waits on.                                                               *)
Retag(msg, from, to) ==
    IF msg.kind \in {"cbw", "csw"} /\ msg.tag \in from
    THEN [msg EXCEPT !.tag = to] ELSE msg

-----------------------------------------------------------------------------
(* Derived state                                                           *)

(* The definitions named Wrong... are mutants: each is what the definition *)
(* that follows it would be with one plausible bug.  Nothing uses them.    *)

WrongCountEjected == IF shared.attached /\ shared.media THEN CardBlocks ELSE 0

(* SharedState::block_count and ready                                      *)
Count == IF shared.attached /\ ~shared.ejected /\ shared.media
         THEN CardBlocks ELSE 0
Ready == Count # 0

WrongCanDetachAttached == TRUE

(* UsbDisk::can_detach                                                     *)
CanDetach == ~shared.attached \/ ~shared.configured \/ shared.ejected

End == cmd.lba + cmd.n
Residue == End - cur

(* The blocks of the next CMD25 of write_10.                               *)
ChunkLen == IF End - cur < LineBlocks THEN End - cur ELSE LineBlocks

(* `remaining`: what follows that chunk in the data phase.                 *)
WrongRestWithChunk == Residue
WrongRestTooShort == IF Residue - ChunkLen = 0 THEN 0 ELSE Residue - ChunkLen - 1

Rest == Residue - ChunkLen

(* The blocks chunk holds the first k of, as a function from the card's    *)
(* blocks to contents.                                                     *)
Written(k) == [b \in cur .. cur + k - 1 |-> chunk[b - cur + 1]]

WrongStoredButLast(written) ==
    [b \in Blocks |-> IF b \in DOMAIN written /\ b + 1 \in DOMAIN written
                      THEN written[b] ELSE card[b]]

Stored(written) ==
    [b \in Blocks |-> IF b \in DOMAIN written THEN written[b] ELSE card[b]]

(* The class cannot go on: each disjunct is an await that is pending.      *)
Blocked ==
    \/ pc \in {"idle", "receive", "discard"} /\ ep /\ outbox = Nothing
    \/ pc \in {"send", "reply", "csw"} /\ ep /\ inbox # Nothing
    \/ pc = "parked" /\ ~ep

SetSense(s) == shared' = [shared EXCEPT !.sense = s]

-----------------------------------------------------------------------------
Init ==
    /\ card \in [Blocks -> Data]
    /\ shared = [attached |-> FALSE, configured |-> FALSE, ejected |-> FALSE,
                 media |-> FALSE, sense |-> "none"]
    /\ lines = EmptyCache /\ older = {} /\ outdated = FALSE
    /\ phase = "outside"
    /\ pc = "idle" /\ cmd = Nothing /\ cur = 0 /\ slot = 0 /\ chunk = <<>>
    /\ left = 0 /\ status = "passed"
    /\ ep = FALSE /\ outbox = Nothing /\ inbox = Nothing /\ bus = "off"
    /\ req = Nothing /\ moved = <<>>
    /\ torn = {}

-----------------------------------------------------------------------------
(* The firmware, while the main loop runs outside UsbDisk::poll.           *)

(* The volume manager owns the card and rewrites it.                       *)
FirmwareWrite(b, d) ==
    /\ phase = "outside" /\ ~shared.attached
    /\ card' = [card EXCEPT ![b] = d]
    /\ UNCHANGED <<shared, cacheVars, phase, classVars, usbVars, hostVars, torn>>

(* UsbDisk::attach with SharedState::attach.  num_blocks() may fail, which *)
(* the code turns into a card of no blocks.                                *)
Attach(media) ==
    /\ phase = "outside" /\ ~shared.attached
    /\ media \/ "csd" \in Faults
    /\ shared' = [shared EXCEPT !.attached = TRUE, !.ejected = FALSE,
                                !.media = media, !.sense = "none"]
    /\ outdated' = TRUE
    /\ UNCHANGED <<card, lines, older, phase, classVars, usbVars, hostVars, torn>>

(* UsbDisk::detach with SharedState::detach.  The task, and so the command *)
(* it is suspended in, and the endpoints are kept as they are; the host    *)
(* loses the device with the PHY.                                          *)
Detach ==
    /\ phase = "outside" /\ shared.attached
    /\ CanDetach \/ Forced
    /\ shared' = [shared EXCEPT !.attached = FALSE, !.configured = FALSE,
                                !.ejected = FALSE, !.media = FALSE]
    /\ bus' = "off" /\ req' = Nothing /\ moved' = <<>>
    /\ cmd' = Retag(cmd, Tags, "earlier")
    /\ outbox' = Retag(outbox, Tags, "earlier")
    /\ UNCHANGED <<card, cacheVars, phase, pc, locals, ep, inbox, torn>>

-----------------------------------------------------------------------------
(* The host and the USB hardware.                                          *)

HostReset ==
    /\ shared.attached /\ bus # "reset"
    /\ bus' = "reset" /\ req' = Nothing /\ moved' = <<>>
    /\ UNCHANGED <<card, shared, cacheVars, phase, classVars, ep, outbox, inbox, torn>>

HostConfigure ==
    /\ bus = "default"
    /\ bus' = "config"
    /\ UNCHANGED <<card, shared, cacheVars, phase, classVars, ep, outbox, inbox,
                   hostVars, torn>>

HostCommand(c) ==
    /\ bus = "on" /\ req = Nothing /\ outbox = Nothing
    /\ outbox' = c /\ req' = c /\ moved' = <<>>
    /\ UNCHANGED <<card, shared, cacheVars, phase, classVars, ep, inbox, bus, torn>>

HostSend(d) ==
    /\ bus = "on" /\ req # Nothing /\ outbox = Nothing
    /\ req.op = "write" /\ Len(moved) < req.n
    /\ outbox' = [kind |-> "block", data |-> d]
    /\ moved' = Append(moved, d)
    /\ UNCHANGED <<card, shared, cacheVars, phase, classVars, ep, inbox, bus, req, torn>>

(* What comes in is the rest of a read, the reply, or the status that ends *)
(* the command.                                                            *)
Due(msg) ==
    CASE msg.kind = "csw"   -> msg.tag = "current"
      [] msg.kind = "block" -> req.op = "read" /\ Len(moved) < req.n
      [] msg.kind = "reply" -> req.op \in ReplyOps

HostTake ==
    /\ bus = "on" /\ req # Nothing /\ inbox # Nothing /\ Due(inbox)
    /\ inbox' = Nothing
    /\ req' = IF inbox.kind = "csw" THEN Nothing ELSE req
    /\ moved' = CASE inbox.kind = "csw"   -> <<>>
                  [] inbox.kind = "block" -> Append(moved, inbox.data)
                  [] inbox.kind = "reply" -> moved
    /\ UNCHANGED <<card, shared, cacheVars, phase, classVars, ep, outbox, bus, torn>>

(* Anything else, and a host is left with the bus reset.                   *)
HostConfused ==
    /\ bus = "on" /\ req # Nothing /\ inbox # Nothing /\ ~Due(inbox)
    /\ inbox' = Nothing /\ bus' = "confused"
    /\ req' = Nothing /\ moved' = <<>>
    /\ UNCHANGED <<card, shared, cacheVars, phase, classVars, ep, outbox, torn>>

-----------------------------------------------------------------------------
(* embassy's device task, polled before the class in every round of poll().*)

PollQuiet ==
    /\ phase = "outside" /\ shared.attached /\ bus \notin {"reset", "config"}
    /\ phase' = "class"
    /\ UNCHANGED <<card, shared, cacheVars, classVars, usbVars, hostVars, torn>>

(* ControlHandler::reset; enabled(false) and configured(false) do the same.*)
(* The driver disables the endpoints and drops what they hold.             *)
PollReset ==
    /\ phase = "outside" /\ shared.attached /\ bus = "reset"
    /\ phase' = "class" /\ bus' = "default"
    /\ shared' = [shared EXCEPT !.configured = FALSE]
    /\ ep' = FALSE /\ outbox' = Nothing /\ inbox' = Nothing
    /\ UNCHANGED <<card, cacheVars, classVars, hostVars, torn>>

PollConfigure ==
    /\ phase = "outside" /\ shared.attached /\ bus = "config"
    /\ phase' = "class" /\ bus' = "on"
    /\ shared' = [shared EXCEPT !.configured = TRUE]
    /\ ep' = TRUE
    /\ UNCHANGED <<card, cacheVars, classVars, outbox, inbox, hostVars, torn>>

(* ControlHandler::control_out, REQ_BULK_ONLY_RESET: it clears the sense   *)
(* and nothing else, whatever command the host gives up with it.           *)
PollClassReset ==
    /\ phase = "outside" /\ shared.attached /\ bus = "on"
    /\ req = Nothing \/ GivesUp
    /\ phase' = "class"
    /\ SetSense("none")
    /\ req' = Nothing /\ moved' = <<>>
    /\ cmd' = Retag(cmd, {"current"}, "abandoned")
    /\ outbox' = Retag(outbox, {"current"}, "abandoned")
    /\ inbox' = Retag(inbox, {"current"}, "abandoned")
    /\ UNCHANGED <<card, cacheVars, pc, locals, ep, bus, torn>>

-----------------------------------------------------------------------------
(***************************************************************************)
(* MscClass::run                                                           *)
(***************************************************************************)

At(where) == phase = "class" /\ pc = where

(* What no step of the class changes.                                      *)
Frame == UNCHANGED <<phase, ep, bus, hostVars>>

(* The command goes on at another place; `where` follows an await or the   *)
(* call of a helper.                                                       *)
GoTo(where) == pc' = where /\ UNCHANGED <<cmd, status>>

(* The command is over but for its status; what it held in locals is gone. *)
Finish(s) ==
    /\ pc' = "csw" /\ status' = s
    /\ slot' = 0 /\ chunk' = <<>> /\ left' = 0
    /\ UNCHANGED cmd

WrongReadCbwKeepsCache ==
    /\ At("idle") /\ ep /\ outbox.kind = "cbw"
    /\ pc' = "execute" /\ cmd' = outbox /\ cur' = outbox.lba
    /\ outbox' = Nothing /\ outdated' = FALSE
    /\ Frame /\ UNCHANGED <<card, shared, lines, older, slot, chunk, left, status, inbox, torn>>

(* A command block arrives: `execute` first drops a cache of an earlier    *)
(* generation.  Another LUN is answered without reaching `execute`.        *)
ReadCbw ==
    /\ At("idle") /\ ep /\ outbox.kind = "cbw"
    /\ pc' = "execute" /\ cmd' = outbox /\ cur' = outbox.lba
    /\ outbox' = Nothing
    /\ IF outdated /\ outbox.op # "other_lun"
       THEN lines' = EmptyCache /\ outdated' = FALSE
       ELSE UNCHANGED <<lines, outdated>>
    /\ Frame /\ UNCHANGED <<card, shared, older, slot, chunk, left, status, inbox, torn>>

(* Not a command block: Cbw::parse fails and the packet is dropped.        *)
IgnoreOut ==
    /\ At("idle") /\ ep /\ outbox.kind = "block"
    /\ outbox' = Nothing
    /\ Frame /\ UNCHANGED <<card, shared, cacheVars, classVars, inbox, torn>>

(* EndpointError::Disabled: wait_enabled, then read again.                 *)
Park ==
    /\ At("idle") /\ ~ep
    /\ pc' = "parked"
    /\ Frame /\ UNCHANGED <<card, shared, cacheVars, cmd, locals, outbox, inbox, torn>>

Unpark ==
    /\ At("parked") /\ ep
    /\ pc' = "idle"
    /\ Frame /\ UNCHANGED <<card, shared, cacheVars, cmd, locals, outbox, inbox, torn>>

(* send_csw; with the endpoint disabled it waits for it, and the status is *)
(* lost.                                                                   *)
SendCsw ==
    /\ At("csw") /\ (ep => inbox = Nothing)
    /\ IF ep THEN /\ inbox' = [kind |-> "csw", status |-> status,
                               residue |-> Residue, tag |-> cmd.tag]
                  /\ pc' = "idle"
       ELSE UNCHANGED inbox /\ pc' = "parked"
    /\ cmd' = Nothing /\ cur' = 0 /\ status' = "passed"
    /\ Frame /\ UNCHANGED <<card, shared, cacheVars, slot, chunk, left, outbox, torn>>

-----------------------------------------------------------------------------
(* Commands without a data phase and replies of one short packet.          *)

Executing(ops) == At("execute") /\ cmd.op \in ops

(* The command ends at once, with a sense unless `sense` is "keep".        *)
Respond(s, sense) ==
    /\ Finish(s)
    /\ IF sense = "keep" THEN UNCHANGED shared ELSE SetSense(sense)

(* What a step that only answers leaves alone.                             *)
ReplyFrame == Frame /\ UNCHANGED <<card, cacheVars, cur, outbox, torn>>

(* The `_` arm of execute, and a CBW for another LUN.                      *)
ExecuteRejected ==
    /\ Executing({"unknown", "other_lun"})
    /\ Respond("failed", IF cmd.op = "unknown" THEN "illegal_request" ELSE "keep")
    /\ ReplyFrame /\ UNCHANGED inbox

(* no_data: PREVENT ALLOW REMOVAL, SYNCHRONIZE CACHE, VERIFY.              *)
ExecuteNoData ==
    /\ Executing({"sync"})
    /\ IF cmd.ok THEN Respond("passed", "keep")
                 ELSE Respond("phase_error", "illegal_request")
    /\ ReplyFrame /\ UNCHANGED inbox

WrongTestUnitReadyNoSense ==
    /\ Executing({"tur"})
    /\ Respond(IF ~cmd.ok THEN "phase_error" ELSE IF Ready THEN "passed" ELSE "failed",
               "keep")
    /\ ReplyFrame /\ UNCHANGED inbox

ExecuteTestUnitReady ==
    /\ Executing({"tur"})
    /\ IF ~cmd.ok THEN Respond("phase_error", "keep")
       ELSE IF Ready THEN Respond("passed", "keep")
       ELSE Respond("failed", "not_ready")
    /\ ReplyFrame /\ UNCHANGED inbox

ExecuteStartStop ==
    /\ Executing(StopOps)
    /\ Finish(IF cmd.ok THEN "passed" ELSE "phase_error")
    /\ shared' = IF cmd.ok /\ cmd.op # "spin"
                 THEN [shared EXCEPT !.ejected = (cmd.op = "eject")] ELSE shared
    /\ ReplyFrame /\ UNCHANGED inbox

(* The commands send_data answers; READ CAPACITY needs a medium first, and *)
(* only its 10-byte form sets the sense when there is none.                *)
ExecuteReply ==
    /\ Executing(ReplyOps)
    /\ IF cmd.op \in {"capacity_10", "capacity_16"} /\ ~Ready
       THEN Respond("failed", IF cmd.op = "capacity_10" THEN "not_ready" ELSE "keep")
       ELSE IF ~cmd.ok THEN Respond("phase_error", "keep")
       ELSE GoTo("reply") /\ UNCHANGED <<shared, slot, chunk, left>>
    /\ ReplyFrame /\ UNCHANGED inbox

(* send_data hands over its packet; REQUEST SENSE then clears the sense.   *)
SendReply ==
    /\ At("reply") /\ (ep => inbox = Nothing)
    /\ inbox' = IF ep THEN ReplyMsg ELSE inbox
    /\ Respond(IF ep THEN "passed" ELSE "phase_error",
               IF ep /\ cmd.op = "sense" THEN "none" ELSE "keep")
    /\ ReplyFrame

-----------------------------------------------------------------------------
(* read_10                                                                 *)

ExecuteRead ==
    /\ Executing({"read"})
    /\ IF ~cmd.ok THEN Respond("phase_error", "keep")
       ELSE IF cmd.n = 0 THEN Respond("passed", "keep")
       ELSE IF End > Count THEN Respond("failed", "illegal_request")
       ELSE GoTo("lookup") /\ UNCHANGED <<shared, slot, chunk, left>>
    /\ ReplyFrame /\ UNCHANGED inbox

LookupHit(i) ==
    /\ At("lookup") /\ i \in Hits(lines, cur)
    /\ older' = Touch(older, i)
    /\ slot' = i /\ GoTo("send")
    /\ Frame /\ UNCHANGED <<card, shared, lines, outdated, cur, chunk, left, outbox,
                            inbox, torn>>

Missed(i) ==
    /\ At("lookup") /\ Hits(lines, cur) = {}
    /\ i \in Victims(lines, older, cmd.n > LineBlocks)

LookupMiss(i) ==
    /\ Missed(i)
    /\ lines' = Filled(lines, i, cur, card)
    /\ older' = Touch(older, i)
    /\ slot' = i /\ GoTo("send")
    /\ Frame /\ UNCHANGED <<card, shared, outdated, cur, chunk, left, outbox, inbox, torn>>

LookupFails(i) ==
    /\ Missed(i) /\ "read" \in Faults
    /\ lines' = Invalidated(lines, i)
    /\ Respond("failed", "medium_error")
    /\ Frame /\ UNCHANGED <<card, older, outdated, cur, outbox, inbox, torn>>

(* One block of the line goes to the host.                                 *)
SendBlock ==
    /\ At("send") /\ ep /\ inbox = Nothing
    /\ inbox' = [kind |-> "block", data |-> lines[slot][cur]]
    /\ cur' = cur + 1
    /\ IF cur + 1 = End THEN Finish("passed")
       ELSE /\ GoTo(IF Holds(lines[slot], cur + 1) THEN "send" ELSE "lookup")
            /\ UNCHANGED <<slot, chunk, left>>
    /\ Frame /\ UNCHANGED <<card, shared, cacheVars, outbox, torn>>

SendFails ==
    /\ At("send") /\ ~ep
    /\ Respond("phase_error", "keep")
    /\ ReplyFrame /\ UNCHANGED inbox

-----------------------------------------------------------------------------
(* write_10                                                                *)

WrongStartChunkKeepsLine(from) ==
    /\ GoTo("receive") /\ chunk' = <<>>
    /\ lines' = from
    /\ UNCHANGED <<slot, left>>

(* The stream line is the buffer of a chunk, and invalid from here on.     *)
StartChunk(from) ==
    /\ GoTo("receive") /\ chunk' = <<>>
    /\ lines' = Invalidated(from, StreamLine)
    /\ UNCHANGED <<slot, left>>

ExecuteWrite ==
    /\ Executing({"write"})
    /\ IF ~cmd.ok THEN Respond("phase_error", "keep") /\ UNCHANGED lines
       ELSE IF cmd.n = 0 THEN Respond("passed", "keep") /\ UNCHANGED lines
       ELSE IF End > Count
       THEN /\ GoTo("discard") /\ left' = cmd.n
            /\ SetSense("illegal_request")
            /\ UNCHANGED <<lines, slot, chunk>>
       ELSE StartChunk(lines) /\ UNCHANGED shared
    /\ Frame /\ UNCHANGED <<card, older, outdated, cur, outbox, inbox, torn>>

ReceiveBlock ==
    /\ At("receive") /\ ep /\ outbox.kind = "block"
    /\ outbox' = Nothing
    /\ chunk' = Append(chunk, outbox.data)
    /\ GoTo(IF Len(chunk) + 1 = ChunkLen THEN "commit" ELSE "receive")
    /\ Frame /\ UNCHANGED <<card, shared, cacheVars, cur, slot, left, inbox, torn>>

(* read_packets fails in write_10 or in discard_out: the endpoint is       *)
(* disabled, or a packet of the wrong length comes and is lost.            *)
OutFails ==
    /\ At("receive") \/ At("discard")
    /\ ep => outbox.kind = "cbw"
    /\ outbox' = IF ep THEN Nothing ELSE outbox
    /\ Respond("phase_error", "keep")
    /\ Frame /\ UNCHANGED <<card, cacheVars, cur, inbox, torn>>

Commit ==
    /\ At("commit")
    /\ LET written == Written(ChunkLen)
           updated == UpdatedFromStream(lines, written)
       IN  /\ card' = Stored(written)
           /\ torn' = torn \ DOMAIN written
           /\ IF cur + ChunkLen = End THEN Finish("passed") /\ lines' = updated
                                      ELSE StartChunk(updated)
    /\ cur' = cur + ChunkLen
    /\ Frame /\ UNCHANGED <<shared, older, outdated, outbox, inbox>>

(* CMD25 fails after its first k blocks have reached the card.  The cache  *)
(* keeps what it has; the rest of the data phase is read and dropped.      *)
CommitFails(k) ==
    /\ At("commit") /\ "write" \in Faults
    /\ k = 0 \/ "torn" \in Faults
    /\ k <= ChunkLen
    /\ card' = Stored(Written(k))
    /\ torn' = torn \cup DOMAIN Written(k)
    /\ IF Rest = 0 THEN Respond("failed", "medium_error")
       ELSE /\ SetSense("medium_error")
            /\ GoTo("discard") /\ left' = Rest
            /\ chunk' = <<>> /\ UNCHANGED slot
    /\ Frame /\ UNCHANGED <<cacheVars, cur, outbox, inbox>>

(* discard_out                                                             *)
DiscardBlock ==
    /\ At("discard") /\ ep /\ outbox.kind = "block"
    /\ outbox' = Nothing
    /\ IF left = 1 THEN Finish("failed")
       ELSE GoTo("discard") /\ left' = left - 1 /\ UNCHANGED <<slot, chunk>>
    /\ Frame /\ UNCHANGED <<card, shared, cacheVars, cur, inbox, torn>>

(* The class is pending, so poll() waits for an interrupt or returns.      *)
Yield ==
    /\ phase = "class" /\ Blocked
    /\ phase' = "outside"
    /\ UNCHANGED <<card, shared, cacheVars, classVars, usbVars, hostVars, torn>>

-----------------------------------------------------------------------------
Firmware ==
    \/ \E b \in Blocks, d \in Data : FirmwareWrite(b, d)
    \/ \E media \in BOOLEAN : Attach(media)
    \/ Detach

Host ==
    \/ \E c \in HostCbws : HostCommand(c)
    \/ \E d \in Data : HostSend(d)
    \/ HostTake \/ HostConfused \/ HostReset \/ HostConfigure

DeviceTask == PollQuiet \/ PollReset \/ PollConfigure \/ PollClassReset

ReadSteps ==
    \/ ExecuteRead
    \/ \E i \in Slots : LookupHit(i) \/ LookupMiss(i) \/ LookupFails(i)
    \/ SendBlock \/ SendFails

WriteSteps ==
    \/ ExecuteWrite \/ ReceiveBlock \/ OutFails
    \/ Commit \/ \E k \in 0 .. LineBlocks : CommitFails(k)
    \/ DiscardBlock

ClassTask ==
    \/ ReadCbw \/ IgnoreOut \/ Park \/ Unpark \/ SendCsw
    \/ ExecuteRejected \/ ExecuteNoData \/ ExecuteTestUnitReady
    \/ ExecuteStartStop \/ ExecuteReply \/ SendReply
    \/ ReadSteps \/ WriteSteps
    \/ Yield

Next == Firmware \/ Host \/ DeviceTask \/ ClassTask

Spec == Init /\ [][Next]_vars

(* The main loop calls poll() on every pass, the class runs until it has   *)
(* to wait, and the host goes on with the transfer it has started.         *)
Fairness ==
    /\ WF_vars(DeviceTask)
    /\ WF_vars(ClassTask)
    /\ WF_vars(\E d \in Data : HostSend(d))
    /\ WF_vars(HostTake)

FairSpec == Spec /\ Fairness

-----------------------------------------------------------------------------
(* Properties                                                              *)

TypeOK ==
    /\ card \in [Blocks -> Data]
    /\ shared \in Shared
    /\ lines \in [Slots -> Line] /\ older \subseteq LruLines \X LruLines
    /\ outdated \in BOOLEAN
    /\ phase \in {"outside", "class"}
    /\ pc \in {"idle", "parked", "execute", "lookup", "send", "receive", "commit",
               "discard", "reply", "csw"}
    /\ cmd \in Command /\ cur \in Nat /\ slot \in Slots /\ chunk \in Seq(Data)
    /\ left \in Nat /\ status \in Statuses
    /\ ep \in BOOLEAN
    /\ outbox \in OutMsg /\ inbox \in InMsg
    /\ bus \in {"off", "reset", "default", "config", "on", "confused"}
    /\ req \in Command /\ moved \in Seq(Data)
    /\ torn \subseteq Blocks

(* What the locals of a suspended command say of it, whatever has happened *)
(* since: the cursor is inside the command and the card, a line being sent *)
(* still holds the block at the cursor, the chunk fits the next CMD25, and *)
(* the stream line is invalid while it is the buffer of a chunk.           *)
InFlight ==
    /\ pc \notin {"idle", "parked"} =>
         cmd # Nothing /\ cmd.lba <= cur /\ cur <= End
    /\ pc = "execute" => cur = cmd.lba
    /\ pc \in {"lookup", "send", "receive", "commit"} =>
         cur < End /\ End <= CardBlocks
    /\ pc = "send" => Holds(lines[slot], cur)
    /\ pc = "receive" => Len(chunk) < ChunkLen
    /\ pc = "commit" => Len(chunk) = ChunkLen
    /\ pc \in {"receive", "commit"} => DOMAIN lines[StreamLine] = {}
    /\ pc = "discard" => left > 0

(* A line the class may serve from holds what the card holds: "Writes go   *)
(* through to the card [...] and update any cached copy of the same        *)
(* blocks" (struct BlockCache).  Blocks of a write the card has reported   *)
(* as failed are left out: the card may hold those and the line not.       *)
CacheCoherent ==
    shared.attached /\ ~outdated =>
        \A i \in Slots : \A b \in DOMAIN lines[i] :
            b \in torn \/ lines[i][b] = card[b]

(* The status the host takes tells the truth about its own command: a      *)
(* "passed" has no residue, and all blocks but the residue are on the card *)
(* (write) or have been delivered as the card holds them (read).           *)
ResidueIsHonest ==
    (inbox.kind = "csw" /\ inbox.tag = "current" /\ req # Nothing) =>
        LET done == req.n - inbox.residue
            kept(k) == moved[k] = card[req.lba + k - 1]
        IN  /\ inbox.status = "passed" => inbox.residue = 0
            /\ req.op = "write" =>
                 done <= Len(moved) /\ \A k \in 1 .. done : kept(k)
            /\ req.op = "read" =>
                 /\ done = Len(moved)
                 /\ \A k \in 1 .. done : kept(k) \/ req.lba + k - 1 \in torn

(* Unless it reports a phase error, a write is answered only when the host *)
(* has sent its whole data phase and the class has read all of it, so the  *)
(* next packet is a command block: what discard_out is for.                *)
DataPhaseDrained ==
    (/\ bus = "on" /\ pc = "csw" /\ cmd.tag = "current"
     /\ cmd.op = "write" /\ status # "phase_error") =>
        req = cmd /\ Len(moved) = req.n /\ outbox = Nothing

(* When can_detach lets the user leave without the warning, no transfer    *)
(* the host has started in this session is half done.                      *)
UnforcedDetachIsClean ==
    (phase = "outside" /\ shared.attached /\ CanDetach /\ pc \in {"receive", "send"}) =>
        cmd.tag = "earlier"

(* The card is never written for a command of an earlier session: the      *)
(* firmware may have rewritten it in between (SharedState.generation).     *)
NoStaleWrite == [][phase = "class" /\ card' # card => cmd.tag # "earlier"]_vars

(* No block is in two valid lines, so an update reaches every copy `find`  *)
(* could ever return.                                                      *)
OneCopy ==
    \A i, j \in Slots : i # j => DOMAIN lines[i] \cap DOMAIN lines[j] = {}

(* A failed command leaves a sense for REQUEST SENSE to report, but for    *)
(* the two answers that never set one.                                     *)
FailureHasSense ==
    (inbox.kind = "csw" /\ inbox.status = "failed" /\ inbox.tag = "current"
     /\ req # Nothing /\ req.op \notin {"capacity_16", "other_lun"}) =>
        shared.sense # "none"

(* Every command the host issues ends: with its status, or because the     *)
(* host resets or loses the device.                                        *)
EveryCommandEnds == req # Nothing ~> req = Nothing

(* With its cache, the class implements a block store that has none.       *)
Store == INSTANCE BlockStore WITH
    store <- card, doubt <- torn,
    answer <- IF inbox.kind = "csw" /\ req # Nothing
              THEN [status |-> inbox.status, residue |-> inbox.residue]
              ELSE Nothing
ImplementsBlockStore == Store!Spec
=============================================================================
