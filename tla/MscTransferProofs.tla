------------------------- MODULE MscTransferProofs -------------------------
(***************************************************************************)
(* Proofs about MscClass: the status a host takes is the status of its own *)
(* command, and it tells the truth about the blocks, whatever the card     *)
(* does, whatever the cache holds, and whatever commands the host gave up  *)
(* before.                                                                 *)
(***************************************************************************)
EXTENDS MscSessionProofs

USE CacheAssumption, ClassAssumption DEF Blocks, LruLines, StreamLine, Slots

-----------------------------------------------------------------------------
(* One command                                                             *)

(* The command the host waits on is in one place: its command block in the *)
(* OUT endpoint, the class that executes it, or its status in the IN       *)
(* endpoint.  What the host has taken before the class has read the command*)
(* block came from a command given up, whose status is still to come.      *)
OneToken ==
    bus = "on" =>
    /\ req = Nothing =>
         ~Carries(cmd, "current") /\ ~Carries(outbox, "current") /\ ~Carries(inbox, "current")
    /\ Carries(outbox, "current") =>
         /\ req = outbox /\ ~Carries(cmd, "current") /\ ~Carries(inbox, "current")
         /\ req.op = "write" => moved = <<>>
         /\ cmd # Nothing \/ inbox.kind = "csw" \/ (moved = <<>> /\ inbox = Nothing)
    /\ Carries(cmd, "current") =>
         req = cmd /\ ~Carries(inbox, "current") /\ outbox.kind # "cbw"
    /\ Carries(inbox, "current") => outbox.kind # "cbw" /\ cmd = Nothing

LEMMA InitToken == Init => OneToken
  BY DEF Init, OneToken

LEMMA FirmwareToken == ASSUME Inv, SessionInv, OneToken, Firmware PROVE OneToken'
  BY DEF SessionInv, BusShape, OneToken, Carries, Firmware, FirmwareWrite, Attach, Detach,
         cacheVars, locals, classVars, usbVars, hostVars

LEMMA HostToken == ASSUME Inv, SessionInv, OneToken, Host PROVE OneToken'
  <1> USE DEF cacheVars, locals, classVars, usbVars, hostVars
  <1>0. Nothing.kind = "nothing"
    BY DEF Nothing
  <1>1. CASE \E c \in HostCbws : HostCommand(c)
    <2>1. inbox.kind \in {"block", "reply"} => cmd # Nothing
      BY DEF SessionInv, CommandShape
    <2>2. inbox = Nothing \/ inbox.kind \in {"reply", "block", "csw"}
      BY Kinds DEF Inv
    <2>3. PICK c \in HostCbws : HostCommand(c)
      BY <1>1
    <2>4. /\ bus = "on" /\ req = Nothing /\ outbox' = c /\ req' = c /\ moved' = <<>>
          /\ UNCHANGED <<cmd, inbox, bus>> /\ c # Nothing /\ c.kind = "cbw" /\ c.tag = "current"
      BY <2>3, Issued DEF HostCommand
    <2> QED
      BY <2>1, <2>2, <2>4 DEF OneToken, Carries
  <1>2. CASE \E d \in Data : HostSend(d)
    BY <1>2 DEF HostSend, OneToken, Carries
  <1>3. CASE HostTake
    <2>1. CASE inbox.kind = "csw"
      <3>1. Carries(inbox, "current")
        BY <1>3, <2>1 DEF HostTake, Due, Carries
      <3> QED
        BY <1>0, <1>3, <2>1, <3>1 DEF HostTake, OneToken, Carries
    <2>2. CASE inbox.kind \in {"reply", "block"}
      <3>1. cmd # Nothing
        BY <2>2 DEF SessionInv, CommandShape
      <3>2. req.op = "write" => UNCHANGED moved
        BY <1>3, <2>2 DEF HostTake, Due
      <3> QED
        BY <1>0, <1>3, <2>2, <3>1, <3>2 DEF HostTake, OneToken, Carries
    <2> QED
      BY <1>3, <2>1, <2>2, Kinds DEF HostTake, Inv
  <1>4. CASE HostConfused \/ HostReset \/ HostConfigure
    BY <1>4 DEF HostConfused, HostReset, HostConfigure, OneToken
  <1> QED
    BY <1>1, <1>2, <1>3, <1>4 DEF Host

LEMMA DeviceTaskToken == ASSUME Inv, SessionInv, OneToken, DeviceTask PROVE OneToken'
  <1> USE DEF cacheVars, locals, classVars, usbVars, hostVars
  <1>0. Nothing.kind = "nothing"
    BY DEF Nothing
  <1>1. CASE PollQuiet
    BY <1>1 DEF PollQuiet, OneToken, Carries
  <1>2. CASE PollReset
    BY <1>2 DEF PollReset, OneToken
  <1>3. CASE PollConfigure
    <2>1. cmd' = Nothing /\ outbox' = Nothing /\ inbox' = Nothing
      BY <1>3 DEF PollConfigure, SessionInv, BusShape, CommandShape, Alive
    <2> QED
      BY <1>0, <2>1 DEF OneToken, Carries
  <1>4. CASE PollClassReset
    <2>1. ASSUME NEW m \in OutMsg \cup InMsg
          PROVE  ~Carries(Retag(m, {"current"}, "abandoned"), "current")
      BY Retagged DEF Carries, Tags
    <2>2. cmd \in OutMsg /\ outbox \in OutMsg /\ inbox \in InMsg
      BY MessageTypes DEF Inv, TypeOK
    <2> QED
      BY <1>4, <2>1, <2>2 DEF PollClassReset, OneToken
  <1> QED
    BY <1>1, <1>2, <1>3, <1>4 DEF DeviceTask

LEMMA ClassTaskToken == ASSUME Inv, SessionInv, OneToken, ClassTask PROVE OneToken'
  <1>0. Nothing.kind = "nothing"
    BY DEF Nothing
  <1>a. UNCHANGED <<ep, bus, req, moved>>
    BY ClassFrame
  <1>1. CASE ReadCbw
    <2>1. /\ cmd' = outbox /\ outbox.kind = "cbw" /\ outbox' = Nothing /\ UNCHANGED inbox
      BY <1>1 DEF ReadCbw
    <2> QED
      BY <1>0, <1>a, <2>1 DEF OneToken, Carries
  <1>2. CASE SendCsw
    <2>1. bus = "on" => inbox'.kind = "csw" /\ inbox'.tag = cmd.tag
      BY <1>2 DEF SendCsw, SessionInv, BusShape
    <2>2. cmd' = Nothing /\ UNCHANGED outbox /\ pc = "csw"
      BY <1>2 DEF SendCsw, At
    <2>3. cmd.kind = "cbw" /\ (outbox.kind = "csw" => FALSE)
      BY <2>2, Kinds DEF SessionInv, CommandShape, Alive, Inv
    <2> QED
      BY <1>0, <1>a, <2>1, <2>2, <2>3 DEF OneToken, Carries
  <1>3. CASE /\ UNCHANGED <<cmd, outdated>> /\ outbox' \in {outbox, Nothing}
             /\ \/ UNCHANGED inbox
                \/ inbox = Nothing /\ inbox'.kind \in {"reply", "block"} /\ Alive
    <2>1. Alive => cmd # Nothing
      BY DEF SessionInv, CommandShape
    <2> QED
      BY <1>0, <1>a, <1>3, <2>1 DEF OneToken, Carries
  <1> QED
    BY <1>1, <1>2, <1>3, ClassMessages

LEMMA TokenHolds == Spec => []OneToken
  <1>1. Inv /\ SessionInv /\ OneToken /\ [Next]_vars => OneToken'
    <2>1. ASSUME Inv, SessionInv, OneToken, Next PROVE OneToken'
      BY <2>1, FirmwareToken, HostToken, DeviceTaskToken, ClassTaskToken DEF Next
    <2>2. ASSUME OneToken, UNCHANGED vars PROVE OneToken'
      BY <2>2 DEF OneToken, Carries, vars, cacheVars, locals, classVars, usbVars, hostVars
    <2> QED
      BY <2>1, <2>2
  <1> QED
    BY <1>1, InitToken, InvHolds, SessionHolds, PTL DEF Spec

-----------------------------------------------------------------------------
(* The steps of the command the host waits on                              *)

Mine == bus = "on" /\ Carries(cmd, "current")

(* A packet of data in an endpoint, counted as a block.                    *)
InTransit(msg) == IF msg.kind = "block" THEN 1 ELSE 0

Done == cur - cmd.lba

Kept(k) == moved[k] = card[cmd.lba + k - 1]

LEMMA MineIs ==
    ASSUME Inv, SessionInv, OneToken, Mine
    PROVE  /\ req = cmd /\ cmd \in HostCbws /\ cmd.lba \in Nat /\ cmd.n \in Nat /\ Alive
           /\ cur \in Nat /\ Done \in Nat /\ cmd.lba <= cur /\ cur <= cmd.lba + cmd.n
           /\ moved \in Seq(Data) /\ Len(moved) \in Nat
           /\ outbox.kind \in {"nothing", "block"} /\ ~Carries(inbox, "current")
           /\ ep /\ shared.attached
  <1>1. cmd # Nothing /\ req = cmd /\ outbox.kind # "cbw" /\ ~Carries(inbox, "current")
    BY DEF Mine, OneToken, Carries, Nothing
  <1>2. Alive /\ cmd \in HostCbws /\ ep /\ shared.attached
    BY <1>1 DEF SessionInv, BusShape, CommandShape, Mine
  <1>3. outbox.kind \in {"nothing", "block"}
    BY <1>1, Kinds DEF Inv
  <1>4. /\ cmd.lba \in Nat /\ cmd.n \in Nat /\ cur \in Nat /\ cmd.lba <= cur /\ cur <= End
        /\ moved \in Seq(Data)
    BY <1>2, Running DEF Alive, Inv, TypeOK
  <1> QED
    BY <1>1, <1>2, <1>3, <1>4 DEF Done, End

(* How a command can be the host's own after a step.                       *)
LEMMA MineSteps ==
    ASSUME Inv, SessionInv, OneToken, [Next]_vars, Mine'
    PROVE  \/ ReadCbw /\ Carries(outbox, "current") /\ bus = "on"
           \/ /\ Mine /\ UNCHANGED <<cmd, req, bus>>
              /\ \/ \E d \in Data : HostSend(d)
                 \/ HostTake /\ inbox.kind \in {"reply", "block"}
                 \/ ClassTask /\ ~ReadCbw /\ ~SendCsw
                 \/ UNCHANGED <<card, shared, cacheVars, classVars, usbVars, hostVars, torn>>
  <1> USE DEF classVars, usbVars, hostVars
  <1>0. Nothing.kind = "nothing"
    BY DEF Nothing
  <1>1. CASE Firmware
    BY <1>1
    DEF Firmware, FirmwareWrite, Attach, Detach, Mine, SessionInv, BusShape
  <1>2. CASE Host
    <2>1. CASE \E c \in HostCbws : HostCommand(c)
      BY <2>1 DEF HostCommand, Mine, Carries, OneToken
    <2>2. CASE \E d \in Data : HostSend(d)
      BY <2>2 DEF HostSend, Mine, Carries
    <2>3. CASE HostTake
      <3>1. Mine /\ UNCHANGED <<cmd, bus>>
        BY <2>3 DEF HostTake, Mine, Carries
      <3>2. inbox.kind # "csw"
        <4>1. inbox.kind = "csw" => Carries(inbox, "current")
          BY <2>3 DEF HostTake, Due, Carries
        <4>2. ~Carries(inbox, "current")
          BY <3>1 DEF OneToken, Mine
        <4> QED
          BY <4>1, <4>2
      <3> QED
        BY <2>3, <3>1, <3>2, Kinds DEF HostTake, Inv
    <2>4. CASE HostConfused \/ HostReset \/ HostConfigure
      BY <2>4 DEF HostConfused, HostReset, HostConfigure, Mine
    <2> QED
      BY <1>2, <2>1, <2>2, <2>3, <2>4 DEF Host
  <1>3. CASE DeviceTask
    <2>1. CASE PollQuiet
      BY <2>1 DEF PollQuiet, Mine, Carries
    <2>2. CASE PollReset
      BY <2>2 DEF PollReset, Mine
    <2>3. CASE PollConfigure
      BY <1>0, <2>3
      DEF PollConfigure, Mine, Carries, SessionInv, BusShape, CommandShape, Alive
    <2>4. CASE PollClassReset
      <3>1. ~Carries(cmd', "current")
        <4>1. cmd \in OutMsg
          BY MessageTypes DEF Inv, TypeOK
        <4>2. cmd' = Retag(cmd, {"current"}, "abandoned")
          BY <2>4 DEF PollClassReset
        <4> QED
          BY <4>1, <4>2, Retagged DEF Carries, Tags
      <3> QED
        BY <3>1 DEF Mine, Carries
    <2> QED
      BY <1>3, <2>1, <2>2, <2>3, <2>4 DEF DeviceTask
  <1>4. CASE ClassTask
    <2>1. UNCHANGED <<req, bus>>
      BY <1>4, ClassFrame
    <2>2. CASE ReadCbw
      BY <2>1, <2>2 DEF ReadCbw, Mine, Carries
    <2>3. CASE SendCsw
      BY <1>0, <2>3 DEF SendCsw, Mine, Carries
    <2>4. CASE ~ReadCbw /\ ~SendCsw
      <3>1. UNCHANGED cmd
        BY <1>4, <2>4, ClassMessages
      <3> QED
        BY <1>4, <2>1, <2>4, <3>1 DEF Mine, Carries
    <2> QED
      BY <2>2, <2>3, <2>4
  <1>5. CASE UNCHANGED vars
    BY <1>5 DEF vars, Mine, Carries
  <1> QED
    BY <1>1, <1>2, <1>3, <1>4, <1>5 DEF Next

(* What the class does for a write, and what for a read.                   *)
LEMMA WriteStepsOnly ==
    ASSUME Inv, SessionInv, OneToken, Mine, cmd.op = "write",
           ClassTask, ~ReadCbw, ~SendCsw
    PROVE  \/ ExecuteWrite \/ ReceiveBlock \/ OutFails \/ Commit
           \/ (\E k \in 0 .. LineBlocks : CommitFails(k)) \/ DiscardBlock \/ Yield
  <1>1. Alive /\ pc \notin {"lookup", "send", "reply"}
    BY MineIs DEF SessionInv, CommandShape, ReplyOps
  <1>2. ~IgnoreOut /\ ~Park /\ ~Unpark
    BY <1>1 DEF IgnoreOut, Park, Unpark, At, Alive
  <1>3. /\ ~ExecuteRejected /\ ~ExecuteNoData /\ ~ExecuteTestUnitReady /\ ~ExecuteStartStop
        /\ ~ExecuteReply /\ ~SendReply /\ ~ExecuteRead
    BY <1>1
    DEF ExecuteRejected, ExecuteNoData, ExecuteTestUnitReady, ExecuteStartStop, ExecuteReply,
        SendReply, ExecuteRead, Executing, At, StopOps, ReplyOps
  <1>4. ~ReadSteps
    BY <1>1, <1>3
    DEF ReadSteps, LookupHit, LookupMiss, LookupFails, Missed, SendBlock, SendFails, At
  <1> QED
    BY <1>2, <1>3, <1>4 DEF ClassTask, WriteSteps

LEMMA ReadStepsOnly ==
    ASSUME Inv, SessionInv, OneToken, Mine, cmd.op = "read",
           ClassTask, ~ReadCbw, ~SendCsw
    PROVE  ReadSteps \/ Yield
  <1>1. Alive /\ pc \notin {"receive", "commit", "discard", "reply"}
    BY MineIs DEF SessionInv, CommandShape, ReplyOps
  <1>2. ~IgnoreOut /\ ~Park /\ ~Unpark
    BY <1>1 DEF IgnoreOut, Park, Unpark, At, Alive
  <1>3. /\ ~ExecuteRejected /\ ~ExecuteNoData /\ ~ExecuteTestUnitReady /\ ~ExecuteStartStop
        /\ ~ExecuteReply /\ ~SendReply /\ ~ExecuteWrite
    BY <1>1
    DEF ExecuteRejected, ExecuteNoData, ExecuteTestUnitReady, ExecuteStartStop, ExecuteReply,
        SendReply, ExecuteWrite, Executing, At, StopOps, ReplyOps
  <1>4. ~WriteSteps
    BY <1>1, <1>3
    DEF WriteSteps, ReceiveBlock, OutFails, Commit, CommitFails, DiscardBlock, At
  <1> QED
    BY <1>2, <1>3, <1>4 DEF ClassTask

-----------------------------------------------------------------------------
(* Writes                                                                  *)

(* Every block the host has sent is on the card, in the chunk, in the OUT  *)
(* endpoint or dropped, and in this order.                                 *)
WriteState ==
    /\ Len(moved) <= cmd.n
    /\ Done <= Len(moved) /\ \A k \in 1 .. Done : Kept(k)
    /\ outbox.kind = "block" => Len(moved) > 0 /\ moved[Len(moved)] = outbox.data
    /\ pc = "execute" => Len(moved) = InTransit(outbox)
    /\ pc \in {"receive", "commit"} =>
         /\ Len(moved) = Done + Len(chunk) + InTransit(outbox)
         /\ \A j \in 1 .. Len(chunk) : chunk[j] = moved[Done + j]
    /\ pc = "discard" => Len(moved) = cmd.n - left + InTransit(outbox)
    /\ pc = "csw" /\ status # "phase_error" => Len(moved) = cmd.n /\ outbox = Nothing

WriteInv == Mine /\ cmd.op = "write" => WriteState

LEMMA WriteFrame ==
    ASSUME WriteState, UNCHANGED <<card, pc, cmd, cur, chunk, left, status, outbox, moved>>
    PROVE  WriteState'
  BY DEF WriteState, Done, Kept, InTransit

(* The command block: nothing has been sent yet.                           *)
LEMMA ReadCbwWrite ==
    ASSUME Inv, SessionInv, OneToken, ReadCbw, Carries(outbox, "current"), bus = "on",
           cmd'.op = "write"
    PROVE  WriteState'
  <1>1. /\ cmd' = outbox /\ cur' = outbox.lba /\ pc' = "execute" /\ outbox' = Nothing
        /\ UNCHANGED moved
    BY DEF ReadCbw, Frame, hostVars
  <1>2. req = outbox /\ moved = <<>>
    BY <1>1 DEF OneToken
  <1>3. outbox.lba \in Nat /\ outbox.n \in Nat
    BY Kinds DEF ReadCbw, Inv, Cbw
  <1>4. Len(moved) = 0 /\ Done' = 0 /\ InTransit(outbox') = 0 /\ outbox'.kind = "nothing"
    BY <1>1, <1>2, <1>3 DEF Done, InTransit, Nothing
  <1> QED
    BY <1>1, <1>3, <1>4 DEF WriteState

(* One more block is on its way.                                           *)
LEMMA HostSendWrite ==
    ASSUME Inv, SessionInv, OneToken, Mine, cmd.op = "write", WriteState,
           NEW d \in Data, HostSend(d)
    PROVE  WriteState'
  <1>1. /\ outbox = Nothing /\ Len(moved) < cmd.n /\ moved' = Append(moved, d)
        /\ outbox' = [kind |-> "block", data |-> d]
        /\ UNCHANGED <<card, pc, cmd, cur, chunk, left, status>>
    BY MineIs DEF HostSend, classVars, locals
  <1>2. moved \in Seq(Data) /\ Len(moved) \in Nat /\ Done \in Nat /\ cmd.n \in Nat
        /\ chunk \in Seq(Data) /\ Len(chunk) \in Nat /\ left \in Nat
    BY MineIs DEF Inv, TypeOK
  <1>3. /\ Len(moved') = Len(moved) + 1 /\ moved'[Len(moved) + 1] = d
        /\ \A k \in 1 .. Len(moved) : moved'[k] = moved[k]
    BY <1>1, <1>2, AppendProperties
  <1>4. InTransit(outbox) = 0 /\ InTransit(outbox') = 1 /\ outbox'.data = d /\ Done' = Done
    BY <1>1 DEF InTransit, Nothing, Done
  <1>5. \A k \in 1 .. Done : Kept(k)'
    <2> SUFFICES ASSUME NEW k \in 1 .. Done PROVE Kept(k)'
      OBVIOUS
    <2>1. Kept(k) /\ k \in 1 .. Len(moved)
      BY <1>2 DEF WriteState
    <2> QED
      BY <1>1, <1>3, <2>1 DEF Kept
  <1>6. pc' \in {"receive", "commit"} =>
            /\ Len(moved') = Done' + Len(chunk') + InTransit(outbox')
            /\ \A j \in 1 .. Len(chunk') : chunk'[j] = moved'[Done' + j]
    BY <1>1, <1>2, <1>3, <1>4 DEF WriteState
  <1> QED
    BY SMTT(20), <1>1, <1>2, <1>3, <1>4, <1>5, <1>6 DEF WriteState

(* What is received comes after what the chunk holds.                      *)
LEMMA ReceiveBlockWrite ==
    ASSUME Inv, SessionInv, OneToken, Mine, cmd.op = "write", WriteState, ReceiveBlock
    PROVE  WriteState'
  <1>1. /\ pc = "receive" /\ outbox.kind = "block" /\ outbox' = Nothing
        /\ chunk' = Append(chunk, outbox.data) /\ pc' \in {"receive", "commit"}
        /\ UNCHANGED <<card, cmd, cur, status, left, moved>>
    BY DEF ReceiveBlock, At, GoTo, Frame, hostVars
  <1>2. moved \in Seq(Data) /\ Len(moved) \in Nat /\ Done \in Nat
        /\ chunk \in Seq(Data) /\ Len(chunk) \in Nat /\ outbox.data \in Data
    <2>1. outbox \in OutMsg /\ chunk \in Seq(Data)
      BY DEF Inv, TypeOK
    <2>2. outbox.data \in Data
      BY <1>1, <2>1, MessageTypes
    <2> QED
      BY <2>1, <2>2, MineIs
  <1>3. /\ Len(chunk') = Len(chunk) + 1 /\ chunk'[Len(chunk) + 1] = outbox.data
        /\ \A j \in 1 .. Len(chunk) : chunk'[j] = chunk[j]
    BY <1>1, <1>2, AppendProperties
  <1>4. InTransit(outbox) = 1 /\ InTransit(outbox') = 0 /\ Done' = Done
    BY <1>1 DEF InTransit, Nothing, Done
  <1>5. Len(moved) = Done + Len(chunk) + 1 /\ moved[Len(moved)] = outbox.data
    BY <1>1, <1>4 DEF WriteState
  <1>6. \A j \in 1 .. Len(chunk') : chunk'[j] = moved'[Done' + j]
    <2> SUFFICES ASSUME NEW j \in 1 .. Len(chunk') PROVE chunk'[j] = moved[Done + j]
      BY <1>1, <1>4
    <2>1. CASE j \in 1 .. Len(chunk)
      BY <1>1, <1>3, <2>1 DEF WriteState
    <2>2. CASE j = Len(chunk) + 1
      <3>1. Done + j = Len(moved)
        BY <1>2, <1>5, <2>2
      <3> QED
        BY <1>3, <1>5, <2>2, <3>1
    <2> QED
      BY <1>2, <1>3, <2>1, <2>2
  <1>7. outbox'.kind = "nothing"
    BY <1>1 DEF Nothing
  <1>8. \A k \in 1 .. Done' : Kept(k)'
    BY <1>1, <1>4 DEF WriteState, Kept
  <1>9. Len(moved') = Done' + Len(chunk') + InTransit(outbox')
    BY <1>1, <1>2, <1>3, <1>4, <1>5
  <1> QED
    BY <1>1, <1>4, <1>6, <1>7, <1>8, <1>9 DEF WriteState

(* The command is refused, or its data phase begins with nothing lost.     *)
LEMMA ExecuteWriteWrite ==
    ASSUME Inv, SessionInv, OneToken, Mine, cmd.op = "write", WriteState, ExecuteWrite
    PROVE  WriteState'
  <1>1. /\ pc = "execute" /\ UNCHANGED <<card, cmd, cur, outbox, moved>>
    BY DEF ExecuteWrite, Executing, At, Frame, hostVars, Respond, Finish, GoTo, StartChunk
  <1>2. cur = cmd.lba /\ Done = 0 /\ Done' = 0 /\ cmd.n \in Nat /\ Len(moved) \in Nat
    BY <1>1, MineIs DEF Inv, InFlight, Done
  <1>3. Len(moved) = InTransit(outbox) /\ InTransit(outbox') = InTransit(outbox)
    BY <1>1 DEF WriteState, InTransit
  <1>4. \/ pc' = "csw" /\ status' = "phase_error"
        \/ pc' = "csw" /\ cmd.n = 0
        \/ pc' = "discard" /\ left' = cmd.n
        \/ pc' = "receive" /\ chunk' = <<>>
    BY DEF ExecuteWrite, Respond, Finish, GoTo, StartChunk
  <1>5. cmd.n = 0 => outbox.kind # "block" /\ Len(moved) = 0
    BY <1>2, <1>3 DEF WriteState, InTransit
  <1>6. outbox.kind # "block" => outbox = Nothing
    BY MineIs, Kinds DEF Inv
  <1>7. Len(<<>>) = 0
    OBVIOUS
  <1> QED
    BY <1>1, <1>2, <1>3, <1>4, <1>5, <1>6, <1>7 DEF WriteState

LEMMA OutFailsWrite ==
    ASSUME Inv, SessionInv, OneToken, Mine, cmd.op = "write", WriteState, OutFails
    PROVE  WriteState'
  <1>1. FALSE
    BY MineIs DEF OutFails
  <1> QED
    BY <1>1

(* A packet dropped is one of what is left.                                *)
LEMMA DiscardBlockWrite ==
    ASSUME Inv, SessionInv, OneToken, Mine, cmd.op = "write", WriteState, DiscardBlock
    PROVE  WriteState'
  <1>1. /\ pc = "discard" /\ outbox.kind = "block" /\ outbox' = Nothing
        /\ UNCHANGED <<card, cmd, cur, moved>>
        /\ \/ left = 1 /\ pc' = "csw" /\ status' = "failed"
           \/ pc' = "discard" /\ left' = left - 1
    BY DEF DiscardBlock, At, GoTo, Finish, Frame, hostVars
  <1>2. InTransit(outbox) = 1 /\ InTransit(outbox') = 0 /\ Done' = Done
        /\ outbox'.kind = "nothing"
    BY <1>1 DEF InTransit, Nothing, Done
  <1>3. Len(moved) = cmd.n - left + 1 /\ cmd.n \in Nat /\ left \in Nat /\ Len(moved) \in Nat
    BY <1>1, <1>2, MineIs DEF WriteState, Inv, TypeOK
  <1>4. \A k \in 1 .. Done' : Kept(k)'
    BY <1>1, <1>2 DEF WriteState, Kept
  <1> QED
    BY <1>1, <1>2, <1>3, <1>4 DEF WriteState

(* Blocks below the cursor keep what they hold when a chunk is written.    *)
LEMMA StoredKeeps ==
    ASSUME Inv, SessionInv, OneToken, Mine, WriteState, pc = "commit", NEW n \in Nat,
           n <= ChunkLen, card' = Stored(Written(n)), UNCHANGED <<cmd, moved>>
    PROVE  \A k \in 1 .. Done : Kept(k)'
  <1> SUFFICES ASSUME NEW k \in 1 .. Done PROVE Kept(k)'
    OBVIOUS
  <1>1. /\ cmd.lba \in Nat /\ cur \in Nat /\ cmd.lba <= cur /\ Done = cur - cmd.lba
        /\ cur < CardBlocks
    BY MineIs DEF Done, Inv, InFlight, End
  <1>2. cmd.lba + k - 1 \in Blocks /\ cmd.lba + k - 1 < cur
    BY <1>1
  <1>3. /\ DOMAIN Written(n) = cur .. cur + n - 1
        /\ \A b \in Blocks : Stored(Written(n))[b] =
              IF b \in DOMAIN Written(n) THEN Written(n)[b] ELSE card[b]
    BY WrittenType
  <1>4. card'[cmd.lba + k - 1] = card[cmd.lba + k - 1]
    BY <1>1, <1>2, <1>3
  <1>5. Kept(k)
    BY DEF WriteState
  <1> QED
    BY <1>4, <1>5 DEF Kept

(* A data phase that is over has nothing on the way.                       *)
LEMMA AllSent ==
    ASSUME NEW done \in Nat, NEW w \in Nat, NEW n \in Nat, NEW t \in 0 .. 1, NEW m \in Nat,
           m = done + w + t, m <= n, done + w = n
    PROVE  t = 0 /\ m = n
  OBVIOUS

LEMMA CommitWrite ==
    ASSUME Inv, SessionInv, OneToken, Mine, cmd.op = "write", WriteState, Commit
    PROVE  WriteState'
  <1>1. /\ pc = "commit" /\ card' = Stored(Written(ChunkLen)) /\ cur' = cur + ChunkLen
        /\ UNCHANGED <<cmd, moved, outbox>>
        /\ \/ cur + ChunkLen = End /\ pc' = "csw"
           \/ pc' = "receive" /\ chunk' = <<>>
    BY DEF Commit, At, GoTo, Finish, StartChunk, Frame, hostVars
  <1>2. /\ cmd.lba \in Nat /\ cmd.n \in Nat /\ cur \in Nat /\ cmd.lba <= cur
        /\ Done \in Nat /\ Done = cur - cmd.lba /\ End = cmd.lba + cmd.n
        /\ Len(moved) \in Nat /\ ChunkLen \in Nat /\ Len(chunk) = ChunkLen
        /\ cur + ChunkLen <= End /\ End <= CardBlocks
    <2>1. ChunkLen \in Nat /\ cur + ChunkLen <= End
      <3>1. 0 \in Nat /\ 0 <= ChunkLen
        BY <1>1, Running DEF ChunkLen
      <3> QED
        BY <1>1, <3>1, WrittenType
    <2> QED
      BY <1>1, <2>1, MineIs DEF Done, End, Inv, InFlight
  <1>3. /\ DOMAIN Written(ChunkLen) = cur .. cur + ChunkLen - 1
        /\ \A b \in Blocks : Stored(Written(ChunkLen))[b] =
              IF b \in DOMAIN Written(ChunkLen) THEN Written(ChunkLen)[b] ELSE card[b]
    BY SMTT(20), <1>1, <1>2, WrittenType
  <1>4. Done' = Done + ChunkLen /\ InTransit(outbox') = InTransit(outbox)
        /\ InTransit(outbox) \in 0 .. 1
    BY <1>1, <1>2 DEF Done, InTransit
  <1>5. Len(moved) = Done + ChunkLen + InTransit(outbox)
    BY <1>1, <1>2 DEF WriteState
  <1>6. \A k \in 1 .. Done' : Kept(k)'
    <2> SUFFICES ASSUME NEW k \in 1 .. Done' PROVE Kept(k)'
      OBVIOUS
    <2>1. CASE k \in 1 .. Done
      BY <1>1, <1>2, <2>1, StoredKeeps
    <2>2. CASE k \in Done + 1 .. Done + ChunkLen
      <3> DEFINE b == cmd.lba + k - 1
      <3>1. /\ b \in Blocks /\ b \in cur .. cur + ChunkLen - 1
            /\ b - cur + 1 = k - Done /\ k - Done \in 1 .. Len(chunk)
        <4>1. /\ cmd.lba \in Nat /\ cur \in Nat /\ cmd.lba <= cur /\ ChunkLen \in Nat
              /\ CardBlocks \in Nat
          BY <1>2
        <4>2. cur + ChunkLen <= CardBlocks
          BY <1>2, <4>1
        <4>3. Done = cur - cmd.lba
          BY <1>2
        <4>4. b \in Blocks /\ b \in cur .. cur + ChunkLen - 1
          BY ONLY <2>2, <4>1, <4>2, <4>3 DEF Blocks
        <4>5. b - cur + 1 = k - Done /\ k - Done \in 1 .. ChunkLen
          BY ONLY <2>2, <4>1, <4>3
        <4>6. Len(chunk) = ChunkLen
          BY <1>2
        <4> QED
          BY <4>4, <4>5, <4>6
      <3>2. card'[b] = Written(ChunkLen)[b]
        BY <1>1, <1>3, <3>1
      <3>3. Written(ChunkLen)[b] = chunk[b - cur + 1]
        BY <3>1 DEF Written
      <3>4. chunk[k - Done] = moved[Done + (k - Done)]
        BY <1>1, <3>1 DEF WriteState
      <3>5. Done + (k - Done) = k
        BY <1>2, <2>2
      <3>6. card'[b] = moved[k]
        BY <3>1, <3>2, <3>3, <3>4, <3>5
      <3>7. moved' = moved /\ cmd'.lba + k - 1 = b
        BY <1>1
      <3> QED
        BY <3>6, <3>7 DEF Kept
    <2> QED
      BY <1>2, <1>4, <2>1, <2>2
  <1>7. Len(moved) <= cmd.n /\ (outbox.kind = "block" =>
                                  Len(moved) > 0 /\ moved[Len(moved)] = outbox.data)
    BY DEF WriteState
  <1>8. outbox.kind # "block" => outbox = Nothing
    BY MineIs, Kinds DEF Inv
  <1>9. CASE cur + ChunkLen = End /\ pc' = "csw"
    <2>1. Done + ChunkLen = cmd.n /\ InTransit(outbox) = 0
      <3>1. Done + ChunkLen = cmd.n
        BY ONLY <1>2, <1>9
      <3> QED
        BY <1>2, <1>4, <1>5, <1>7, <3>1, AllSent
    <2>2. outbox = Nothing
      BY <1>8, <2>1 DEF InTransit
    <2>3. Len(moved) = cmd.n /\ Done' <= Len(moved) /\ outbox'.kind = "nothing"
          /\ outbox' = Nothing
      BY <1>1, <1>2, <1>4, <1>5, <2>1, <2>2 DEF Nothing
    <2> QED
      BY <1>1, <1>6, <1>7, <1>9, <2>3 DEF WriteState
  <1>10. CASE pc' = "receive" /\ chunk' = <<>>
    <2>1. Len(chunk') = 0 /\ Len(moved') = Done' + Len(chunk') + InTransit(outbox')
      BY <1>1, <1>2, <1>4, <1>5, <1>10
    <2>2. Done' <= Len(moved)
      <3>1. Done \in Nat /\ ChunkLen \in Nat
        BY <1>2
      <3> QED
        BY ONLY <1>4, <1>5, <3>1
    <2>3. \A j \in 1 .. Len(chunk') : chunk'[j] = moved'[Done' + j]
      BY <2>1
    <2> QED
      BY <1>1, <1>6, <1>7, <1>10, <2>1, <2>2, <2>3 DEF WriteState
  <1> QED
    BY <1>1, <1>9, <1>10

(* What is left of the data phase after a failed CMD25 is what discard_out *)
(* is called with.                                                         *)
LEMMA CommitFailsWrite ==
    ASSUME Inv, SessionInv, OneToken, Mine, cmd.op = "write", WriteState,
           NEW n \in 0 .. LineBlocks, CommitFails(n)
    PROVE  WriteState'
  <1>1. /\ pc = "commit" /\ n \in Nat /\ n <= ChunkLen /\ card' = Stored(Written(n))
        /\ UNCHANGED <<cmd, cur, moved, outbox>>
        /\ \/ Rest = 0 /\ pc' = "csw" /\ status' = "failed"
           \/ pc' = "discard" /\ left' = Rest
    BY DEF CommitFails, At, GoTo, Finish, Respond, Frame, hostVars
  <1>2. /\ cmd.lba \in Nat /\ cmd.n \in Nat /\ cur \in Nat /\ cmd.lba <= cur
        /\ Done \in Nat /\ Done = cur - cmd.lba /\ Len(moved) \in Nat
        /\ ChunkLen \in Nat /\ Len(chunk) = ChunkLen
        /\ Rest = cmd.n - Done - ChunkLen
    <2>1. ChunkLen \in Nat
      BY <1>1, WrittenType
    <2> QED
      BY <1>1, <2>1, MineIs DEF Done, End, Residue, Rest, Inv, InFlight
  <1>3. \A k \in 1 .. Done' : Kept(k)'
    <2>1. Done' = Done
      BY <1>1 DEF Done
    <2> QED
      BY <1>1, <2>1, StoredKeeps
  <1>4. Done' = Done /\ InTransit(outbox') = InTransit(outbox)
        /\ InTransit(outbox) \in 0 .. 1
    BY <1>1, <1>2 DEF Done, InTransit
  <1>5. Len(moved) = Done + ChunkLen + InTransit(outbox)
    BY <1>1, <1>2 DEF WriteState
  <1>6. Len(moved) <= cmd.n /\ (outbox.kind = "block" =>
                                  Len(moved) > 0 /\ moved[Len(moved)] = outbox.data)
    BY DEF WriteState
  <1>7. outbox.kind # "block" => outbox = Nothing
    BY MineIs, Kinds DEF Inv
  <1>8. CASE Rest = 0 /\ pc' = "csw"
    <2>1. Done + ChunkLen = cmd.n /\ InTransit(outbox) = 0
      <3>1. Done + ChunkLen = cmd.n
        <4>1. /\ cmd.n \in Nat /\ Done \in Nat /\ ChunkLen \in Nat
              /\ Rest = cmd.n - Done - ChunkLen /\ Rest = 0
          BY <1>2, <1>8
        <4> QED
          BY ONLY <4>1
      <3> QED
        BY <1>2, <1>4, <1>5, <1>6, <3>1, AllSent
    <2>2. outbox = Nothing
      BY <1>7, <2>1 DEF InTransit
    <2>3. Len(moved) = cmd.n /\ Done' <= Len(moved) /\ outbox'.kind = "nothing"
          /\ outbox' = Nothing
      <3>1. Len(moved) = cmd.n /\ Done <= cmd.n
        BY ONLY SMTT(20), <1>2, <1>5, <2>1, AllSent
      <3>2. outbox' = Nothing /\ Nothing.kind = "nothing"
        BY <1>1, <2>2 DEF Nothing
      <3> QED
        BY ONLY <1>4, <3>1, <3>2
    <2> QED
      BY <1>1, <1>3, <1>6, <1>8, <2>3 DEF WriteState
  <1>9. CASE pc' = "discard" /\ left' = Rest
    <2>1. Len(moved') = cmd'.n - left' + InTransit(outbox')
      <3>1. Len(moved) = cmd.n - Rest + InTransit(outbox)
        <4>1. /\ cmd.n \in Nat /\ Done \in Nat /\ ChunkLen \in Nat /\ InTransit(outbox) \in Nat
              /\ Rest = cmd.n - Done - ChunkLen
          BY <1>2, <1>4
        <4> QED
          BY ONLY <1>5, <4>1
      <3> QED
        BY ONLY <1>1, <1>4, <1>9, <3>1
    <2>2. Done' <= Len(moved)
      <3>1. Done \in Nat /\ ChunkLen \in Nat
        BY <1>2
      <3> QED
        BY ONLY <1>4, <1>5, <3>1
    <2> QED
      BY <1>1, <1>3, <1>6, <1>9, <2>1, <2>2 DEF WriteState
  <1> QED
    BY <1>1, <1>8, <1>9

LEMMA WriteHolds == Spec => []WriteInv
  <1>1. Init => WriteInv
    BY DEF Init, WriteInv, Mine
  <1>2. Inv /\ SessionInv /\ OneToken /\ WriteInv /\ [Next]_vars => WriteInv'
    <2> SUFFICES ASSUME Inv, SessionInv, OneToken, WriteInv, [Next]_vars,
                        Mine', cmd'.op = "write"
                 PROVE  WriteState'
      BY DEF WriteInv
    <2>1. CASE ReadCbw /\ Carries(outbox, "current") /\ bus = "on"
      BY <2>1, ReadCbwWrite
    <2>2. CASE Mine /\ UNCHANGED <<cmd, req, bus>>
      <3>1. WriteState /\ cmd.op = "write" /\ req = cmd
        BY <2>2, MineIs DEF WriteInv
      <3>2. CASE \E d \in Data : HostSend(d)
        BY <2>2, <3>1, <3>2, HostSendWrite
      <3>3. CASE HostTake /\ inbox.kind \in {"reply", "block"}
        BY <3>1, <3>3, WriteFrame DEF HostTake, Due, classVars, locals
      <3>4. CASE UNCHANGED <<card, shared, cacheVars, classVars, usbVars, hostVars, torn>>
        BY <3>1, <3>4, WriteFrame DEF classVars, locals, usbVars, hostVars
      <3>5. CASE ClassTask /\ ~ReadCbw /\ ~SendCsw
        <4>1. CASE Yield
          BY <3>1, <4>1, WriteFrame DEF Yield, classVars, locals, usbVars, hostVars
        <4> QED
          BY <2>2, <3>1, <3>5, <4>1, WriteStepsOnly, ExecuteWriteWrite, ReceiveBlockWrite,
             OutFailsWrite, CommitWrite, CommitFailsWrite, DiscardBlockWrite
      <3>6. \/ \E d \in Data : HostSend(d)
            \/ HostTake /\ inbox.kind \in {"reply", "block"}
            \/ ClassTask /\ ~ReadCbw /\ ~SendCsw
            \/ UNCHANGED <<card, shared, cacheVars, classVars, usbVars, hostVars, torn>>
            \/ ReadCbw /\ Carries(outbox, "current") /\ bus = "on"
        BY MineSteps
      <3> QED
        BY <2>1, <3>2, <3>3, <3>4, <3>5, <3>6
    <2> QED
      BY <2>1, <2>2, MineSteps
  <1> QED
    BY <1>1, <1>2, InvHolds, SessionHolds, TokenHolds, PTL DEF Spec

(* Unless it reports a phase error, a write is answered only when its whole*)
(* data phase has been sent and read, so that the next packet is a command *)
(* block: what the loop of write_10 and discard_out add up to.             *)
THEOREM DataDrained == Spec => []DataPhaseDrained
  <1>1. Inv /\ SessionInv /\ OneToken /\ WriteInv => DataPhaseDrained
    <2> SUFFICES ASSUME Inv, SessionInv, OneToken, WriteInv, bus = "on", pc = "csw",
                        cmd.tag = "current", cmd.op = "write", status # "phase_error"
                 PROVE  req = cmd /\ Len(moved) = req.n /\ outbox = Nothing
      BY DEF DataPhaseDrained
    <2>1. Mine
      BY Kinds DEF SessionInv, CommandShape, Alive, Mine, Carries, Inv
    <2> QED
      BY <2>1, MineIs DEF WriteInv, WriteState
  <1> QED
    BY <1>1, InvHolds, SessionHolds, TokenHolds, WriteHolds, PTL

-----------------------------------------------------------------------------
(* Reads                                                                   *)

(* What the card holds, or held when the write was reported as failed.     *)
Delivered(k) == Kept(k) \/ cmd.lba + k - 1 \in torn

(* Every block sent has been taken by the host or is in the IN endpoint.   *)
(* Behind the status of a command given up nothing moves any more.         *)
ReadState ==
    inbox.kind # "csw" =>
        /\ Len(moved) + InTransit(inbox) = Done
        /\ \A k \in 1 .. Len(moved) : Delivered(k)
        /\ inbox.kind = "block" => inbox.data = card[cur - 1] \/ cur - 1 \in torn

ReadInv == Mine /\ cmd.op = "read" => ReadState

LEMMA ReadFrame ==
    ASSUME ReadState, UNCHANGED <<card, cmd, cur, inbox, moved, torn>>
    PROVE  ReadState'
  BY DEF ReadState, Done, Delivered, Kept, InTransit

LEMMA ReadCbwRead ==
    ASSUME Inv, SessionInv, OneToken, ReadCbw, Carries(outbox, "current"), bus = "on"
    PROVE  ReadState'
  <1>1. /\ cmd' = outbox /\ cur' = outbox.lba /\ UNCHANGED <<moved, inbox>> /\ pc = "idle"
    BY DEF ReadCbw, Frame, hostVars, At
  <1>2. cmd = Nothing
    BY <1>1 DEF SessionInv, CommandShape, Alive
  <1>3. inbox.kind # "csw" => moved = <<>> /\ inbox = Nothing
    BY <1>2 DEF OneToken
  <1>4. outbox.lba \in Nat
    BY Kinds DEF ReadCbw, Inv, Cbw
  <1>5. Done' = 0 /\ (inbox = Nothing => InTransit(inbox') = 0 /\ inbox.kind = "nothing")
    BY <1>1, <1>4 DEF Done, InTransit, Nothing
  <1>6. Len(<<>>) = 0
    OBVIOUS
  <1> QED
    BY <1>1, <1>3, <1>5, <1>6 DEF ReadState

(* The host takes the block that is on its way.                            *)
LEMMA HostTakeRead ==
    ASSUME Inv, SessionInv, OneToken, Mine, cmd.op = "read", ReadState,
           HostTake, inbox.kind \in {"reply", "block"}
    PROVE  ReadState'
  <1>1. inbox.kind = "block"
    BY MineIs DEF HostTake, Due, ReplyOps
  <1>2. /\ moved' = Append(moved, inbox.data) /\ inbox' = Nothing
        /\ UNCHANGED <<card, cmd, cur, torn>>
    BY <1>1 DEF HostTake, classVars, locals
  <1>3. moved \in Seq(Data) /\ Len(moved) \in Nat /\ Done \in Nat /\ inbox.data \in Data
        /\ cmd.lba \in Nat /\ cur \in Nat
    <2>1. inbox \in InMsg
      BY DEF Inv, TypeOK
    <2>2. inbox.data \in Data
      BY <1>1, <2>1, MessageTypes
    <2> QED
      BY <2>2, MineIs
  <1>4. /\ Len(moved') = Len(moved) + 1 /\ moved'[Len(moved) + 1] = inbox.data
        /\ \A k \in 1 .. Len(moved) : moved'[k] = moved[k]
    BY <1>2, <1>3, AppendProperties
  <1>5. InTransit(inbox) = 1 /\ InTransit(inbox') = 0 /\ Done' = Done /\ inbox'.kind = "nothing"
    BY <1>1, <1>2 DEF InTransit, Nothing, Done
  <1>6. Len(moved) + 1 = Done /\ (inbox.data = card[cur - 1] \/ cur - 1 \in torn)
    BY <1>1, <1>5 DEF ReadState
  <1>7. \A k \in 1 .. Len(moved') : Delivered(k)'
    <2> SUFFICES ASSUME NEW k \in 1 .. Len(moved') PROVE Delivered(k)'
      OBVIOUS
    <2>1. CASE k \in 1 .. Len(moved)
      <3>1. Delivered(k)
        BY <1>1, <2>1 DEF ReadState
      <3> QED
        BY <1>2, <1>4, <2>1, <3>1 DEF Delivered, Kept
    <2>2. CASE k = Len(moved) + 1
      <3>1. Done = cur - cmd.lba
        BY DEF Done
      <3>2. cmd.lba + k - 1 = cur - 1
        BY <1>3, <1>6, <2>2, <3>1
      <3> QED
        BY <1>2, <1>4, <1>6, <2>2, <3>2 DEF Delivered, Kept
    <2> QED
      BY <1>3, <1>4, <2>1, <2>2
  <1>8. Len(moved') + InTransit(inbox') = Done'
    BY <1>3, <1>4, <1>5, <1>6
  <1> QED
    BY <1>5, <1>7, <1>8 DEF ReadState

(* A command of this session has dropped the cache of the last, and what is*)
(* left in a line is what the card holds.                                  *)
LEMMA SendBlockRead ==
    ASSUME Inv, SessionInv, OneToken, Earlier, CacheCoherent, Mine, cmd.op = "read", ReadState,
           SendBlock
    PROVE  ReadState'
  <1>1. /\ pc = "send" /\ inbox = Nothing /\ cur' = cur + 1
        /\ inbox' = [kind |-> "block", data |-> lines[slot][cur]]
        /\ UNCHANGED <<card, cmd, moved, torn>>
    BY DEF SendBlock, At, Finish, GoTo, Frame, hostVars
  <1>2. ~outdated /\ shared.attached
    <2>1. cmd # Nothing /\ cmd.tag # "earlier" /\ cmd.op # "other_lun"
      BY DEF Mine, Carries, Nothing
    <2> QED
      BY <2>1, MineIs DEF Earlier
  <1>3. slot \in Slots /\ cur \in DOMAIN lines[slot]
    BY <1>1 DEF Inv, TypeOK, InFlight, Holds
  <1>4. lines[slot][cur] = card[cur] \/ cur \in torn
    BY <1>2, <1>3 DEF CacheCoherent
  <1>5. cur \in Nat /\ cmd.lba \in Nat /\ Done \in Nat /\ Len(moved) \in Nat
    BY MineIs
  <1>6. Done' = Done + 1 /\ cur' - 1 = cur
    BY <1>1, <1>5 DEF Done
  <1>7. InTransit(inbox) = 0 /\ InTransit(inbox') = 1 /\ inbox.kind = "nothing"
    BY <1>1 DEF InTransit, Nothing
  <1>8. Len(moved) = Done /\ \A k \in 1 .. Len(moved) : Delivered(k)
    BY <1>5, <1>7 DEF ReadState
  <1>9. \A k \in 1 .. Len(moved') : Delivered(k)'
    BY <1>1, <1>8 DEF Delivered, Kept
  <1>10. inbox'.data = card'[cur' - 1] \/ cur' - 1 \in torn'
    BY <1>1, <1>4, <1>6
  <1> QED
    BY <1>1, <1>5, <1>6, <1>7, <1>8, <1>9, <1>10 DEF ReadState

LEMMA ReadStepsRead ==
    ASSUME Inv, SessionInv, OneToken, Earlier, CacheCoherent, Mine, cmd.op = "read", ReadState,
           ReadSteps
    PROVE  ReadState'
  <1>1. CASE SendBlock
    BY <1>1, SendBlockRead
  <1>2. CASE SendFails
    BY <1>2, MineIs DEF SendFails
  <1>3. CASE ExecuteRead \/ \E i \in Slots : LookupHit(i) \/ LookupMiss(i) \/ LookupFails(i)
    BY <1>3, ReadFrame
    DEF ExecuteRead, LookupHit, LookupMiss, LookupFails, Respond, Finish, GoTo, ReplyFrame,
        Frame, hostVars
  <1> QED
    BY <1>1, <1>2, <1>3 DEF ReadSteps

LEMMA ReadHolds == Spec => []ReadInv
  <1>1. Init => ReadInv
    BY DEF Init, ReadInv, Mine
  <1>2. Inv /\ SessionInv /\ OneToken /\ Earlier /\ CacheCoherent /\ ReadInv /\ [Next]_vars
            => ReadInv'
    <2> SUFFICES ASSUME Inv, SessionInv, OneToken, Earlier, CacheCoherent, ReadInv, [Next]_vars,
                        Mine', cmd'.op = "read"
                 PROVE  ReadState'
      BY DEF ReadInv
    <2>1. CASE ReadCbw /\ Carries(outbox, "current") /\ bus = "on"
      BY <2>1, ReadCbwRead
    <2>2. CASE Mine /\ UNCHANGED <<cmd, req, bus>>
      <3>1. ReadState /\ cmd.op = "read" /\ req = cmd
        BY <2>2, MineIs DEF ReadInv
      <3>2. CASE \E d \in Data : HostSend(d)
        BY <3>1, <3>2 DEF HostSend
      <3>3. CASE HostTake /\ inbox.kind \in {"reply", "block"}
        BY <2>2, <3>1, <3>3, HostTakeRead
      <3>4. CASE UNCHANGED <<card, shared, cacheVars, classVars, usbVars, hostVars, torn>>
        BY <3>1, <3>4, ReadFrame DEF classVars, locals, usbVars, hostVars
      <3>5. CASE ClassTask /\ ~ReadCbw /\ ~SendCsw
        <4>1. CASE Yield
          BY <3>1, <4>1, ReadFrame DEF Yield, classVars, locals, usbVars, hostVars
        <4> QED
          BY <2>2, <3>1, <3>5, <4>1, ReadStepsOnly, ReadStepsRead
      <3>6. \/ \E d \in Data : HostSend(d)
            \/ HostTake /\ inbox.kind \in {"reply", "block"}
            \/ ClassTask /\ ~ReadCbw /\ ~SendCsw
            \/ UNCHANGED <<card, shared, cacheVars, classVars, usbVars, hostVars, torn>>
            \/ ReadCbw /\ Carries(outbox, "current") /\ bus = "on"
        BY MineSteps
      <3> QED
        BY <2>1, <3>2, <3>3, <3>4, <3>5, <3>6
    <2> QED
      BY <2>1, <2>2, MineSteps
  <1> QED
    BY <1>1, <1>2, InvHolds, SessionHolds, TokenHolds, EarlierHolds, CacheIsCoherent, PTL
    DEF Spec

-----------------------------------------------------------------------------
(* How a command ends                                                      *)

(* The answers to a failure that set no sense: those of read_capacity_16   *)
(* and of a command block for another LUN.                                 *)
Silent == {"capacity_16", "other_lun"}

EndState ==
    /\ pc = "csw" /\ status = "passed" => Residue = 0
    /\ pc = "csw" /\ status = "failed" /\ cmd.op \notin Silent => shared.sense # "none"
    /\ pc = "discard" => shared.sense # "none"

EndInv == Mine => EndState

LEMMA EndFrame ==
    ASSUME EndState, UNCHANGED <<pc, status, cmd, cur, shared>>
    PROVE  EndState'
  BY DEF EndState, Residue, End

LEMMA NothingLeft ==
    ASSUME Inv, SessionInv, OneToken, Mine, cmd.op \notin MediaOps \/ cmd.n = 0
    PROVE  Residue = 0
  <1>1. cmd.n = 0
    BY MineIs, Issued
  <1>2. cmd.lba \in Nat /\ cur \in Nat /\ cmd.lba <= cur /\ cur <= cmd.lba
    BY <1>1, MineIs
  <1> QED
    BY ONLY <1>1, <1>2 DEF Residue, End

LEMMA SenseSet ==
    ASSUME Inv, NEW t \in Senses, t # "none", SetSense(t)
    PROVE  shared'.sense # "none"
  BY DEF SetSense, Inv, TypeOK, Shared

(* A command that is answered without moving the cursor.                   *)
LEMMA Answers ==
    ASSUME Inv, SessionInv, OneToken, Mine, UNCHANGED cur,
           NEW s \in Statuses, NEW t \in Senses \cup {"keep"}, Respond(s, t),
           s = "passed" => cmd.op \notin MediaOps \/ cmd.n = 0,
           s = "failed" => cmd.op \in Silent \/ t \notin {"keep", "none"}
    PROVE  EndState'
  <1>1. pc' = "csw" /\ status' = s /\ UNCHANGED cmd /\ (t # "keep" => SetSense(t))
    BY DEF Respond, Finish
  <1>2. s = "passed" => Residue' = 0
    BY <1>1, NothingLeft DEF Residue, End
  <1>3. t \notin {"keep", "none"} => shared'.sense # "none"
    BY <1>1, SenseSet
  <1> QED
    BY <1>1, <1>2, <1>3 DEF EndState

LEMMA AnswerEnds ==
    ASSUME Inv, SessionInv, OneToken, Mine, EndState,
           ExecuteRejected \/ ExecuteNoData \/ ExecuteTestUnitReady \/ ExecuteStartStop
             \/ ExecuteReply \/ SendReply
    PROVE  EndState'
  <1>a. UNCHANGED <<cur, cmd>>
    BY DEF ExecuteRejected, ExecuteNoData, ExecuteTestUnitReady, ExecuteStartStop, ExecuteReply,
           SendReply, ReplyFrame, Respond, Finish, GoTo
  <1>1. CASE ExecuteRejected
    <2>1. CASE cmd.op = "unknown"
      <3>1. Respond("failed", "illegal_request")
        BY <1>1, <2>1 DEF ExecuteRejected
      <3> QED
        BY <1>a, <3>1, Answers DEF Statuses, Senses
    <2>2. CASE cmd.op = "other_lun"
      <3>1. Respond("failed", "keep")
        BY <1>1, <2>2 DEF ExecuteRejected
      <3> QED
        BY <1>a, <2>2, <3>1, Answers DEF Statuses, Silent
    <2> QED
      BY <1>1, <2>1, <2>2 DEF ExecuteRejected, Executing
  <1>2. CASE ExecuteNoData
    <2>1. Respond("passed", "keep") \/ Respond("phase_error", "illegal_request")
      BY <1>2 DEF ExecuteNoData
    <2>2. cmd.op \notin MediaOps
      BY <1>2 DEF ExecuteNoData, Executing, MediaOps
    <2> QED
      BY <1>a, <2>1, <2>2, Answers DEF Statuses, Senses
  <1>3. CASE ExecuteTestUnitReady
    <2>1. \/ Respond("passed", "keep") \/ Respond("phase_error", "keep")
          \/ Respond("failed", "not_ready")
      BY <1>3 DEF ExecuteTestUnitReady
    <2>2. cmd.op \notin MediaOps
      BY <1>3 DEF ExecuteTestUnitReady, Executing, MediaOps
    <2> QED
      BY <1>a, <2>1, <2>2, Answers DEF Statuses, Senses
  <1>4. CASE ExecuteStartStop
    <2>1. pc' = "csw" /\ status' \in {"passed", "phase_error"} /\ cmd.op \notin MediaOps
      BY <1>4 DEF ExecuteStartStop, Executing, Finish, MediaOps, StopOps
    <2>2. Residue' = 0
      BY <1>a, <2>1, NothingLeft DEF Residue, End
    <2> QED
      BY <2>1, <2>2 DEF EndState
  <1>5. CASE ExecuteReply
    <2>1. CASE pc' = "reply"
      BY <2>1 DEF EndState
    <2>2. CASE Respond("phase_error", "keep")
      BY <1>a, <2>2, Answers DEF Statuses
    <2>3. CASE Respond("failed", "not_ready")
      BY <1>a, <2>3, Answers DEF Statuses, Senses
    <2>4. CASE Respond("failed", "keep") /\ cmd.op = "capacity_16"
      BY <1>a, <2>4, Answers DEF Statuses, Silent
    <2> QED
      BY <1>5, <2>1, <2>2, <2>3, <2>4 DEF ExecuteReply, GoTo
  <1>6. CASE SendReply
    <2>1. Respond("passed", "none") \/ Respond("passed", "keep") \/ Respond("phase_error", "keep")
      BY <1>6 DEF SendReply
    <2>2. cmd.op \notin MediaOps
      BY <1>6 DEF SendReply, At, SessionInv, CommandShape, MediaOps, ReplyOps
    <2> QED
      BY <1>a, <2>1, <2>2, Answers DEF Statuses, Senses
  <1> QED
    BY <1>1, <1>2, <1>3, <1>4, <1>5, <1>6

LEMMA ReadEnds ==
    ASSUME Inv, SessionInv, OneToken, Mine, EndState, ReadSteps
    PROVE  EndState'
  <1>1. CASE ExecuteRead
    <2>1. UNCHANGED cur
      BY <1>1 DEF ExecuteRead, ReplyFrame
    <2>2. CASE pc' = "lookup"
      BY <2>2 DEF EndState
    <2>3. CASE Respond("phase_error", "keep")
      BY <2>1, <2>3, Answers DEF Statuses
    <2>4. CASE Respond("passed", "keep") /\ cmd.n = 0
      BY <2>1, <2>4, Answers DEF Statuses
    <2>5. CASE Respond("failed", "illegal_request")
      BY <2>1, <2>5, Answers DEF Statuses, Senses
    <2> QED
      BY <1>1, <2>2, <2>3, <2>4, <2>5 DEF ExecuteRead, GoTo
  <1>2. CASE \E i \in Slots : LookupHit(i) \/ LookupMiss(i)
    BY <1>2 DEF LookupHit, LookupMiss, GoTo, EndState
  <1>3. CASE \E i \in Slots : LookupFails(i)
    <2>1. UNCHANGED cur /\ Respond("failed", "medium_error")
      BY <1>3 DEF LookupFails
    <2> QED
      BY <2>1, Answers DEF Statuses, Senses
  <1>4. CASE SendBlock
    <2>1. CASE cur + 1 = End
      <3>1. pc' = "csw" /\ status' = "passed" /\ UNCHANGED cmd /\ cur' = End
        BY <1>4, <2>1 DEF SendBlock, Finish
      <3>2. cmd.lba \in Nat /\ cmd.n \in Nat
        BY MineIs
      <3>3. Residue' = 0
        BY ONLY <3>1, <3>2 DEF Residue, End
      <3> QED
        BY <3>1, <3>3 DEF EndState
    <2>2. CASE cur + 1 # End
      BY <1>4, <2>2 DEF SendBlock, GoTo, EndState
    <2> QED
      BY <2>1, <2>2
  <1>5. CASE SendFails
    BY <1>5, MineIs DEF SendFails
  <1> QED
    BY <1>1, <1>2, <1>3, <1>4, <1>5 DEF ReadSteps

LEMMA WriteEnds ==
    ASSUME Inv, SessionInv, OneToken, Mine, EndState, WriteSteps
    PROVE  EndState'
  <1>1. CASE ExecuteWrite
    <2>1. UNCHANGED cur
      BY <1>1 DEF ExecuteWrite
    <2>2. CASE pc' = "receive"
      BY <2>2 DEF EndState
    <2>3. CASE Respond("phase_error", "keep")
      BY <2>1, <2>3, Answers DEF Statuses
    <2>4. CASE Respond("passed", "keep") /\ cmd.n = 0
      BY <2>1, <2>4, Answers DEF Statuses
    <2>5. CASE pc' = "discard" /\ SetSense("illegal_request")
      BY <2>5, SenseSet DEF EndState, Senses
    <2> QED
      BY <1>1, <2>2, <2>3, <2>4, <2>5 DEF ExecuteWrite, StartChunk, GoTo
  <1>2. CASE ReceiveBlock
    BY <1>2 DEF ReceiveBlock, GoTo, EndState
  <1>3. CASE OutFails
    BY <1>3, MineIs DEF OutFails
  <1>4. CASE Commit
    <2>1. CASE cur + ChunkLen = End
      <3>1. pc' = "csw" /\ status' = "passed" /\ UNCHANGED cmd /\ cur' = End
        BY <1>4, <2>1 DEF Commit, Finish
      <3>2. cmd.lba \in Nat /\ cmd.n \in Nat
        BY MineIs
      <3>3. Residue' = 0
        BY ONLY <3>1, <3>2 DEF Residue, End
      <3> QED
        BY <3>1, <3>3 DEF EndState
    <2>2. CASE cur + ChunkLen # End
      BY <1>4, <2>2 DEF Commit, StartChunk, GoTo, EndState
    <2> QED
      BY <2>1, <2>2
  <1>5. CASE \E k \in 0 .. LineBlocks : CommitFails(k)
    <2>1. CASE Rest = 0
      <3>1. UNCHANGED cur /\ Respond("failed", "medium_error")
        BY <1>5, <2>1 DEF CommitFails
      <3> QED
        BY <3>1, Answers DEF Statuses, Senses
    <2>2. CASE Rest # 0
      <3>1. SetSense("medium_error") /\ pc' = "discard"
        BY <1>5, <2>2 DEF CommitFails, GoTo
      <3> QED
        BY <3>1, SenseSet DEF EndState, Senses
    <2> QED
      BY <2>1, <2>2
  <1>6. CASE DiscardBlock
    <2>1. /\ UNCHANGED shared /\ pc = "discard"
          /\ pc' = "discard" \/ (pc' = "csw" /\ status' = "failed")
      BY <1>6 DEF DiscardBlock, At, Finish, GoTo
    <2> QED
      BY <2>1 DEF EndState
  <1> QED
    BY <1>1, <1>2, <1>3, <1>4, <1>5, <1>6 DEF WriteSteps

LEMMA EndHolds == Spec => []EndInv
  <1>1. Init => EndInv
    BY DEF Init, EndInv, Mine
  <1>2. Inv /\ SessionInv /\ OneToken /\ EndInv /\ [Next]_vars => EndInv'
    <2> SUFFICES ASSUME Inv, SessionInv, OneToken, EndInv, [Next]_vars, Mine'
                 PROVE  EndState'
      BY DEF EndInv
    <2>1. CASE ReadCbw
      BY <2>1 DEF ReadCbw, EndState
    <2>2. CASE Mine /\ UNCHANGED <<cmd, req, bus>>
      <3>1. EndState /\ Alive
        BY <2>2, MineIs DEF EndInv
      <3>2. CASE \E d \in Data : HostSend(d)
        BY <3>1, <3>2, EndFrame DEF HostSend, classVars, locals
      <3>3. CASE HostTake
        BY <3>1, <3>3, EndFrame DEF HostTake, classVars, locals
      <3>4. CASE UNCHANGED <<card, shared, cacheVars, classVars, usbVars, hostVars, torn>>
        BY <3>1, <3>4, EndFrame DEF classVars, locals
      <3>5. CASE ClassTask /\ ~ReadCbw /\ ~SendCsw
        <4>1. CASE Yield
          BY <3>1, <4>1, EndFrame DEF Yield, classVars, locals
        <4>2. ~IgnoreOut /\ ~Park /\ ~Unpark
          BY <3>1 DEF IgnoreOut, Park, Unpark, At, Alive
        <4> QED
          BY <2>2, <3>1, <3>5, <4>1, <4>2, AnswerEnds, ReadEnds, WriteEnds DEF ClassTask
      <3> QED
        BY <2>1, <3>2, <3>3, <3>4, <3>5, MineSteps
    <2> QED
      BY <2>1, <2>2, MineSteps
  <1> QED
    BY <1>1, <1>2, InvHolds, SessionHolds, TokenHolds, PTL DEF Spec

-----------------------------------------------------------------------------
(* The status the host takes                                               *)

Answered == Carries(inbox, "current") /\ req # Nothing

Claimed == req.n - inbox.residue

Honest ==
    /\ inbox.status = "passed" => inbox.residue = 0
    /\ req.op = "write" =>
         Claimed <= Len(moved) /\ \A k \in 1 .. Claimed : moved[k] = card[req.lba + k - 1]
    /\ req.op = "read" =>
         /\ Claimed = Len(moved)
         /\ \A k \in 1 .. Claimed :
               moved[k] = card[req.lba + k - 1] \/ req.lba + k - 1 \in torn
    /\ inbox.status = "failed" /\ req.op \notin Silent => shared.sense # "none"

HonestInv == Answered => Honest

(* While a status waits for the host, the class has no command: nothing it *)
(* speaks of changes, but a write may still send what nobody will read.    *)
LEMMA AnsweredSteps ==
    ASSUME Inv, SessionInv, OneToken, [Next]_vars, Answered', ~SendCsw
    PROVE  /\ Answered /\ UNCHANGED <<inbox, req, card, torn>> /\ shared'.sense = shared.sense
           /\ UNCHANGED moved \/ \E d \in Data : req.op = "write" /\ moved' = Append(moved, d)
  <1> USE DEF cacheVars, locals, classVars, usbVars, hostVars
  <1>0. Nothing.kind = "nothing" /\ ReplyMsg.kind = "reply"
    BY DEF Nothing, ReplyMsg
  <1>1. CASE Firmware
    <2>1. bus' # "off" /\ bus # "off" /\ shared.attached
      <3>1. req = Nothing \/ bus = "on"
        BY DEF SessionInv, BusShape
      <3>2. ~Detach
        BY DEF Detach, Answered
      <3>3. req # Nothing
        BY <1>1, <3>2 DEF Firmware, FirmwareWrite, Attach, Answered
      <3>4. UNCHANGED bus
        BY <1>1, <3>2 DEF Firmware, FirmwareWrite, Attach
      <3> QED
        BY <3>1, <3>3, <3>4 DEF SessionInv, BusShape
    <2> QED
      BY <1>1, <2>1 DEF Firmware, FirmwareWrite, Attach, Detach
  <1>2. CASE Host
    <2>1. CASE \E c \in HostCbws : HostCommand(c)
      BY <2>1 DEF HostCommand, Answered, Carries, OneToken
    <2>2. CASE \E d \in Data : HostSend(d)
      BY <2>2 DEF HostSend, Answered, Carries
    <2>3. CASE HostTake \/ HostConfused \/ HostReset
      BY <1>0, <2>3 DEF HostTake, HostConfused, HostReset, Answered, Carries
    <2>4. CASE HostConfigure
      BY <2>4 DEF HostConfigure, Answered, Carries
    <2> QED
      BY <1>2, <2>1, <2>2, <2>3, <2>4 DEF Host
  <1>3. CASE DeviceTask
    <2>1. CASE PollQuiet
      BY <2>1 DEF PollQuiet, Answered, Carries
    <2>2. CASE PollReset
      BY <1>0, <2>2 DEF PollReset, Answered, Carries
    <2>3. CASE PollConfigure
      BY <1>0, <2>3 DEF PollConfigure, Answered, Carries, SessionInv, BusShape
    <2>4. CASE PollClassReset
      BY <2>4 DEF PollClassReset, Answered
    <2> QED
      BY <1>3, <2>1, <2>2, <2>3, <2>4 DEF DeviceTask
  <1>4. CASE ClassTask
    <2>1. UNCHANGED <<bus, req, moved>> /\ req # Nothing /\ bus = "on"
      BY <1>4, ClassFrame DEF Answered, SessionInv, BusShape
    <2>2. CASE ReadCbw
      BY <2>1, <2>2 DEF ReadCbw, Answered, Carries
    <2>3. CASE ~ReadCbw
      <3>1. UNCHANGED inbox
        BY <1>0, <1>4, <2>3, ClassMessages DEF Answered, Carries
      <3>2. Carries(inbox, "current")
        BY <3>1 DEF Answered, Carries
      <3>3. ~Alive
        BY <2>1, <3>2 DEF OneToken, SessionInv, CommandShape
      <3>4. IgnoreOut \/ Park \/ Unpark \/ Yield
        BY <1>4, <2>3, <3>3
        DEF Alive, At, Executing, ClassTask, ReadSteps, WriteSteps, ExecuteRejected,
            ExecuteNoData, ExecuteTestUnitReady, ExecuteStartStop, ExecuteReply, SendReply,
            ExecuteRead, LookupHit, LookupMiss, LookupFails, Missed, SendBlock, SendFails,
            ExecuteWrite, ReceiveBlock, OutFails, Commit, CommitFails, DiscardBlock
      <3> QED
        BY <2>1, <3>2, <3>4 DEF IgnoreOut, Park, Unpark, Yield, Answered, Frame
    <2> QED
      BY <2>2, <2>3
  <1>5. CASE UNCHANGED vars
    BY <1>5 DEF vars, Answered, Carries
  <1> QED
    BY <1>1, <1>2, <1>3, <1>4, <1>5 DEF Next

LEMMA AnsweredFrame ==
    ASSUME Inv, Answered, Honest, UNCHANGED <<inbox, req, card, torn>>,
           shared'.sense = shared.sense,
           UNCHANGED moved \/ \E d \in Data : req.op = "write" /\ moved' = Append(moved, d)
    PROVE  Honest'
  <1>1. CASE UNCHANGED moved
    BY <1>1 DEF Honest, Claimed
  <1>2. CASE \E d \in Data : req.op = "write" /\ moved' = Append(moved, d)
    <2>1. moved \in Seq(Data) /\ Len(moved) \in Nat
      BY DEF Inv, TypeOK
    <2>2. PICK d \in Data : req.op = "write" /\ moved' = Append(moved, d)
      BY <1>2
    <2>3. Len(moved') = Len(moved) + 1 /\ \A k \in 1 .. Len(moved) : moved'[k] = moved[k]
      BY <2>1, <2>2, AppendProperties
    <2>4. Claimed' = Claimed /\ Claimed \in Int
      <3>1. req \in Cbw /\ inbox \in Csw
        BY Kinds DEF Answered, Carries, Inv
      <3>2. req.n \in Nat /\ inbox.residue \in Nat
        BY <3>1 DEF Cbw, Csw
      <3> QED
        BY <3>2 DEF Claimed
    <2>5. Claimed <= Len(moved) /\ \A k \in 1 .. Claimed : moved[k] = card[req.lba + k - 1]
      BY <2>2 DEF Honest
    <2>6. Claimed' <= Len(moved')
      BY <2>1, <2>3, <2>4, <2>5
    <2>7. \A k \in 1 .. Claimed' : moved'[k] = card'[req'.lba + k - 1]
      <3> SUFFICES ASSUME NEW k \in 1 .. Claimed PROVE moved'[k] = card[req.lba + k - 1]
        BY <2>4
      <3>1. k \in 1 .. Len(moved)
        BY <2>1, <2>4, <2>5
      <3> QED
        BY <2>3, <2>5, <3>1
    <2> QED
      BY <2>2, <2>6, <2>7 DEF Honest
  <1> QED
    BY <1>1, <1>2

(* What the class has done for its command is what it says of it.          *)
LEMMA AnswerGiven ==
    ASSUME Inv, SessionInv, OneToken, WriteInv, ReadInv, EndInv, SendCsw, Answered'
    PROVE  Honest'
  <1>1. /\ pc = "csw" /\ UNCHANGED <<card, torn, shared, req, moved, bus, ep>>
    BY DEF SendCsw, At, Frame, hostVars
  <1>2. bus = "on" /\ ep
    BY <1>1 DEF Answered, SessionInv, BusShape
  <1>3. /\ inbox = Nothing /\ inbox'.kind = "csw" /\ inbox'.status = status
        /\ inbox'.residue = Residue /\ inbox'.tag = cmd.tag
    BY <1>2 DEF SendCsw
  <1>4. Mine
    <2>1. cmd.kind = "cbw"
      BY <1>1, Kinds DEF Inv, SessionInv, CommandShape, Alive
    <2> QED
      BY <1>2, <1>3, <2>1 DEF Answered, Carries, Mine
  <1>5. /\ req = cmd /\ Done \in Nat /\ Len(moved) \in Nat
        /\ cmd.n \in Nat /\ cmd.lba \in Nat /\ cur \in Nat
    BY <1>4, MineIs
  <1>6. Claimed' = Done
    <2>1. Claimed' = cmd.n - Residue
      BY <1>1, <1>3, <1>5 DEF Claimed
    <2>2. cmd.n \in Nat /\ cmd.lba \in Nat /\ cur \in Nat
      BY <1>5
    <2>3. cmd.n - Residue = Done
      BY ONLY <2>2 DEF Residue, End, Done
    <2> QED
      BY <2>1, <2>3
  <1>7. req.op = "write" =>
          Done <= Len(moved) /\ \A k \in 1 .. Done : moved[k] = card[req.lba + k - 1]
    BY <1>4, <1>5 DEF WriteInv, WriteState, Kept
  <1>8. req.op = "read" =>
          /\ Done = Len(moved)
          /\ \A k \in 1 .. Done : moved[k] = card[req.lba + k - 1] \/ req.lba + k - 1 \in torn
    <2>1. inbox.kind = "nothing" /\ InTransit(inbox) = 0
      BY <1>3 DEF Nothing, InTransit
    <2>2. req.op = "read" => ReadState
      BY <1>4, <1>5 DEF ReadInv
    <2>3. req.op = "read" => Len(moved) = Done /\ \A k \in 1 .. Len(moved) : Delivered(k)
      BY <1>5, <2>1, <2>2 DEF ReadState
    <2> QED
      BY <1>5, <2>3 DEF Delivered, Kept
  <1>9. /\ status = "passed" => Residue = 0
        /\ status = "failed" /\ req.op \notin Silent => shared.sense # "none"
    BY <1>1, <1>4, <1>5 DEF EndInv, EndState
  <1> QED
    BY <1>1, <1>3, <1>6, <1>7, <1>8, <1>9 DEF Honest

LEMMA HonestHolds == Spec => []HonestInv
  <1>1. Init => HonestInv
    BY DEF Init, HonestInv, Answered
  <1>2. Inv /\ SessionInv /\ OneToken /\ WriteInv /\ ReadInv /\ EndInv /\ HonestInv /\ [Next]_vars
            => HonestInv'
    <2> SUFFICES ASSUME Inv, SessionInv, OneToken, WriteInv, ReadInv, EndInv, HonestInv,
                        [Next]_vars, Answered'
                 PROVE  Honest'
      BY DEF HonestInv
    <2>1. CASE SendCsw
      BY <2>1, AnswerGiven
    <2>2. CASE ~SendCsw
      BY <2>2, AnsweredSteps, AnsweredFrame DEF HonestInv
    <2> QED
      BY <2>1, <2>2
  <1> QED
    BY <1>1, <1>2, InvHolds, SessionHolds, TokenHolds, WriteHolds, ReadHolds, EndHolds, PTL
    DEF Spec

(* The status the host takes tells the truth about its own command, with   *)
(* every bus reset, faulty transfer and given-up command in between: send_csw*)
(* reports the residue of a cursor that has kept up with the blocks.       *)
THEOREM StatusIsHonest == Spec => []ResidueIsHonest
  <1>1. HonestInv => ResidueIsHonest
    BY DEF HonestInv, Answered, Carries, Honest, Claimed, ResidueIsHonest
  <1> QED
    BY <1>1, HonestHolds, PTL

(* Every failure of the host's own command leaves a sense that no other    *)
(* command has cleared when its status is taken, but for the two answers   *)
(* that set none.                                                          *)
THEOREM SenseIsLeft == Spec => []FailureHasSense
  <1>1. HonestInv => FailureHasSense
    BY DEF HonestInv, Answered, Carries, Honest, Silent, FailureHasSense
  <1> QED
    BY <1>1, HonestHolds, PTL

-----------------------------------------------------------------------------
(* The block store                                                         *)

(* A host that waits for its answers has no command but the one it waits   *)
(* on: a Bulk-Only reset finds none to abandon.                            *)
NoneGivenUp ==
    ~GivesUp =>
        ~Carries(cmd, "abandoned") /\ ~Carries(outbox, "abandoned") /\ ~Carries(inbox, "abandoned")

LEMMA DeviceTaskNoneGivenUp ==
    ASSUME Inv, SessionInv, OneToken, NoneGivenUp, DeviceTask PROVE NoneGivenUp'
  <1> USE DEF cacheVars, locals, classVars, usbVars, hostVars
  <1>0. Nothing.kind = "nothing"
    BY DEF Nothing
  <1>1. CASE PollQuiet \/ PollReset \/ PollConfigure
    BY <1>0, <1>1 DEF PollQuiet, PollReset, PollConfigure, NoneGivenUp, Carries
  <1>2. CASE PollClassReset
    <2>1. ASSUME NEW m \in OutMsg \cup InMsg, ~Carries(m, "current")
          PROVE  Retag(m, {"current"}, "abandoned") = m
      BY <2>1, Retagged DEF Carries, Tags
    <2>2. cmd \in OutMsg /\ outbox \in OutMsg /\ inbox \in InMsg
      BY MessageTypes DEF Inv, TypeOK
    <2>3. ~GivesUp => req = Nothing /\ bus = "on"
      BY <1>2 DEF PollClassReset
    <2>4. ~GivesUp => cmd' = cmd /\ outbox' = outbox /\ inbox' = inbox
      BY <1>2, <2>1, <2>2, <2>3 DEF PollClassReset, OneToken
    <2> QED
      BY <2>4 DEF NoneGivenUp
  <1> QED
    BY <1>1, <1>2 DEF DeviceTask

LEMMA OthersNoneGivenUp ==
    ASSUME Inv, SessionInv, NoneGivenUp, Firmware \/ Host \/ ClassTask PROVE NoneGivenUp'
  <1> USE DEF cacheVars, locals, classVars, usbVars, hostVars
  <1>0. Nothing.kind = "nothing"
    BY DEF Nothing
  <1>1. CASE Firmware
    <2>1. ASSUME NEW m \in OutMsg, ~Carries(m, "abandoned")
          PROVE  ~Carries(Retag(m, Tags, "earlier"), "abandoned")
      BY <2>1, Retagged DEF Carries, Tags
    <2>2. cmd \in OutMsg /\ outbox \in OutMsg
      BY MessageTypes DEF Inv, TypeOK
    <2>3. CASE Detach
      BY <2>1, <2>2, <2>3 DEF Detach, NoneGivenUp
    <2>4. CASE ~Detach
      BY <1>1, <2>4 DEF Firmware, FirmwareWrite, Attach, NoneGivenUp
    <2> QED
      BY <2>3, <2>4
  <1>2. CASE Host
    <2>1. UNCHANGED cmd /\ inbox' \in {inbox, Nothing}
      BY <1>2 DEF Host, HostCommand, HostSend, HostTake, HostConfused, HostReset, HostConfigure
    <2>2. ~Carries(outbox, "abandoned") => ~Carries(outbox', "abandoned")
      <3>1. CASE \E c \in HostCbws : HostCommand(c)
        BY <3>1, Issued DEF HostCommand, Carries
      <3>2. CASE \E d \in Data : HostSend(d)
        BY <3>2 DEF HostSend, Carries
      <3>3. CASE HostTake \/ HostConfused \/ HostReset \/ HostConfigure
        BY <3>3 DEF HostTake, HostConfused, HostReset, HostConfigure
      <3> QED
        BY <1>2, <3>1, <3>2, <3>3 DEF Host
    <2> QED
      BY <1>0, <2>1, <2>2 DEF NoneGivenUp, Carries
  <1>3. CASE ClassTask
    <2>1. CASE ReadCbw
      BY <1>0, <2>1 DEF ReadCbw, NoneGivenUp, Carries
    <2>2. CASE SendCsw
      <3>1. cmd.kind = "cbw"
        BY <2>2, Kinds DEF SendCsw, At, SessionInv, CommandShape, Alive, Inv
      <3> QED
        BY <1>0, <2>2, <3>1 DEF SendCsw, NoneGivenUp, Carries
    <2>3. CASE ~ReadCbw /\ ~SendCsw
      BY <1>0, <1>3, <2>3, ClassMessages DEF NoneGivenUp, Carries
    <2> QED
      BY <2>1, <2>2, <2>3
  <1> QED
    BY <1>1, <1>2, <1>3

LEMMA NoneGivenUpHolds == Spec => []NoneGivenUp
  <1>1. Init => NoneGivenUp
    BY DEF Init, NoneGivenUp, Carries, Nothing
  <1>2. Inv /\ SessionInv /\ OneToken /\ NoneGivenUp /\ [Next]_vars => NoneGivenUp'
    <2>1. ASSUME Inv, SessionInv, OneToken, NoneGivenUp, Next PROVE NoneGivenUp'
      BY <2>1, DeviceTaskNoneGivenUp, OthersNoneGivenUp DEF Next
    <2>2. ASSUME NoneGivenUp, UNCHANGED vars PROVE NoneGivenUp'
      BY <2>2 DEF NoneGivenUp, Carries, vars, cacheVars, locals, classVars, usbVars, hostVars
    <2> QED
      BY <2>1, <2>2
  <1> QED
    BY <1>1, <1>2, InvHolds, SessionHolds, TokenHolds, PTL DEF Spec

(* All the invariants the block store rests on.                            *)
Facts ==
    /\ Inv /\ SessionInv /\ Earlier /\ OneToken /\ NoneGivenUp
    /\ WriteInv /\ ReadInv /\ EndInv

(* On a bus that is on, whatever there is belongs to the host's command.   *)
LEMMA OwnOnly ==
    ASSUME ~GivesUp, Facts, bus = "on"
    PROVE  /\ Alive => Mine
           /\ Alive => inbox.kind # "csw"
           /\ Alive => req = cmd /\ req # Nothing
           /\ inbox.kind = "csw" => req # Nothing
  <1>1. ASSUME NEW m \in OutMsg \cup InMsg, m.kind \in {"cbw", "csw"},
               ~Carries(m, "abandoned"), ~Carries(m, "earlier")
        PROVE  Carries(m, "current")
    BY <1>1 DEF Carries, OutMsg, InMsg, Command, Cbw, Csw, Block, Nothing, ReplyMsg, Tags
  <1>2. cmd \in OutMsg /\ inbox \in InMsg
    BY MessageTypes DEF Facts, Inv, TypeOK
  <1>3. Alive => cmd.kind = "cbw" /\ cmd # Nothing
    BY Kinds DEF Facts, Inv, SessionInv, CommandShape
  <1>4. /\ cmd.kind = "cbw" => Carries(cmd, "current")
        /\ inbox.kind = "csw" => Carries(inbox, "current")
    BY <1>1, <1>2 DEF Facts, Earlier, NoneGivenUp
  <1> QED
    BY <1>3, <1>4 DEF Facts, OneToken, Mine

LEMMA StutterIs ==
    ASSUME UNCHANGED <<card, torn, req, moved>>,
           UNCHANGED inbox \/ req = Nothing \/ (inbox.kind # "csw" /\ inbox'.kind # "csw")
    PROVE  UNCHANGED Store!storeVars
  BY DEF Store!storeVars

LEMMA CloseIs ==
    ASSUME Facts, UNCHANGED <<card, torn>>, req' = Nothing, moved' = <<>>
    PROVE  Store!Close \/ UNCHANGED Store!storeVars
  BY DEF Store!Close, Store!storeVars, Facts, SessionInv, BusShape

LEMMA FirmwareStore ==
    ASSUME ~GivesUp, Facts, Inv', Firmware
    PROVE  Store!Next \/ UNCHANGED Store!storeVars
  <1> USE DEF cacheVars, locals, classVars, usbVars, hostVars
  <1>1. CASE \E b \in Blocks, d \in Data : FirmwareWrite(b, d)
    <2>1. /\ ~shared.attached /\ UNCHANGED <<req, moved, inbox, torn>>
      BY <1>1 DEF FirmwareWrite
    <2>2. req = Nothing
      BY <2>1 DEF Facts, SessionInv, BusShape
    <2>3. card' \in [Blocks -> Data] /\ torn' \in SUBSET Blocks
      BY DEF Inv, TypeOK
    <2>4. Store!Unobserved
      BY <2>1, <2>2, <2>3 DEF Store!Unobserved
    <2> QED
      BY <2>4 DEF Store!Next
  <1>2. CASE \E media \in BOOLEAN : Attach(media)
    BY <1>2, StutterIs DEF Attach
  <1>3. CASE Detach
    BY <1>3, CloseIs DEF Detach, Store!Next
  <1> QED
    BY <1>1, <1>2, <1>3 DEF Firmware

LEMMA HostStore ==
    ASSUME ~GivesUp, Facts, Host
    PROVE  Store!Next \/ UNCHANGED Store!storeVars
  <1> USE DEF cacheVars, locals, classVars, usbVars, hostVars
  <1>0. Nothing.kind = "nothing"
    BY DEF Nothing
  <1>1. CASE \E c \in HostCbws : HostCommand(c)
    <2>1. PICK c \in HostCbws : HostCommand(c)
      BY <1>1
    <2>2. /\ bus = "on" /\ req = Nothing /\ req' # Nothing /\ moved' = <<>>
          /\ UNCHANGED <<card, torn, inbox>>
      BY <2>1, Issued DEF HostCommand
    <2>3. inbox.kind # "csw"
      BY <2>2, OwnOnly
    <2> QED
      BY <2>2, <2>3 DEF Store!Ask, Store!Next
  <1>2. CASE \E d \in Data : HostSend(d)
    BY <1>2 DEF HostSend, Store!Move, Store!Next
  <1>3. CASE HostTake
    <2>1. CASE inbox.kind = "csw"
      BY <1>3, <2>1, CloseIs DEF HostTake, Store!Next
    <2>2. CASE inbox.kind = "block"
      <3>1. /\ req # Nothing /\ req.op = "read" /\ Len(moved) < req.n
            /\ moved' = Append(moved, inbox.data) /\ UNCHANGED <<card, torn, req>>
            /\ inbox' = Nothing
        BY <1>3, <2>2 DEF HostTake, Due
      <3>2. inbox \in InMsg
        BY DEF Facts, Inv, TypeOK
      <3>3. inbox.data \in Data
        BY <2>2, <3>2, MessageTypes
      <3>4. Store!Move
        BY <1>0, <2>2, <3>1, <3>3 DEF Store!Move
      <3> QED
        BY <3>4 DEF Store!Next
    <2>3. CASE inbox.kind = "reply"
      BY <1>0, <1>3, <2>3, StutterIs DEF HostTake
    <2> QED
      BY <1>3, <2>1, <2>2, <2>3, Kinds DEF HostTake, Facts, Inv
  <1>4. CASE HostConfused \/ HostReset
    BY <1>4, CloseIs DEF HostConfused, HostReset, Store!Next
  <1>5. CASE HostConfigure
    BY <1>5, StutterIs DEF HostConfigure
  <1> QED
    BY <1>1, <1>2, <1>3, <1>4, <1>5 DEF Host

LEMMA DeviceTaskStore ==
    ASSUME ~GivesUp, Facts, DeviceTask
    PROVE  UNCHANGED Store!storeVars
  <1> USE DEF cacheVars, locals, classVars, usbVars, hostVars
  <1>1. CASE PollQuiet \/ PollConfigure
    BY <1>1, StutterIs DEF PollQuiet, PollConfigure
  <1>2. CASE PollReset
    <2>1. req = Nothing
      BY <1>2 DEF PollReset, Facts, SessionInv, BusShape
    <2> QED
      BY <1>2, <2>1, StutterIs DEF PollReset
  <1>3. CASE PollClassReset
    <2>1. req = Nothing /\ req' = Nothing /\ moved = <<>> /\ moved' = <<>>
          /\ UNCHANGED <<card, torn>>
      BY <1>3 DEF PollClassReset, Facts, SessionInv, BusShape
    <2> QED
      BY <2>1, StutterIs
  <1> QED
    BY <1>1, <1>2, <1>3 DEF DeviceTask

(* The blocks of a chunk are blocks the host has sent.                     *)
LEMMA ChunkIsSent ==
    ASSUME ~GivesUp, Facts, Inv', pc = "commit", phase = "class", req # Nothing,
           NEW n \in Nat, n <= ChunkLen, card' = Stored(Written(n)),
           torn' \in {torn \ DOMAIN Written(n), torn \cup DOMAIN Written(n)},
           UNCHANGED <<req, moved, inbox>>
    PROVE  Store!Store
  <1>1. bus = "on" /\ Mine /\ req = cmd /\ inbox.kind # "csw" /\ cmd.op = "write"
    BY OwnOnly DEF Facts, SessionInv, BusShape, CommandShape, Alive
  <1>2. WriteState /\ Inv /\ SessionInv /\ OneToken
    BY <1>1 DEF Facts, WriteInv
  <1>3. /\ cmd.lba \in Nat /\ cur \in Nat /\ Done \in Nat /\ Len(moved) \in Nat
        /\ cmd.lba <= cur
    BY <1>1, <1>2, MineIs
  <1>4. /\ ChunkLen \in Nat /\ DOMAIN Written(n) = cur .. cur + n - 1
        /\ DOMAIN Written(n) \subseteq Blocks
    BY <1>2, WrittenType
  <1>5. Len(chunk) = ChunkLen /\ Len(moved) = Done + Len(chunk) + InTransit(outbox)
        /\ InTransit(outbox) \in 0 .. 1
    BY <1>2 DEF WriteState, Inv, InFlight, InTransit
  <1> DEFINE S == Done + 1 .. Done + n
  <1>6. S \in SUBSET (1 .. Len(moved))
    BY ONLY <1>3, <1>4, <1>5, n \in Nat, n <= ChunkLen
  <1>7. /\ \A k \in S : cmd.lba + k - 1 \in cur .. cur + n - 1
        /\ \A b \in cur .. cur + n - 1 : b - cmd.lba + 1 \in S /\ b = cmd.lba + (b - cmd.lba + 1) - 1
    <2>1. Done = cur - cmd.lba
      BY DEF Done
    <2>2. ASSUME NEW k \in S PROVE cmd.lba + k - 1 \in cur .. cur + n - 1
      <3>1. cmd.lba \in Nat /\ cur \in Nat /\ k \in (cur - cmd.lba) + 1 .. (cur - cmd.lba) + n
        BY <1>3, <2>1
      <3> QED
        BY ONLY <3>1, n \in Nat
    <2>3. ASSUME NEW b \in cur .. cur + n - 1
          PROVE  b - cmd.lba + 1 \in S /\ b = cmd.lba + (b - cmd.lba + 1) - 1
      <3>1. cmd.lba \in Nat /\ cur \in Nat /\ b \in cur .. cur + n - 1
        BY <1>3
      <3>2. /\ b - cmd.lba + 1 \in (cur - cmd.lba) + 1 .. (cur - cmd.lba) + n
            /\ b = cmd.lba + (b - cmd.lba + 1) - 1
        BY ONLY <3>1, n \in Nat
      <3> QED
        BY <2>1, <3>2
    <2> QED
      BY <2>2, <2>3
  <1>8. \A b \in Blocks : b \in DOMAIN Written(n) <=> \E k \in S : b = cmd.lba + k - 1
    BY ONLY <1>4, <1>7
  <1>9. {cmd.lba + k - 1 : k \in S} = DOMAIN Written(n)
    BY ONLY <1>4, <1>7
  <1>10. \A b \in DOMAIN Written(n) : Written(n)[b] = moved[b - cmd.lba + 1]
    <2> SUFFICES ASSUME NEW b \in cur .. cur + n - 1
                 PROVE  Written(n)[b] = moved[b - cmd.lba + 1]
      BY <1>4
    <2>1. Written(n)[b] = chunk[b - cur + 1]
      BY DEF Written
    <2>2. b - cur + 1 \in 1 .. ChunkLen
      BY ONLY <1>3, <1>4, n \in Nat, n <= ChunkLen, b \in cur .. cur + n - 1
    <2>3. chunk[b - cur + 1] = moved[Done + (b - cur + 1)]
      BY <1>2, <1>5, <2>2 DEF WriteState
    <2>4. Done = cur - cmd.lba
      BY DEF Done
    <2>5. Done + (b - cur + 1) = b - cmd.lba + 1
      BY ONLY <1>3, <2>4, b \in cur .. cur + n - 1
    <2> QED
      BY <2>1, <2>3, <2>5
  <1>11. card' = [b \in Blocks |-> IF \E k \in S : b = cmd.lba + k - 1
                                   THEN moved[b - cmd.lba + 1] ELSE card[b]]
    <2>1. card' = [b \in Blocks |-> IF b \in DOMAIN Written(n) THEN Written(n)[b] ELSE card[b]]
      BY DEF Stored
    <2> QED
      BY <1>8, <1>10, <2>1
  <1>12. torn' \in {torn \ {cmd.lba + k - 1 : k \in S}, torn \cup {cmd.lba + k - 1 : k \in S}}
    BY <1>9
  <1>13. \E T \in SUBSET (1 .. Len(moved)) :
            /\ card' = [b \in Blocks |-> IF \E k \in T : b = cmd.lba + k - 1
                                         THEN moved[b - cmd.lba + 1] ELSE card[b]]
            /\ torn' \in {torn \ {cmd.lba + k - 1 : k \in T},
                          torn \cup {cmd.lba + k - 1 : k \in T}}
    <2> HIDE DEF S
    <2> QED
      BY <1>6, <1>11, <1>12
  <1> QED
    BY <1>1, <1>13 DEF Store!Store, Store!Addressed

(* A chunk is stored for the host's own command, or for one nobody waits on*)
LEMMA CommitStore ==
    ASSUME ~GivesUp, Facts, Inv', Commit \/ \E k \in 0 .. LineBlocks : CommitFails(k)
    PROVE  Store!Next
  <1>1. /\ pc = "commit" /\ phase = "class" /\ UNCHANGED <<req, moved, inbox>>
        /\ \E n \in Nat : /\ n <= ChunkLen /\ card' = Stored(Written(n))
                          /\ torn' \in {torn \ DOMAIN Written(n), torn \cup DOMAIN Written(n)}
    <2>1. CASE Commit
      <3>1. ChunkLen \in Nat
        <4>1. pc = "commit" /\ 0 \in Nat /\ 0 <= ChunkLen
          BY <2>1, Running DEF Commit, At, ChunkLen, Facts
        <4> QED
          BY <4>1, WrittenType DEF Facts
      <3> QED
        BY <2>1, <3>1 DEF Commit, At, Frame, hostVars
    <2>2. CASE \E k \in 0 .. LineBlocks : CommitFails(k)
      <3>1. PICK k \in 0 .. LineBlocks : CommitFails(k)
        BY <2>2
      <3>2. k \in Nat
        OBVIOUS
      <3> QED
        BY <3>1, <3>2 DEF CommitFails, At, Frame, hostVars
    <2> QED
      BY <2>1, <2>2
  <1>2. CASE req = Nothing
    <2>1. card' \in [Blocks -> Data] /\ torn' \in SUBSET Blocks
      BY DEF Inv, TypeOK
    <2>2. Store!Unobserved
      BY <1>1, <1>2, <2>1 DEF Store!Unobserved
    <2> QED
      BY <2>2 DEF Store!Next
  <1>3. CASE req # Nothing
    BY <1>1, <1>3, ChunkIsSent DEF Store!Next
  <1> QED
    BY <1>2, <1>3

(* The status is the answer, and its residue counts blocks of the command. *)
LEMMA SendCswStore ==
    ASSUME ~GivesUp, Facts, Inv', SendCsw
    PROVE  Store!Next \/ UNCHANGED Store!storeVars
  <1>1. /\ pc = "csw" /\ UNCHANGED <<card, torn, req, moved, bus>>
    BY DEF SendCsw, At, Frame, hostVars
  <1>2. CASE req = Nothing
    BY <1>1, <1>2, StutterIs
  <1>3. CASE req # Nothing
    <2>1. bus = "on" /\ ep
      BY <1>3 DEF Facts, SessionInv, BusShape
    <2>2. /\ inbox = Nothing /\ inbox'.kind = "csw" /\ inbox'.status = status
          /\ inbox'.residue = Residue /\ inbox'.tag = cmd.tag
      BY <2>1 DEF SendCsw
    <2>3. Mine /\ req = cmd
      BY <1>1, <2>1, OwnOnly DEF Alive
    <2>4. Answered'
      BY <1>1, <1>3, <2>2, <2>3 DEF Answered, Carries, Mine
    <2>5. Honest'
      BY <2>4, AnswerGiven DEF Facts
    <2>6. status \in {"passed", "failed", "phase_error"} /\ Residue \in 0 .. req.n
      <3>1. status \in Statuses /\ Residue \in Nat
        BY <1>1, Running DEF Facts, Inv, TypeOK
      <3>2. cmd.lba \in Nat /\ cmd.n \in Nat /\ cur \in Nat /\ cmd.lba <= cur
        BY <2>3, MineIs DEF Facts
      <3>3. Residue <= cmd.n
        BY ONLY <3>2 DEF Residue, End
      <3>4. Residue \in 0 .. cmd.n
        BY ONLY <3>1, <3>2, <3>3
      <3> QED
        BY <2>3, <3>1, <3>4 DEF Statuses
    <2>7. Store!Answer(status, Residue)
      <3>1. inbox.kind = "nothing"
        BY <2>2 DEF Nothing
      <3>2. /\ status = "passed" => Residue = 0
            /\ req.op = "read" =>
                 /\ req.n - Residue = Len(moved)
                 /\ \A k \in 1 .. req.n - Residue :
                       moved[k] = card[req.lba + k - 1] \/ req.lba + k - 1 \in torn
            /\ req.op = "write" =>
                 /\ req.n - Residue <= Len(moved)
                 /\ \A k \in 1 .. req.n - Residue : moved[k] = card[req.lba + k - 1]
        BY <1>1, <2>2, <2>5 DEF Honest, Claimed
      <3> QED
        BY <1>1, <1>3, <2>2, <3>1, <3>2 DEF Store!Answer, Store!Addressed
    <2> QED
      BY <1>3, <2>6, <2>7 DEF Store!Next
  <1> QED
    BY <1>2, <1>3

LEMMA ClassTaskStore ==
    ASSUME ~GivesUp, Facts, Inv', ClassTask
    PROVE  Store!Next \/ UNCHANGED Store!storeVars
  <1>0. Nothing.kind = "nothing"
    BY DEF Nothing
  <1>1. CASE SendCsw
    BY <1>1, SendCswStore
  <1>2. CASE Commit \/ \E k \in 0 .. LineBlocks : CommitFails(k)
    BY <1>2, CommitStore
  <1>3. CASE ~SendCsw /\ ~Commit /\ ~\E k \in 0 .. LineBlocks : CommitFails(k)
    <2>1. UNCHANGED <<req, moved>>
      BY ClassFrame DEF Facts
    <2>2. UNCHANGED <<card, torn>>
      BY <1>3
      DEF ClassTask, ReadSteps, WriteSteps, ReadCbw, IgnoreOut, Park, Unpark, Yield,
          ExecuteRejected, ExecuteNoData, ExecuteTestUnitReady, ExecuteStartStop, ExecuteReply,
          SendReply, ExecuteRead, LookupHit, LookupMiss, LookupFails, SendBlock, SendFails,
          ExecuteWrite, ReceiveBlock, OutFails, DiscardBlock, ReplyFrame
    <2>3. UNCHANGED inbox \/ (inbox.kind # "csw" /\ inbox'.kind # "csw")
      BY <1>0, <1>3, ClassMessages DEF Facts, ReadCbw
    <2> QED
      BY <2>1, <2>2, <2>3, StutterIs
  <1> QED
    BY <1>1, <1>2, <1>3

(* With its cache, its chunks and its packets, the class does what a block *)
(* store without any would do for one command at a time, as long as the    *)
(* host waits for its answers: read_10, write_10 and send_csw together.    *)
THEOREM ImplementsStore == ASSUME ~GivesUp PROVE Spec => ImplementsBlockStore
  <1>1. Init => Store!Init
    BY DEF Init, Store!Init, Nothing
  <1>2. Facts /\ Inv' /\ [Next]_vars => [Store!Next]_(Store!storeVars)
    <2>1. ASSUME Facts, Inv', Next PROVE Store!Next \/ UNCHANGED Store!storeVars
      BY <2>1, FirmwareStore, HostStore, DeviceTaskStore, ClassTaskStore DEF Next
    <2>2. ASSUME UNCHANGED vars PROVE UNCHANGED Store!storeVars
      BY <2>2, StutterIs DEF vars, cacheVars, locals, classVars, usbVars, hostVars
    <2> QED
      BY <2>1, <2>2
  <1>3. Spec => []Facts
    BY InvHolds, SessionHolds, EarlierHolds, TokenHolds, NoneGivenUpHolds, WriteHolds, ReadHolds,
       EndHolds, PTL DEF Facts
  <1> QED
    BY <1>1, <1>2, <1>3, InvHolds, PTL DEF Spec, Store!Spec, ImplementsBlockStore
=============================================================================
