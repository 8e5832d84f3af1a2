-------------------------- MODULE MscSessionProofs --------------------------
(***************************************************************************)
(* Proofs about MscClass: the bus, the endpoints, the shared state and the *)
(* command the class is suspended in agree, across bus resets, attaches and*)
(* detaches; and what is left of an earlier session stays harmless unless  *)
(* the user has forced the detach.                                         *)
(***************************************************************************)
EXTENDS MscClassProofs

USE CacheAssumption, ClassAssumption DEF Blocks, LruLines, StreamLine, Slots

Carries(msg, tag) == msg.kind \in {"cbw", "csw"} /\ msg.tag = tag

Alive == pc \notin {"idle", "parked"}

LEMMA Kinds ==
    ASSUME TypeOK
    PROVE  /\ outbox.kind \in {"nothing", "cbw", "block"}
           /\ inbox.kind \in {"nothing", "reply", "block", "csw"}
           /\ cmd.kind \in {"nothing", "cbw"} /\ req.kind \in {"nothing", "cbw"}
           /\ outbox.kind = "nothing" <=> outbox = Nothing
           /\ inbox.kind = "nothing" <=> inbox = Nothing
           /\ cmd.kind = "nothing" <=> cmd = Nothing
           /\ req.kind = "nothing" <=> req = Nothing
           /\ outbox.kind = "cbw" => outbox \in Cbw
           /\ cmd # Nothing => cmd \in Cbw
           /\ req # Nothing => req \in Cbw
           /\ inbox.kind = "csw" => inbox \in Csw
  BY DEF TypeOK, OutMsg, InMsg, Command, Nothing, ReplyMsg, Cbw, Block, Csw

(* Retagging a message changes nothing but the tag.                        *)
LEMMA Retagged ==
    ASSUME NEW msg \in OutMsg \cup InMsg, NEW from \in SUBSET Tags, NEW to \in Tags
    PROVE  LET new == Retag(msg, from, to)
           IN  /\ new.kind = msg.kind
               /\ msg.kind \notin {"cbw", "csw"} => new = msg
               /\ msg = Nothing <=> new = Nothing
               /\ msg.kind \in {"cbw", "csw"} =>
                    new.tag = IF msg.tag \in from THEN to ELSE msg.tag
               /\ msg.kind \in {"cbw", "csw"} /\ msg.tag \notin from => new = msg
               /\ msg.kind = "cbw" =>
                    new.op = msg.op /\ new.lba = msg.lba /\ new.n = msg.n /\ new.ok = msg.ok
               /\ msg.kind = "csw" =>
                    new.status = msg.status /\ new.residue = msg.residue
  BY DEF Retag, OutMsg, InMsg, Command, Nothing, ReplyMsg, Cbw, Block, Csw, Tags

(* What the host may have issued.                                          *)
LEMMA Issued ==
    ASSUME NEW c \in HostCbws
    PROVE  /\ c \in Cbw /\ c # Nothing /\ c.kind = "cbw" /\ c.tag = "current"
           /\ c.op \notin MediaOps => c.n = 0
  BY MessageTypes DEF HostCbws, Nothing

-----------------------------------------------------------------------------
(* The session                                                             *)

(* How far the bus, the endpoints and the shared state go together: after  *)
(* a bus reset the class drains itself before it is polled with endpoints. *)
BusShape ==
    /\ phase = "class" \/ bus # "off" \/ shared.configured => shared.attached
    /\ bus \in {"on", "confused"} => shared.configured /\ ep
    /\ ~ep => outbox = Nothing /\ inbox = Nothing
    /\ bus \in {"default", "config"} => ~ep /\ (phase = "outside" => pc = "parked")
    /\ req # Nothing => bus = "on" /\ req \in HostCbws
    /\ req = Nothing => moved = <<>>

(* A suspended command holds its command block, and an ejected disk has no *)
(* transfer under way.                                                     *)
CommandShape ==
    /\ cmd # Nothing <=> Alive
    /\ phase = "outside" => pc \notin {"execute", "lookup", "commit"}
    /\ shared.ejected => pc \notin {"lookup", "send", "receive", "commit"}
    /\ inbox.kind \in {"block", "reply"} => Alive
    /\ pc \in {"lookup", "send"} => cmd.op = "read"
    /\ pc \in {"receive", "commit", "discard"} => cmd.op = "write"
    /\ pc = "reply" => cmd.op \in ReplyOps

SessionInv == BusShape /\ CommandShape

LEMMA InitSession == Init => SessionInv
  BY MessageTypes
  DEF Init, SessionInv, BusShape, CommandShape, Alive, Nothing, EmptyCache

LEMMA FirmwareSession == ASSUME Inv, SessionInv, Firmware PROVE SessionInv'
  <1> USE DEF cacheVars, locals, classVars, usbVars, hostVars
  <1>1. CASE \E b \in Blocks, d \in Data : FirmwareWrite(b, d)
    BY <1>1 DEF FirmwareWrite, SessionInv, BusShape, CommandShape, Alive
  <1>2. CASE \E media \in BOOLEAN : Attach(media)
    <2>1. /\ shared'.attached /\ shared'.configured = shared.configured /\ ~shared'.ejected
      BY <1>2 DEF Attach, Inv, TypeOK, Shared
    <2> QED
      BY <1>2, <2>1 DEF Attach, SessionInv, BusShape, CommandShape, Alive
  <1>3. CASE Detach
    <2>1. /\ ~shared'.attached /\ ~shared'.configured /\ ~shared'.ejected
      BY <1>3 DEF Detach, Inv, TypeOK, Shared
    <2>2. /\ cmd' = Nothing <=> cmd = Nothing
          /\ cmd # Nothing => cmd'.op = cmd.op
      BY SMTT(20), <1>3, Retagged, Kinds, MessageTypes DEF Detach, Inv, TypeOK, Tags
    <2>3. bus' = "off" /\ req' = Nothing /\ moved' = <<>> /\ phase = "outside"
          /\ UNCHANGED <<phase, pc, ep, inbox>>
      BY <1>3 DEF Detach
    <2>4. outbox = Nothing => outbox' = Nothing
      BY <1>3, Retagged, MessageTypes DEF Detach, Tags
    <2> QED
      BY <2>1, <2>2, <2>3, <2>4 DEF SessionInv, BusShape, CommandShape, Alive
  <1> QED
    BY <1>1, <1>2, <1>3 DEF Firmware

LEMMA HostSession == ASSUME Inv, SessionInv, Host PROVE SessionInv'
  <1> USE DEF cacheVars, locals, classVars, usbVars, hostVars
  <1>0. Nothing.kind = "nothing"
    BY DEF Nothing
  <1>1. CASE \E c \in HostCbws : HostCommand(c)
    BY <1>1, Issued DEF HostCommand, SessionInv, BusShape, CommandShape, Alive
  <1>2. CASE \E d \in Data : HostSend(d)
    BY <1>2 DEF HostSend, SessionInv, BusShape, CommandShape, Alive
  <1>3. CASE HostTake
    <2>1. req' = Nothing => moved' = <<>>
      BY <1>3, Kinds DEF HostTake, Inv
    <2> QED
      BY <1>0, <1>3, <2>1 DEF HostTake, SessionInv, BusShape, CommandShape, Alive
  <1>4. CASE HostConfused \/ HostReset \/ HostConfigure
    BY <1>0, <1>4
    DEF HostConfused, HostReset, HostConfigure, SessionInv, BusShape, CommandShape, Alive
  <1> QED
    BY <1>1, <1>2, <1>3, <1>4 DEF Host

LEMMA DeviceTaskSession == ASSUME Inv, SessionInv, DeviceTask PROVE SessionInv'
  <1> USE DEF cacheVars, locals, classVars, usbVars, hostVars
  <1>0. Nothing.kind = "nothing"
    BY DEF Nothing
  <1>1. CASE PollQuiet
    BY <1>1 DEF PollQuiet, SessionInv, BusShape, CommandShape, Alive
  <1>2. CASE PollReset
    <2>1. /\ shared'.attached = shared.attached /\ ~shared'.configured
          /\ shared'.ejected = shared.ejected
      BY <1>2 DEF PollReset, Inv, TypeOK, Shared
    <2> QED
      BY <1>0, <1>2, <2>1 DEF PollReset, SessionInv, BusShape, CommandShape, Alive
  <1>3. CASE PollConfigure
    <2>1. /\ shared'.attached = shared.attached /\ shared'.configured
          /\ shared'.ejected = shared.ejected
      BY <1>3 DEF PollConfigure, Inv, TypeOK, Shared
    <2> QED
      BY <1>3, <2>1 DEF PollConfigure, SessionInv, BusShape, CommandShape, Alive
  <1>4. CASE PollClassReset
    <2>1. /\ shared'.attached = shared.attached /\ shared'.ejected = shared.ejected
          /\ shared'.configured = shared.configured
      BY <1>4 DEF PollClassReset, SetSense, Inv, TypeOK, Shared
    <2>2. /\ cmd' = Nothing <=> cmd = Nothing
          /\ cmd # Nothing => cmd'.op = cmd.op
          /\ inbox'.kind = inbox.kind
      BY <1>4, Retagged, Kinds, MessageTypes DEF PollClassReset, Inv, TypeOK, Tags
    <2> QED
      BY <1>4, <2>1, <2>2 DEF PollClassReset, SessionInv, BusShape, CommandShape, Alive
  <1> QED
    BY <1>1, <1>2, <1>3, <1>4 DEF DeviceTask

(* The class runs only attached, and touches neither the bus nor the host. *)
LEMMA ClassFrame ==
    ASSUME Inv, ClassTask
    PROVE  /\ phase = "class" /\ UNCHANGED <<ep, bus, req, moved>>
           /\ shared'.attached = shared.attached /\ shared'.configured = shared.configured
           /\ outbox' \in {outbox, Nothing}
           /\ ~ep => UNCHANGED inbox
  <1> USE DEF cacheVars, locals, classVars, usbVars, hostVars, Frame, ReplyFrame, At, Executing
  <1>1. CASE ReadCbw \/ IgnoreOut \/ Park \/ Unpark \/ SendCsw \/ Yield
    BY <1>1 DEF ReadCbw, IgnoreOut, Park, Unpark, SendCsw, Yield
  <1>2. CASE ExecuteRejected
    BY <1>2 DEF ExecuteRejected, Respond, SetSense, Inv, TypeOK, Shared
  <1>3. CASE ExecuteNoData \/ ExecuteTestUnitReady \/ ExecuteReply
    BY <1>3
    DEF ExecuteNoData, ExecuteTestUnitReady, ExecuteReply, Respond, SetSense, Inv, TypeOK,
        Shared
  <1>4. CASE ExecuteStartStop
    BY <1>4 DEF ExecuteStartStop, Inv, TypeOK, Shared
  <1>5. CASE SendReply
    BY <1>5 DEF SendReply, Respond, SetSense, Inv, TypeOK, Shared
  <1>6. CASE ReadSteps
    BY <1>6
    DEF ReadSteps, ExecuteRead, LookupHit, LookupMiss, LookupFails, Missed, SendBlock,
        SendFails, Respond, SetSense, Inv, TypeOK, Shared
  <1>7. CASE ExecuteWrite \/ OutFails
    BY <1>7 DEF ExecuteWrite, OutFails, Respond, SetSense, Inv, TypeOK, Shared
  <1>8. CASE ReceiveBlock \/ Commit \/ DiscardBlock
    BY <1>8 DEF ReceiveBlock, Commit, DiscardBlock
  <1>9. CASE \E k \in 0 .. LineBlocks : CommitFails(k)
    BY <1>9 DEF CommitFails, Respond, SetSense, Inv, TypeOK, Shared
  <1> QED
    BY <1>1, <1>2, <1>3, <1>4, <1>5, <1>6, <1>7, <1>8, <1>9 DEF ClassTask, WriteSteps

LEMMA ClassTaskBus == ASSUME Inv, SessionInv, ClassTask PROVE BusShape'
  <1>1. CASE Yield
    BY <1>1
    DEF Yield, Blocked, SessionInv, BusShape, cacheVars, classVars, usbVars, hostVars
  <1>2. CASE ~Yield
    <2>1. phase' = "class"
      <3>1. phase' = phase
        BY <1>2
        DEF ClassTask, ReadSteps, WriteSteps, ReadCbw, IgnoreOut, Park, Unpark, SendCsw,
            ExecuteRejected, ExecuteNoData, ExecuteTestUnitReady, ExecuteStartStop,
            ExecuteReply, SendReply, ExecuteRead, LookupHit, LookupMiss, LookupFails,
            SendBlock, SendFails, ExecuteWrite, ReceiveBlock, OutFails, Commit, CommitFails,
            DiscardBlock, ReplyFrame, Frame
      <3> QED
        BY <3>1, ClassFrame
    <2> QED
      BY <2>1, ClassFrame DEF SessionInv, BusShape
  <1> QED
    BY <1>1, <1>2

(* A command that is answered, at whatever step, leaves nothing behind.    *)
LEMMA AnsweredShape ==
    ASSUME Inv, SessionInv, Alive, pc' = "csw", UNCHANGED cmd, phase' = "class"
    PROVE  CommandShape'
  BY DEF SessionInv, CommandShape, Alive

(* With the disk ejected, block_count is 0 and no transfer begins.         *)
LEMMA CountLimits ==
    ASSUME Inv
    PROVE  /\ Count \in {0, CardBlocks}
           /\ shared.ejected => Count = 0
           /\ Alive /\ shared.ejected /\ cmd.n # 0 => End > Count
  BY Running DEF Count, Alive, End

LEMMA ClassTaskCommand == ASSUME Inv, SessionInv, ClassTask PROVE CommandShape'
  <1> USE DEF cacheVars, locals, classVars, usbVars, hostVars, Frame, ReplyFrame, At, Executing
  <1>0. Nothing.kind = "nothing" /\ ReplyMsg.kind = "reply"
    BY DEF Nothing, ReplyMsg
  <1>a. /\ cmd # Nothing <=> Alive
        /\ phase = "outside" => pc \notin {"execute", "lookup", "commit"}
        /\ shared.ejected => pc \notin {"lookup", "send", "receive", "commit"}
        /\ inbox.kind \in {"block", "reply"} => Alive
        /\ pc \in {"lookup", "send"} => cmd.op = "read"
        /\ pc \in {"receive", "commit", "discard"} => cmd.op = "write"
        /\ pc = "reply" => cmd.op \in ReplyOps
    BY DEF SessionInv, CommandShape
  <1>1. CASE ReadCbw
    BY <1>0, <1>1, <1>a, Kinds DEF ReadCbw, CommandShape, Alive, Inv
  <1>2. CASE IgnoreOut \/ Park \/ Unpark
    BY <1>2, <1>a DEF IgnoreOut, Park, Unpark, CommandShape, Alive
  <1>3. CASE SendCsw
    <2>1. ~ep => inbox = Nothing
      BY DEF SessionInv, BusShape
    <2>2. inbox'.kind \in {"nothing", "csw"}
      BY <1>0, <1>3, <2>1 DEF SendCsw
    <2> QED
      BY <1>3, <2>2 DEF SendCsw, CommandShape, Alive
  <1>4. CASE Yield
    BY <1>4, <1>a DEF Yield, Blocked, CommandShape, Alive
  <1>5. CASE ExecuteRejected \/ ExecuteNoData \/ ExecuteTestUnitReady \/ ExecuteStartStop
             \/ SendReply \/ SendFails \/ OutFails
             \/ \E i \in Slots : LookupFails(i)
    <2>1. pc' = "csw" /\ UNCHANGED cmd /\ Alive /\ phase' = "class"
      BY <1>5
      DEF ExecuteRejected, ExecuteNoData, ExecuteTestUnitReady, ExecuteStartStop, SendReply,
          SendFails, OutFails, LookupFails, Missed, Respond, Finish, Alive
    <2> QED
      BY <2>1, AnsweredShape
  <1>6. CASE ExecuteReply
    <2>1. /\ shared'.ejected = shared.ejected /\ UNCHANGED <<cmd, inbox, phase>>
          /\ pc' \in {"csw", "reply"} /\ pc = "execute" /\ cmd.op \in ReplyOps
          /\ phase = "class"
      BY <1>6 DEF ExecuteReply, Respond, SetSense, Finish, GoTo, Inv, TypeOK, Shared
    <2> QED
      BY <1>a, <2>1 DEF CommandShape, Alive
  <1>7. CASE ExecuteRead
    <2>1. /\ UNCHANGED <<cmd, inbox, phase>> /\ shared'.ejected = shared.ejected
          /\ pc' = "csw" \/ (pc' = "lookup" /\ cmd.n # 0 /\ ~(End > Count))
          /\ pc = "execute" /\ cmd.op = "read" /\ phase = "class"
      BY <1>7 DEF ExecuteRead, Respond, SetSense, Finish, GoTo, Inv, TypeOK, Shared
    <2> QED
      BY <1>a, <2>1, CountLimits DEF CommandShape, Alive
  <1>8. CASE \E i \in Slots : LookupHit(i) \/ LookupMiss(i)
    BY <1>8, <1>a DEF LookupHit, LookupMiss, Missed, GoTo, CommandShape, Alive
  <1>9. CASE SendBlock
    BY <1>9, <1>a DEF SendBlock, GoTo, Finish, CommandShape, Alive
  <1>10. CASE ExecuteWrite
    <2>1. /\ UNCHANGED <<cmd, inbox, phase>> /\ shared'.ejected = shared.ejected
          /\ pc' \in {"csw", "discard"} \/ (pc' = "receive" /\ cmd.n # 0 /\ ~(End > Count))
          /\ pc = "execute" /\ cmd.op = "write" /\ phase = "class"
      BY <1>10
      DEF ExecuteWrite, StartChunk, Respond, SetSense, Finish, GoTo, Inv, TypeOK, Shared
    <2> QED
      BY <1>a, <2>1, CountLimits DEF CommandShape, Alive
  <1>11. CASE ReceiveBlock \/ DiscardBlock
    BY <1>11, <1>a DEF ReceiveBlock, DiscardBlock, GoTo, Finish, CommandShape, Alive
  <1>12. CASE Commit
    <2>1. pc' \in {"csw", "receive"} /\ UNCHANGED <<cmd, inbox, shared, phase>> /\ pc = "commit"
          /\ phase = "class"
      BY <1>12 DEF Commit, StartChunk, GoTo, Finish
    <2> QED
      BY <1>a, <2>1 DEF CommandShape, Alive
  <1>13. CASE \E k \in 0 .. LineBlocks : CommitFails(k)
    <2>1. /\ pc' \in {"csw", "discard"} /\ UNCHANGED <<cmd, inbox, phase>> /\ pc = "commit"
          /\ shared'.ejected = shared.ejected /\ phase = "class"
      BY <1>13 DEF CommitFails, Respond, SetSense, GoTo, Finish, Inv, TypeOK, Shared
    <2> QED
      BY <1>a, <2>1 DEF CommandShape, Alive
  <1> QED
    BY <1>1, <1>2, <1>3, <1>4, <1>5, <1>6, <1>7, <1>8, <1>9, <1>10, <1>11, <1>12, <1>13
    DEF ClassTask, ReadSteps, WriteSteps

LEMMA SessionHolds == Spec => []SessionInv
  <1>1. Inv /\ SessionInv /\ [Next]_vars => SessionInv'
    <2>1. ASSUME Inv, SessionInv, Next PROVE SessionInv'
      BY <2>1, FirmwareSession, HostSession, DeviceTaskSession, ClassTaskBus, ClassTaskCommand
      DEF Next, SessionInv
    <2>2. ASSUME SessionInv, UNCHANGED vars PROVE SessionInv'
      BY <2>2
      DEF SessionInv, BusShape, CommandShape, Alive, vars, cacheVars, locals, classVars,
          usbVars, hostVars
    <2> QED
      BY <2>1, <2>2
  <1> QED
    BY <1>1, InitSession, InvHolds, PTL DEF Spec

(* A step of the class reads a command block, answers the command it has,  *)
(* or goes on with it; only the second leaves a status for the host.       *)
LEMMA ClassMessages ==
    ASSUME Inv, SessionInv, ClassTask
    PROVE  \/ ReadCbw
           \/ SendCsw
           \/ /\ UNCHANGED <<cmd, outdated>> /\ outbox' \in {outbox, Nothing}
              /\ \/ UNCHANGED inbox
                 \/ inbox = Nothing /\ inbox'.kind \in {"reply", "block"} /\ Alive
  <1> USE DEF cacheVars, locals, classVars, usbVars, hostVars, Frame, ReplyFrame, At, Executing,
              GoTo, Finish
  <1>0. ReplyMsg.kind = "reply"
    BY DEF ReplyMsg
  <1>1. CASE IgnoreOut \/ Park \/ Unpark \/ Yield
    BY <1>1 DEF IgnoreOut, Park, Unpark, Yield
  <1>2. CASE ExecuteRejected \/ ExecuteNoData \/ ExecuteTestUnitReady \/ ExecuteStartStop
             \/ ExecuteReply
    BY <1>2
    DEF ExecuteRejected, ExecuteNoData, ExecuteTestUnitReady, ExecuteStartStop, ExecuteReply,
        Respond
  <1>3. CASE SendReply
    BY <1>0, <1>3 DEF SendReply, Respond, Alive
  <1>4. CASE ReadSteps
    BY <1>4
    DEF ReadSteps, ExecuteRead, LookupHit, LookupMiss, LookupFails, Missed, SendBlock,
        SendFails, Respond, Alive
  <1>5. CASE WriteSteps
    BY <1>5
    DEF WriteSteps, ExecuteWrite, StartChunk, ReceiveBlock, OutFails, Commit, CommitFails,
        DiscardBlock, Respond
  <1> QED
    BY <1>1, <1>2, <1>3, <1>4, <1>5 DEF ClassTask

-----------------------------------------------------------------------------
(* Commands of an earlier session                                          *)

(* While a session is not configured there is only what the last one has   *)
(* left, or what the class is about to drain; a configured one starts with *)
(* none of it.  A command of this session has dropped a cache of the last. *)
Earlier ==
    /\ ~shared.configured =>
         /\ cmd # Nothing => cmd.tag = "earlier" \/ (phase = "class" /\ ~ep)
         /\ outbox.kind = "cbw" => outbox.tag = "earlier"
    /\ bus = "on" =>
         ~Carries(cmd, "earlier") /\ ~Carries(outbox, "earlier") /\ ~Carries(inbox, "earlier")
    /\ cmd # Nothing /\ cmd.tag # "earlier" /\ cmd.op # "other_lun" => ~outdated

LEMMA InitEarlier == Init => Earlier
  BY DEF Init, Earlier, Nothing, Carries

LEMMA FirmwareEarlier == ASSUME Inv, SessionInv, Earlier, Firmware PROVE Earlier'
  <1> USE DEF cacheVars, locals, classVars, usbVars, hostVars
  <1>1. CASE \E b \in Blocks, d \in Data : FirmwareWrite(b, d)
    BY <1>1 DEF FirmwareWrite, Earlier, Carries
  <1>2. CASE \E media \in BOOLEAN : Attach(media)
    <2>1. /\ ~shared.attached /\ phase = "outside"
          /\ shared'.configured = shared.configured
          /\ UNCHANGED <<cmd, outbox, inbox, bus, phase, ep>>
      BY <1>2 DEF Attach, Inv, TypeOK, Shared
    <2>2. ~shared.configured
      BY <2>1 DEF SessionInv, BusShape
    <2> QED
      BY <2>1, <2>2 DEF Earlier, Carries
  <1>3. CASE Detach
    <2>1. ~shared'.configured /\ bus' = "off" /\ UNCHANGED outdated
      BY <1>3 DEF Detach, Inv, TypeOK, Shared
    <2>2. /\ cmd' # Nothing => cmd'.tag = "earlier"
          /\ outbox'.kind = "cbw" => outbox'.tag = "earlier"
      <3>1. cmd \in OutMsg /\ outbox \in OutMsg
        BY MessageTypes DEF Inv, TypeOK
      <3>2. cmd' = Retag(cmd, Tags, "earlier") /\ outbox' = Retag(outbox, Tags, "earlier")
        BY <1>3 DEF Detach
      <3>3. cmd # Nothing => cmd.kind = "cbw" /\ cmd.tag \in Tags
        BY Kinds, MessageTypes DEF Inv, TypeOK, Cbw
      <3>4. outbox.kind = "cbw" => outbox.tag \in Tags
        BY Kinds DEF Inv, Cbw
      <3> QED
        BY <3>1, <3>2, <3>3, <3>4, Retagged DEF Tags
    <2> QED
      BY <2>1, <2>2 DEF Earlier
  <1> QED
    BY <1>1, <1>2, <1>3 DEF Firmware

LEMMA HostEarlier == ASSUME Inv, SessionInv, Earlier, Host PROVE Earlier'
  <1> USE DEF cacheVars, locals, classVars, usbVars, hostVars
  <1>0. Nothing.kind = "nothing"
    BY DEF Nothing
  <1>1. CASE \E c \in HostCbws : HostCommand(c)
    BY <1>1, Issued DEF HostCommand, Earlier, Carries, SessionInv, BusShape
  <1>2. CASE \E d \in Data : HostSend(d)
    BY <1>2 DEF HostSend, Earlier, Carries
  <1>3. CASE HostTake \/ HostConfused \/ HostReset \/ HostConfigure
    BY <1>0, <1>3 DEF HostTake, HostConfused, HostReset, HostConfigure, Earlier, Carries
  <1> QED
    BY <1>1, <1>2, <1>3 DEF Host

LEMMA DeviceTaskEarlier == ASSUME Inv, SessionInv, Earlier, DeviceTask PROVE Earlier'
  <1> USE DEF cacheVars, locals, classVars, usbVars, hostVars
  <1>0. Nothing.kind = "nothing"
    BY DEF Nothing
  <1>1. CASE PollQuiet
    BY <1>1 DEF PollQuiet, Earlier
  <1>2. CASE PollReset
    BY <1>0, <1>2 DEF PollReset, Earlier
  <1>3. CASE PollConfigure
    <2>1. cmd = Nothing /\ outbox = Nothing /\ inbox = Nothing
      BY <1>3 DEF PollConfigure, SessionInv, BusShape, CommandShape, Alive
    <2>2. shared'.configured /\ UNCHANGED <<cmd, outbox, inbox>>
      BY <1>3 DEF PollConfigure, Inv, TypeOK, Shared
    <2> QED
      BY <1>0, <2>1, <2>2 DEF Earlier, Carries
  <1>4. CASE PollClassReset
    <2>1. /\ shared'.configured = shared.configured /\ bus = "on" /\ shared.configured
          /\ UNCHANGED <<bus, outdated>>
      BY <1>4 DEF PollClassReset, SetSense, SessionInv, BusShape, Inv, TypeOK, Shared
    <2>2. ASSUME NEW m \in OutMsg \cup InMsg, ~Carries(m, "earlier")
          PROVE  ~Carries(Retag(m, {"current"}, "abandoned"), "earlier")
      BY <2>2, Retagged DEF Carries, Tags
    <2>3. cmd \in OutMsg /\ outbox \in OutMsg /\ inbox \in InMsg
      BY MessageTypes DEF Inv, TypeOK
    <2>4. /\ cmd' = Retag(cmd, {"current"}, "abandoned")
          /\ outbox' = Retag(outbox, {"current"}, "abandoned")
          /\ inbox' = Retag(inbox, {"current"}, "abandoned")
      BY <1>4 DEF PollClassReset
    <2>5. cmd' # Nothing /\ cmd'.tag # "earlier" /\ cmd'.op # "other_lun" => ~outdated
      <3>1. cmd' # Nothing => cmd.kind = "cbw" /\ cmd # Nothing /\ cmd'.op = cmd.op
        BY <2>3, <2>4, Retagged, Kinds DEF Tags, Inv
      <3> QED
        BY <2>1, <3>1 DEF Earlier, Carries
    <2> QED
      BY <2>1, <2>2, <2>3, <2>4, <2>5 DEF Earlier
  <1> QED
    BY <1>1, <1>2, <1>3, <1>4 DEF DeviceTask

LEMMA ClassTaskEarlier == ASSUME Inv, SessionInv, Earlier, ClassTask PROVE Earlier'
  <1>0. Nothing.kind = "nothing"
    BY DEF Nothing
  <1>1. CASE ReadCbw
    <2>1. /\ cmd' = outbox /\ outbox.kind = "cbw" /\ outbox' = Nothing /\ UNCHANGED <<inbox, bus>>
          /\ outbox.op # "other_lun" => ~outdated'
          /\ shared' = shared
      BY <1>1 DEF ReadCbw, Frame, Inv, TypeOK
    <2> QED
      BY <1>0, <2>1 DEF Earlier, Carries
  <1>2. CASE SendCsw
    <2>1. /\ cmd' = Nothing /\ UNCHANGED <<outbox, bus, shared, outdated>>
          /\ inbox' = inbox \/ (inbox'.kind = "csw" /\ inbox'.tag = cmd.tag /\ Alive)
      BY <1>2 DEF SendCsw, Frame, cacheVars, At, Alive
    <2>2. Alive => cmd.kind = "cbw"
      BY Kinds DEF SessionInv, CommandShape, Inv
    <2> QED
      BY <1>0, <2>1, <2>2 DEF Earlier, Carries
  <1>3. CASE /\ UNCHANGED <<cmd, outdated>> /\ outbox' \in {outbox, Nothing}
             /\ \/ UNCHANGED inbox
                \/ inbox = Nothing /\ inbox'.kind \in {"reply", "block"} /\ Alive
    <2>1. phase = "class" /\ UNCHANGED <<ep, bus>> /\ shared'.configured = shared.configured
      BY ClassFrame
    <2>2. phase' = "class" \/ (phase' = "outside" /\ (~ep => pc = "parked"))
      BY DEF ClassTask, ReadSteps, WriteSteps, ReadCbw, IgnoreOut, Park, Unpark, SendCsw,
             ExecuteRejected, ExecuteNoData, ExecuteTestUnitReady, ExecuteStartStop,
             ExecuteReply, SendReply, ExecuteRead, LookupHit, LookupMiss, LookupFails,
             SendBlock, SendFails, ExecuteWrite, ReceiveBlock, OutFails, Commit, CommitFails,
             DiscardBlock, ReplyFrame, Frame, Yield, Blocked, At, Executing, Missed
    <2>3. pc = "parked" => cmd = Nothing
      BY DEF SessionInv, CommandShape, Alive
    <2> QED
      BY <1>0, <1>3, <2>1, <2>2, <2>3 DEF Earlier, Carries
  <1> QED
    BY <1>1, <1>2, <1>3, ClassMessages

LEMMA EarlierHolds == Spec => []Earlier
  <1>1. Inv /\ SessionInv /\ Earlier /\ [Next]_vars => Earlier'
    <2>1. ASSUME Inv, SessionInv, Earlier, Next PROVE Earlier'
      BY <2>1, FirmwareEarlier, HostEarlier, DeviceTaskEarlier, ClassTaskEarlier DEF Next
    <2>2. ASSUME Earlier, UNCHANGED vars PROVE Earlier'
      BY <2>2 DEF Earlier, Carries, vars, cacheVars, locals, classVars, usbVars, hostVars
    <2> QED
      BY <2>1, <2>2
  <1> QED
    BY <1>1, InitEarlier, InvHolds, SessionHolds, PTL DEF Spec

(* can_detach looks at `configured` and `ejected` only: when either says   *)
(* that the host is away, no transfer of this session is half done.        *)
THEOREM CleanDetach == Spec => []UnforcedDetachIsClean
  <1>1. Inv /\ SessionInv /\ Earlier => UnforcedDetachIsClean
    BY DEF SessionInv, BusShape, CommandShape, Alive, Earlier, UnforcedDetachIsClean, CanDetach
  <1> QED
    BY <1>1, InvHolds, SessionHolds, EarlierHolds, PTL

-----------------------------------------------------------------------------
(* Writes of an earlier session                                            *)

(* Without a forced detach a write left behind never gets another block,   *)
(* so that it cannot fill the chunk it would store.                        *)
LeftBehind ==
    ~Forced /\ Carries(cmd, "earlier") =>
        pc # "commit" /\ (pc \in {"execute", "receive"} => outbox.kind # "block")

(* How a write comes to its next chunk.                                    *)
LEMMA WayToCommit ==
    ASSUME ClassTask
    PROVE  /\ pc' = "commit" => pc = "commit" \/ (pc = "receive" /\ outbox.kind = "block")
           /\ pc' = "receive" => pc \in {"execute", "receive", "commit"}
           /\ pc' = "execute" => pc = "execute" \/ ReadCbw
  <1> USE DEF At, Executing, GoTo, Finish
  <1>1. CASE IgnoreOut \/ Park \/ Unpark \/ SendCsw \/ Yield
    BY <1>1 DEF IgnoreOut, Park, Unpark, SendCsw, Yield, classVars
  <1>2. CASE ExecuteRejected \/ ExecuteNoData \/ ExecuteTestUnitReady \/ ExecuteStartStop
             \/ ExecuteReply \/ SendReply
    BY <1>2
    DEF ExecuteRejected, ExecuteNoData, ExecuteTestUnitReady, ExecuteStartStop, ExecuteReply,
        SendReply, Respond
  <1>3. CASE ReadSteps
    BY <1>3
    DEF ReadSteps, ExecuteRead, LookupHit, LookupMiss, LookupFails, SendBlock, SendFails,
        Respond
  <1>4. CASE WriteSteps
    BY <1>4
    DEF WriteSteps, ExecuteWrite, StartChunk, ReceiveBlock, OutFails, Commit, CommitFails,
        DiscardBlock, Respond
  <1>5. CASE ReadCbw
    BY <1>5 DEF ReadCbw
  <1> QED
    BY <1>1, <1>2, <1>3, <1>4, <1>5 DEF ClassTask

LEMMA LeftBehindStep ==
    ASSUME Inv, SessionInv, Earlier, LeftBehind, Next PROVE LeftBehind'
  <1> USE DEF cacheVars, locals, classVars, usbVars, hostVars
  <1>0. Nothing.kind = "nothing"
    BY DEF Nothing
  <1> SUFFICES ASSUME ~Forced, Carries(cmd', "earlier")
               PROVE  pc' # "commit" /\ (pc' \in {"execute", "receive"} => outbox'.kind # "block")
    BY DEF LeftBehind, Carries
  <1>1. CASE Detach
    <2>1. /\ CanDetach /\ phase = "outside" /\ shared.attached /\ UNCHANGED pc
          /\ outbox' = Retag(outbox, Tags, "earlier")
      BY <1>1 DEF Detach
    <2>2. outbox'.kind = outbox.kind
      <3>1. outbox \in OutMsg /\ Tags \in SUBSET Tags /\ "earlier" \in Tags
        BY DEF Inv, TypeOK, Tags
      <3> QED
        BY <2>1, <3>1, Retagged
    <2>3. pc \notin {"execute", "commit"}
      BY <2>1 DEF SessionInv, CommandShape
    <2>4. CASE pc = "receive"
      <3>1. cmd # Nothing /\ cmd.kind = "cbw"
        BY <2>4, Kinds DEF SessionInv, CommandShape, Alive, Inv
      <3>2. cmd.tag = "earlier"
        BY <2>1, <2>4, <3>1 DEF SessionInv, CommandShape, CanDetach, Earlier
      <3> QED
        BY <2>1, <2>2, <2>4, <3>1, <3>2 DEF LeftBehind, Carries
    <2> QED
      BY <2>1, <2>3, <2>4
  <1>2. CASE Firmware /\ ~Detach
    BY <1>2 DEF Firmware, FirmwareWrite, Attach, LeftBehind, Carries
  <1>3. CASE Host
    <2>1. CASE \E d \in Data : HostSend(d)
      BY <2>1 DEF HostSend, Earlier, Carries
    <2>2. CASE \E c \in HostCbws : HostCommand(c)
      BY <2>2, Issued DEF HostCommand, LeftBehind, Carries
    <2>3. CASE HostTake \/ HostConfused \/ HostReset \/ HostConfigure
      BY <2>3 DEF HostTake, HostConfused, HostReset, HostConfigure, LeftBehind, Carries
    <2> QED
      BY <1>3, <2>1, <2>2, <2>3 DEF Host
  <1>4. CASE DeviceTask
    <2>1. CASE PollClassReset
      <3>1. cmd' = Retag(cmd, {"current"}, "abandoned") /\ bus = "on"
        BY <2>1 DEF PollClassReset
      <3>2. ~Carries(cmd, "earlier") /\ cmd \in OutMsg
        BY <3>1, MessageTypes DEF Earlier, Inv, TypeOK
      <3>3. ~Carries(cmd', "earlier")
        BY <3>1, <3>2, Retagged DEF Carries, Tags
      <3> QED
        BY <3>3
    <2>2. CASE PollQuiet \/ PollReset \/ PollConfigure
      BY <1>0, <2>2 DEF PollQuiet, PollReset, PollConfigure, LeftBehind, Carries
    <2> QED
      BY <1>4, <2>1, <2>2 DEF DeviceTask
  <1>5. CASE ClassTask
    <2>1. CASE ReadCbw
      BY <1>0, <2>1 DEF ReadCbw
    <2>2. CASE SendCsw
      BY <1>0, <2>2 DEF SendCsw, Carries
    <2>3. CASE UNCHANGED cmd /\ outbox' \in {outbox, Nothing} /\ ~ReadCbw
      BY <1>0, <1>5, <2>3, WayToCommit DEF LeftBehind
    <2> QED
      BY <1>5, <2>1, <2>2, <2>3, ClassMessages
  <1> QED
    BY <1>1, <1>2, <1>3, <1>4, <1>5 DEF Next

(* Only the two ends of a CMD25 change the card while the class runs.      *)
LEMMA CardSteps ==
    ASSUME Next, phase = "class", card' # card PROVE pc = "commit" /\ UNCHANGED phase
  <1> USE DEF At, Executing, Frame, ReplyFrame, Respond
  <1>1. ~Firmware
    BY DEF Firmware, FirmwareWrite, Attach, Detach
  <1>2. ~Host /\ ~DeviceTask
    BY DEF Host, HostCommand, HostSend, HostTake, HostConfused, HostReset, HostConfigure,
           DeviceTask, PollQuiet, PollReset, PollConfigure, PollClassReset
  <1>3. CASE ReadSteps
    BY <1>3
    DEF ReadSteps, ExecuteRead, LookupHit, LookupMiss, LookupFails, SendBlock, SendFails
  <1>4. CASE WriteSteps
    BY <1>4
    DEF WriteSteps, ExecuteWrite, ReceiveBlock, OutFails, Commit, CommitFails, DiscardBlock
  <1>5. CASE ClassTask /\ ~ReadSteps /\ ~WriteSteps
    BY <1>5
    DEF ClassTask, ReadCbw, IgnoreOut, Park, Unpark, SendCsw, ExecuteRejected, ExecuteNoData,
        ExecuteTestUnitReady, ExecuteStartStop, ExecuteReply, SendReply, Yield
  <1> QED
    BY <1>1, <1>2, <1>3, <1>4, <1>5 DEF Next

(* The card is never written for a command of an earlier session, as long  *)
(* as the screen refuses to leave while the host has the disk: what the    *)
(* comment on SharedState.generation claims of every detach.               *)
THEOREM NoStaleWriteUnforced == ASSUME ~Forced PROVE Spec => NoStaleWrite
  <1>1. Init => LeftBehind
    BY DEF Init, LeftBehind, Nothing, Carries
  <1>2. Inv /\ SessionInv /\ Earlier /\ LeftBehind /\ [Next]_vars => LeftBehind'
    <2>1. ASSUME LeftBehind, UNCHANGED vars PROVE LeftBehind'
      BY <2>1 DEF LeftBehind, Carries, vars, classVars, usbVars
    <2> QED
      BY <2>1, LeftBehindStep
  <1>3. Inv /\ SessionInv /\ LeftBehind /\ [Next]_vars
            => [phase = "class" /\ card' # card => cmd.tag # "earlier"]_vars
    <2>1. ASSUME Inv, SessionInv, LeftBehind, Next, phase = "class", card' # card
          PROVE  cmd.tag # "earlier"
      <3>1. pc = "commit"
        BY <2>1, CardSteps
      <3>2. cmd.kind = "cbw"
        BY <2>1, <3>1, Kinds DEF SessionInv, CommandShape, Alive, Inv
      <3> QED
        BY <2>1, <3>1, <3>2 DEF LeftBehind, Carries
    <2> QED
      BY <2>1
  <1> QED
    BY <1>1, <1>2, <1>3, InvHolds, SessionHolds, EarlierHolds, PTL DEF Spec, NoStaleWrite
=============================================================================
