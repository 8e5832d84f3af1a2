--------------------------- MODULE MscClassProofs ---------------------------
(***************************************************************************)
(* Proofs about MscClass, for every capacity of the card, every size and   *)
(* number of cache lines, every host and every fault of the card.          *)
(*                                                                         *)
(* TypeOK is not inductive: that a status has a residue >= 0 needs the     *)
(* cursor inside the command, which InFlight states of a suspended command.*)
(***************************************************************************)
EXTENDS MscClass, SequenceTheorems, WellFoundedInduction, TLAPS

USE CacheAssumption, ClassAssumption DEF Blocks, LruLines, StreamLine, Slots

(* Geometry of the lines.                                                  *)

LEMMA SpanIsExtent ==
    \A b \in Blocks : Span(b) \in Extent /\ Span(b) \subseteq Blocks /\ b \in Span(b)
  BY DEF Span, Extent

LEMMA EmptyIsLine ==
    EmptyLine \in Line /\ DOMAIN EmptyLine = {}
  <1>1. EmptyLine \in [{} -> Data] /\ DOMAIN EmptyLine = {}
    BY DEF EmptyLine
  <1>2. {} \in Extent
    BY DEF Extent
  <1> QED
    BY <1>1, <1>2 DEF Line

LEMMA LineIsFunction ==
    ASSUME NEW line \in Line
    PROVE  /\ DOMAIN line \in Extent /\ DOMAIN line \subseteq Blocks
           /\ line \in [DOMAIN line -> Data]
  BY DEF Line, Extent, Span

LEMMA InvalidatedType ==
    ASSUME NEW ls \in [Slots -> Line], NEW i \in Slots
    PROVE  /\ Invalidated(ls, i) \in [Slots -> Line]
           /\ DOMAIN Invalidated(ls, i)[i] = {}
           /\ \A j \in Slots \ {i} : Invalidated(ls, i)[j] = ls[j]
  BY EmptyIsLine DEF Invalidated

LEMMA UpdatedType ==
    ASSUME NEW ls \in [Slots -> Line], NEW W, NEW w \in [W -> Data]
    PROVE  /\ UpdatedFromStream(ls, w) \in [Slots -> Line]
           /\ UpdatedFromStream(ls, w)[StreamLine] = ls[StreamLine]
           /\ \A i \in Slots : DOMAIN UpdatedFromStream(ls, w)[i] = DOMAIN ls[i]
           /\ \A i \in LruLines : \A b \in DOMAIN ls[i] :
                 UpdatedFromStream(ls, w)[i][b] = IF b \in W THEN w[b] ELSE ls[i][b]
  <1> DEFINE new(i) == [b \in DOMAIN ls[i] |-> IF b \in DOMAIN w THEN w[b] ELSE ls[i][b]]
  <1>1. ASSUME NEW i \in Slots PROVE new(i) \in Line
    <2>1. ls[i] \in [DOMAIN ls[i] -> Data] /\ DOMAIN ls[i] \in Extent
      BY LineIsFunction
    <2>2. new(i) \in [DOMAIN ls[i] -> Data]
      BY <2>1
    <2> QED
      BY <2>1, <2>2 DEF Line
  <1> QED
    BY <1>1 DEF UpdatedFromStream
(* Messages and the shared state.                                          *)

LEMMA MessageTypes ==
    /\ Nothing \in Command /\ Nothing \in OutMsg
    /\ Nothing \in InMsg /\ ReplyMsg \in InMsg
    /\ Cbw \subseteq Command /\ Command \subseteq OutMsg
    /\ HostCbws \subseteq Cbw
    /\ \A c \in Command : c # Nothing =>
          c \in Cbw /\ c.lba \in Nat /\ c.n \in Nat /\ c.tag \in Tags /\ c.op \in AllOps
    /\ \A m \in OutMsg : m.kind = "cbw" => m \in Cbw /\ m # Nothing
    /\ \A m \in OutMsg : m.kind = "block" => m.data \in Data
    /\ \A m \in InMsg : m.kind = "block" => m.data \in Data
    /\ \A d \in Data : /\ [kind |-> "block", data |-> d] \in OutMsg
                        /\ [kind |-> "block", data |-> d] \in InMsg
    /\ \A s \in Statuses, r \in Nat, t \in Tags :
          [kind |-> "csw", status |-> s, residue |-> r, tag |-> t] \in InMsg
  BY DEF Nothing, ReplyMsg, Command, OutMsg, InMsg, Cbw, Block, Csw, HostCbws, Tags

LEMMA RetagType ==
    ASSUME NEW from \in SUBSET Tags, NEW to \in Tags
    PROVE  /\ \A c \in Command :
                 /\ Retag(c, from, to) \in Command
                 /\ c # Nothing => /\ Retag(c, from, to) # Nothing
                                  /\ Retag(c, from, to).lba = c.lba
                                  /\ Retag(c, from, to).n = c.n
           /\ \A m \in OutMsg : Retag(m, from, to) \in OutMsg
           /\ \A m \in InMsg : Retag(m, from, to) \in InMsg
  BY DEF Retag, Nothing, ReplyMsg, Command, OutMsg, InMsg, Cbw, Block, Csw, Tags

LEMMA SharedTypes ==
    ASSUME NEW s \in Shared
    PROVE  /\ \A x \in Senses : [s EXCEPT !.sense = x] \in Shared
           /\ \A x \in BOOLEAN : /\ [s EXCEPT !.configured = x] \in Shared
                                 /\ [s EXCEPT !.ejected = x] \in Shared
           /\ \A x \in BOOLEAN :
                 [s EXCEPT !.attached = TRUE, !.ejected = FALSE, !.media = x,
                           !.sense = "none"] \in Shared
           /\ [s EXCEPT !.attached = FALSE, !.configured = FALSE, !.ejected = FALSE,
                        !.media = FALSE] \in Shared
  BY DEF Shared, Senses

(* The inductive invariant                                                 *)

Inv == TypeOK /\ InFlight

LEMMA InitInv == Init => Inv
  <1> SUFFICES ASSUME Init PROVE Inv
    OBVIOUS
  <1>1. shared \in Shared
    BY DEF Init, Shared, Senses
  <1>2. lines \in [Slots -> Line]
    BY EmptyIsLine DEF Init, EmptyCache
  <1>3. TypeOK
    <2>1. card \in [Blocks -> Data] /\ older \subseteq LruLines \X LruLines
      BY DEF Init
    <2>2. chunk \in Seq(Data) /\ moved \in Seq(Data)
      BY DEF Init
    <2>3. outbox \in OutMsg /\ inbox \in InMsg /\ req \in Command /\ cmd \in Command
      BY MessageTypes DEF Init
    <2>4. slot \in Slots /\ cur \in Nat /\ left \in Nat /\ torn \subseteq Blocks
      BY DEF Init
    <2> QED
      BY <1>1, <1>2, <2>1, <2>2, <2>3, <2>4 DEF Init, TypeOK, Statuses
  <1>4. InFlight
    BY DEF Init, InFlight
  <1> QED
    BY <1>3, <1>4 DEF Inv

(* A step that moves none of what InFlight speaks of.                      *)
LEMMA InFlightFrame ==
    ASSUME InFlight, UNCHANGED <<pc, cmd, cur, slot, chunk, left, lines>>
    PROVE  InFlight'
  BY DEF InFlight, End, ChunkLen, Holds

LEMMA InFlightRetag ==
    ASSUME InFlight, TypeOK, NEW from \in SUBSET Tags, NEW to \in Tags,
           cmd' = Retag(cmd, from, to),
           UNCHANGED <<pc, cur, slot, chunk, left, lines>>
    PROVE  InFlight'
  <1>1. cmd # Nothing => cmd' # Nothing /\ cmd'.lba = cmd.lba /\ cmd'.n = cmd.n
    BY RetagType DEF TypeOK
  <1> QED
    BY <1>1 DEF InFlight, End, ChunkLen, Holds

LEMMA FirmwareWriteInv ==
    ASSUME Inv, NEW b \in Blocks, NEW d \in Data, FirmwareWrite(b, d) PROVE Inv'
  <1>1. TypeOK'
    BY DEF Inv, TypeOK, FirmwareWrite, cacheVars, locals, classVars, usbVars, hostVars
  <1>2. InFlight'
    BY InFlightFrame DEF Inv, FirmwareWrite, cacheVars, locals, classVars, usbVars, hostVars
  <1> QED
    BY <1>1, <1>2 DEF Inv

LEMMA AttachInv ==
    ASSUME Inv, NEW media \in BOOLEAN, Attach(media) PROVE Inv'
  <1>1. TypeOK'
    BY SharedTypes DEF Inv, TypeOK, Attach, cacheVars, locals, classVars, usbVars, hostVars, Senses
  <1>2. InFlight'
    BY InFlightFrame DEF Inv, Attach, cacheVars, locals, classVars, usbVars, hostVars
  <1> QED
    BY <1>1, <1>2 DEF Inv

LEMMA DetachInv ==
    ASSUME Inv, Detach PROVE Inv'
  <1>1. TypeOK'
    <2>1. /\ Retag(cmd, Tags, "earlier") \in Command
          /\ Retag(outbox, Tags, "earlier") \in OutMsg
      BY RetagType DEF Inv, TypeOK, Tags
    <2>2. shared' \in Shared
      BY SharedTypes DEF Inv, TypeOK, Detach
    <2> QED
      BY <2>1, <2>2, MessageTypes
      DEF Inv, TypeOK, Detach, cacheVars, locals, classVars, usbVars, hostVars
  <1>2. InFlight'
    BY InFlightRetag DEF Inv, Detach, cacheVars, locals, classVars, usbVars, hostVars, Tags
  <1> QED
    BY <1>1, <1>2 DEF Inv

LEMMA HostResetInv ==
    ASSUME Inv, HostReset PROVE Inv'
  <1>1. TypeOK'
    BY MessageTypes DEF Inv, TypeOK, HostReset, cacheVars, locals, classVars, usbVars, hostVars
  <1>2. InFlight'
    BY InFlightFrame DEF Inv, HostReset, cacheVars, locals, classVars, usbVars, hostVars
  <1> QED
    BY <1>1, <1>2 DEF Inv

LEMMA HostConfigureInv ==
    ASSUME Inv, HostConfigure PROVE Inv'
  <1>1. TypeOK'
    BY DEF Inv, TypeOK, HostConfigure, cacheVars, locals, classVars, usbVars, hostVars
  <1>2. InFlight'
    BY InFlightFrame DEF Inv, HostConfigure, cacheVars, locals, classVars, usbVars, hostVars
  <1> QED
    BY <1>1, <1>2 DEF Inv

LEMMA HostCommandInv ==
    ASSUME Inv, NEW c \in HostCbws, HostCommand(c) PROVE Inv'
  <1>1. TypeOK'
    BY MessageTypes DEF Inv, TypeOK, HostCommand, cacheVars, locals, classVars, usbVars, hostVars
  <1>2. InFlight'
    BY InFlightFrame DEF Inv, HostCommand, cacheVars, locals, classVars, usbVars, hostVars
  <1> QED
    BY <1>1, <1>2 DEF Inv

LEMMA HostSendInv ==
    ASSUME Inv, NEW d \in Data, HostSend(d) PROVE Inv'
  <1>1. TypeOK'
    BY MessageTypes DEF Inv, TypeOK, HostSend, cacheVars, locals, classVars, usbVars, hostVars
  <1>2. InFlight'
    BY InFlightFrame DEF Inv, HostSend, cacheVars, locals, classVars, usbVars, hostVars
  <1> QED
    BY <1>1, <1>2 DEF Inv

LEMMA HostTakeInv ==
    ASSUME Inv, HostTake PROVE Inv'
  <1>1. TypeOK'
    <2>1. moved' \in Seq(Data)
      <3>1. inbox.kind \in {"csw", "block", "reply"}
        BY DEF Inv, TypeOK, HostTake, InMsg, ReplyMsg, Nothing, Block, Csw
      <3>2. CASE inbox.kind = "csw"
        BY <3>2 DEF HostTake
      <3>3. CASE inbox.kind = "block"
        BY <3>3, MessageTypes DEF Inv, TypeOK, HostTake
      <3>4. CASE inbox.kind = "reply"
        BY <3>4 DEF Inv, TypeOK, HostTake
      <3> QED
        BY <3>1, <3>2, <3>3, <3>4
    <2> QED
      BY <2>1, MessageTypes
      DEF Inv, TypeOK, HostTake, cacheVars, locals, classVars, usbVars, hostVars
  <1>2. InFlight'
    BY InFlightFrame DEF Inv, HostTake, cacheVars, locals, classVars, usbVars, hostVars
  <1> QED
    BY <1>1, <1>2 DEF Inv

LEMMA HostConfusedInv ==
    ASSUME Inv, HostConfused PROVE Inv'
  <1>1. TypeOK'
    BY MessageTypes DEF Inv, TypeOK, HostConfused, cacheVars, locals, classVars, usbVars, hostVars
  <1>2. InFlight'
    BY InFlightFrame DEF Inv, HostConfused, cacheVars, locals, classVars, usbVars, hostVars
  <1> QED
    BY <1>1, <1>2 DEF Inv

LEMMA PollQuietInv ==
    ASSUME Inv, PollQuiet PROVE Inv'
  <1>1. TypeOK'
    BY DEF Inv, TypeOK, PollQuiet, cacheVars, locals, classVars, usbVars, hostVars
  <1>2. InFlight'
    BY InFlightFrame DEF Inv, PollQuiet, cacheVars, locals, classVars, usbVars, hostVars
  <1> QED
    BY <1>1, <1>2 DEF Inv

LEMMA PollResetInv ==
    ASSUME Inv, PollReset PROVE Inv'
  <1>1. TypeOK'
    BY SharedTypes, MessageTypes DEF Inv, TypeOK, PollReset, cacheVars, locals, classVars, usbVars, hostVars
  <1>2. InFlight'
    BY InFlightFrame DEF Inv, PollReset, cacheVars, locals, classVars, usbVars, hostVars
  <1> QED
    BY <1>1, <1>2 DEF Inv

LEMMA PollConfigureInv ==
    ASSUME Inv, PollConfigure PROVE Inv'
  <1>1. TypeOK'
    BY SharedTypes DEF Inv, TypeOK, PollConfigure, cacheVars, locals, classVars, usbVars, hostVars
  <1>2. InFlight'
    BY InFlightFrame DEF Inv, PollConfigure, cacheVars, locals, classVars, usbVars, hostVars
  <1> QED
    BY <1>1, <1>2 DEF Inv

LEMMA PollClassResetInv ==
    ASSUME Inv, PollClassReset PROVE Inv'
  <1>1. TypeOK'
    <2>1. /\ Retag(cmd, {"current"}, "abandoned") \in Command
          /\ Retag(outbox, {"current"}, "abandoned") \in OutMsg
          /\ Retag(inbox, {"current"}, "abandoned") \in InMsg
      BY RetagType DEF Inv, TypeOK, Tags
    <2>2. shared' \in Shared
      BY SharedTypes DEF Inv, TypeOK, PollClassReset, SetSense, Senses
    <2> QED
      BY <2>1, <2>2, MessageTypes
      DEF Inv, TypeOK, PollClassReset, cacheVars, locals, classVars, usbVars, hostVars
  <1>2. InFlight'
    BY InFlightRetag DEF Inv, PollClassReset, cacheVars, locals, classVars, usbVars, hostVars, Tags
  <1> QED
    BY <1>1, <1>2 DEF Inv

LEMMA YieldInv ==
    ASSUME Inv, Yield PROVE Inv'
  <1>1. TypeOK'
    BY DEF Inv, TypeOK, Yield, cacheVars, locals, classVars, usbVars, hostVars
  <1>2. InFlight'
    BY InFlightFrame DEF Inv, Yield, cacheVars, locals, classVars, usbVars, hostVars
  <1> QED
    BY <1>1, <1>2 DEF Inv

(* A command in flight is a command block, with the cursor inside it.      *)
LEMMA Running ==
    ASSUME Inv, pc \notin {"idle", "parked"}
    PROVE  /\ cmd \in Cbw /\ cmd.lba \in Nat /\ cmd.n \in Nat /\ cmd.tag \in Tags
           /\ cur \in Nat /\ End \in Nat /\ cmd.lba <= cur /\ cur <= End
           /\ Residue \in Nat
  <1>1. cmd \in Cbw /\ cmd.lba \in Nat /\ cmd.n \in Nat /\ cmd.tag \in Tags
    BY MessageTypes DEF Inv, TypeOK, InFlight
  <1> QED
    BY <1>1 DEF Inv, TypeOK, InFlight, End, Residue

(* What every way to end a command leaves behind.                          *)
LEMMA RespondInv ==
    ASSUME Inv, pc \notin {"idle", "parked"}, NEW s \in Statuses, NEW t \in Senses \cup {"keep"},
           Respond(s, t), UNCHANGED cur
    PROVE  /\ shared' \in Shared /\ pc' = "csw" /\ status' \in Statuses
           /\ slot' \in Slots /\ chunk' \in Seq(Data) /\ left' \in Nat
           /\ InFlight'
  <1>1. pc' = "csw" /\ status' \in Statuses /\ UNCHANGED cmd
        /\ slot' \in Slots /\ chunk' \in Seq(Data) /\ left' \in Nat
    BY DEF Respond, Finish
  <1>2. shared' \in Shared
    <2>1. CASE t = "keep"
      BY <2>1 DEF Respond, Inv, TypeOK
    <2>2. CASE t # "keep"
      <3>1. t \in Senses
        BY <2>2
      <3>2. shared' = [shared EXCEPT !.sense = t]
        BY <2>2 DEF Respond, SetSense
      <3>3. shared \in Shared
        BY DEF Inv, TypeOK
      <3> QED
        BY <3>1, <3>2, <3>3, SharedTypes
    <2> QED
      BY <2>1, <2>2
  <1>3. InFlight'
    BY <1>1 DEF Inv, InFlight, End
  <1> QED
    BY <1>1, <1>2, <1>3

LEMMA IgnoreOutInv ==
    ASSUME Inv, IgnoreOut PROVE Inv'
  <1>1. TypeOK'
    BY MessageTypes DEF IgnoreOut, Inv, TypeOK, At, Frame, cacheVars, locals, classVars, usbVars, hostVars
  <1>2. InFlight'
    BY DEF Inv, IgnoreOut, InFlight, End, ChunkLen, Holds, At, Frame, cacheVars, locals, classVars, usbVars, hostVars
  <1> QED
    BY <1>1, <1>2 DEF Inv

LEMMA ParkInv ==
    ASSUME Inv, Park PROVE Inv'
  <1>1. TypeOK'
    BY MessageTypes DEF Park, Inv, TypeOK, At, Frame, cacheVars, locals, classVars, usbVars, hostVars
  <1>2. InFlight'
    BY DEF Inv, Park, InFlight, End, ChunkLen, Holds, At, Frame, cacheVars, locals, classVars, usbVars, hostVars
  <1> QED
    BY <1>1, <1>2 DEF Inv

LEMMA UnparkInv ==
    ASSUME Inv, Unpark PROVE Inv'
  <1>1. TypeOK'
    BY MessageTypes DEF Unpark, Inv, TypeOK, At, Frame, cacheVars, locals, classVars, usbVars, hostVars
  <1>2. InFlight'
    BY DEF Inv, Unpark, InFlight, End, ChunkLen, Holds, At, Frame, cacheVars, locals, classVars, usbVars, hostVars
  <1> QED
    BY <1>1, <1>2 DEF Inv

LEMMA ReadCbwInv ==
    ASSUME Inv, ReadCbw PROVE Inv'
  <1>0. /\ outbox \in Cbw /\ outbox # Nothing
        /\ outbox.lba \in Nat /\ outbox.n \in Nat
    BY MessageTypes DEF Inv, TypeOK, ReadCbw
  <1>1. TypeOK'
    BY <1>0, EmptyIsLine, MessageTypes DEF ReadCbw, EmptyCache, Inv, TypeOK, At, Frame, cacheVars, locals, classVars, usbVars, hostVars
  <1>2. InFlight'
    BY <1>0 DEF ReadCbw, InFlight, End
  <1> QED
    BY <1>1, <1>2 DEF Inv

LEMMA SendCswInv ==
    ASSUME Inv, SendCsw PROVE Inv'
  <1>0. ep => [kind |-> "csw", status |-> status, residue |-> Residue,
               tag |-> cmd.tag] \in InMsg
    BY Running, MessageTypes DEF SendCsw, At, Inv, TypeOK
  <1>1. TypeOK'
    BY <1>0, Running, MessageTypes DEF SendCsw, Statuses, Inv, TypeOK, At, Frame, cacheVars, locals, classVars, usbVars, hostVars
  <1>2. InFlight'
    BY DEF SendCsw, InFlight
  <1> QED
    BY <1>1, <1>2 DEF Inv

LEMMA ExecuteRejectedInv ==
    ASSUME Inv, ExecuteRejected PROVE Inv'
  <1>1. PICK s \in Statuses, t \in Senses \cup {"keep"} : Respond(s, t)
    BY DEF ExecuteRejected, Statuses, Senses
  <1>2. pc \notin {"idle", "parked"} /\ UNCHANGED cur
    BY DEF ExecuteRejected, Executing, At, ReplyFrame
  <1>3. inbox' \in InMsg
    BY MessageTypes DEF ExecuteRejected, Inv, TypeOK
  <1>4. TypeOK'
    BY <1>1, <1>2, <1>3, RespondInv
    DEF ExecuteRejected, Respond, Finish, ReplyFrame, Frame, Inv, TypeOK, cacheVars, hostVars
  <1> QED
    BY <1>1, <1>2, <1>4, RespondInv DEF Inv

LEMMA ExecuteNoDataInv ==
    ASSUME Inv, ExecuteNoData PROVE Inv'
  <1>1. PICK s \in Statuses, t \in Senses \cup {"keep"} : Respond(s, t)
    BY DEF ExecuteNoData, Statuses, Senses
  <1>2. pc \notin {"idle", "parked"} /\ UNCHANGED cur
    BY DEF ExecuteNoData, Executing, At, ReplyFrame
  <1>3. inbox' \in InMsg
    BY MessageTypes DEF ExecuteNoData, Inv, TypeOK
  <1>4. TypeOK'
    BY <1>1, <1>2, <1>3, RespondInv
    DEF ExecuteNoData, Respond, Finish, ReplyFrame, Frame, Inv, TypeOK, cacheVars, hostVars
  <1> QED
    BY <1>1, <1>2, <1>4, RespondInv DEF Inv

LEMMA ExecuteTestUnitReadyInv ==
    ASSUME Inv, ExecuteTestUnitReady PROVE Inv'
  <1>1. PICK s \in Statuses, t \in Senses \cup {"keep"} : Respond(s, t)
    BY DEF ExecuteTestUnitReady, Statuses, Senses
  <1>2. pc \notin {"idle", "parked"} /\ UNCHANGED cur
    BY DEF ExecuteTestUnitReady, Executing, At, ReplyFrame
  <1>3. inbox' \in InMsg
    BY MessageTypes DEF ExecuteTestUnitReady, Inv, TypeOK
  <1>4. TypeOK'
    BY <1>1, <1>2, <1>3, RespondInv
    DEF ExecuteTestUnitReady, Respond, Finish, ReplyFrame, Frame, Inv, TypeOK, cacheVars, hostVars
  <1> QED
    BY <1>1, <1>2, <1>4, RespondInv DEF Inv

LEMMA SendReplyInv ==
    ASSUME Inv, SendReply PROVE Inv'
  <1>1. PICK s \in Statuses, t \in Senses \cup {"keep"} : Respond(s, t)
    BY DEF SendReply, Statuses, Senses
  <1>2. pc \notin {"idle", "parked"} /\ UNCHANGED cur
    BY DEF SendReply, Executing, At, ReplyFrame
  <1>3. inbox' \in InMsg
    BY MessageTypes DEF SendReply, Inv, TypeOK
  <1>4. TypeOK'
    BY <1>1, <1>2, <1>3, RespondInv
    DEF SendReply, Respond, Finish, ReplyFrame, Frame, Inv, TypeOK, cacheVars, hostVars
  <1> QED
    BY <1>1, <1>2, <1>4, RespondInv DEF Inv

LEMMA SendFailsInv ==
    ASSUME Inv, SendFails PROVE Inv'
  <1>1. PICK s \in Statuses, t \in Senses \cup {"keep"} : Respond(s, t)
    BY DEF SendFails, Statuses, Senses
  <1>2. pc \notin {"idle", "parked"} /\ UNCHANGED cur
    BY DEF SendFails, Executing, At, ReplyFrame
  <1>3. inbox' \in InMsg
    BY MessageTypes DEF SendFails, Inv, TypeOK
  <1>4. TypeOK'
    BY <1>1, <1>2, <1>3, RespondInv
    DEF SendFails, Respond, Finish, ReplyFrame, Frame, Inv, TypeOK, cacheVars, hostVars
  <1> QED
    BY <1>1, <1>2, <1>4, RespondInv DEF Inv

LEMMA ExecuteReplyInv ==
    ASSUME Inv, ExecuteReply PROVE Inv'
  <1>1. pc \notin {"idle", "parked"} /\ UNCHANGED <<cur, inbox>>
    BY DEF ExecuteReply, Executing, At, ReplyFrame
  <1>2. CASE \E s \in Statuses, t \in Senses \cup {"keep"} : Respond(s, t)
    <2>1. PICK s \in Statuses, t \in Senses \cup {"keep"} : Respond(s, t)
      BY <1>2
    <2>2. TypeOK'
      BY <1>1, <2>1, RespondInv
      DEF ExecuteReply, Respond, Finish, ReplyFrame, Frame, Inv, TypeOK, cacheVars, hostVars
    <2> QED
      BY <1>1, <2>1, <2>2, RespondInv DEF Inv
  <1>3. CASE /\ GoTo("reply") /\ UNCHANGED <<shared, slot, chunk, left>>
    <2>1. TypeOK'
      BY <1>1, <1>3 DEF ExecuteReply, GoTo, ReplyFrame, Frame, Inv, TypeOK, cacheVars, hostVars
    <2>2. InFlight'
      BY <1>1, <1>3, Running DEF ExecuteReply, Executing, At, GoTo, Inv, TypeOK, InFlight, End
    <2> QED
      BY <2>1, <2>2 DEF Inv
  <1> QED
    BY <1>2, <1>3, Running DEF ExecuteReply, Executing, At, Statuses, Senses, Count

LEMMA ExecuteReadInv ==
    ASSUME Inv, ExecuteRead PROVE Inv'
  <1>1. pc \notin {"idle", "parked"} /\ UNCHANGED <<cur, inbox>>
    BY DEF ExecuteRead, Executing, At, ReplyFrame
  <1>2. CASE \E s \in Statuses, t \in Senses \cup {"keep"} : Respond(s, t)
    <2>1. PICK s \in Statuses, t \in Senses \cup {"keep"} : Respond(s, t)
      BY <1>2
    <2>2. TypeOK'
      BY <1>1, <2>1, RespondInv
      DEF ExecuteRead, Respond, Finish, ReplyFrame, Frame, Inv, TypeOK, cacheVars, hostVars
    <2> QED
      BY <1>1, <2>1, <2>2, RespondInv DEF Inv
  <1>3. CASE /\ GoTo("lookup") /\ UNCHANGED <<shared, slot, chunk, left>>
             /\ cmd.n > 0 /\ End <= CardBlocks
    <2>1. TypeOK'
      BY <1>1, <1>3 DEF ExecuteRead, GoTo, ReplyFrame, Frame, Inv, TypeOK, cacheVars, hostVars
    <2>2. InFlight'
      BY <1>1, <1>3, Running DEF ExecuteRead, Executing, At, GoTo, Inv, TypeOK, InFlight, End
    <2> QED
      BY <2>1, <2>2 DEF Inv
  <1> QED
    BY <1>2, <1>3, Running DEF ExecuteRead, Executing, At, Statuses, Senses, Count

LEMMA ExecuteStartStopInv ==
    ASSUME Inv, ExecuteStartStop PROVE Inv'
  <1>1. /\ pc \notin {"idle", "parked"} /\ UNCHANGED <<cur, inbox, cmd>>
        /\ pc' = "csw" /\ status' \in Statuses
        /\ slot' \in Slots /\ chunk' \in Seq(Data) /\ left' \in Nat
    BY DEF ExecuteStartStop, Executing, At, ReplyFrame, Finish, Statuses
  <1>2. shared' \in Shared
    BY SharedTypes DEF ExecuteStartStop, Inv, TypeOK
  <1>3. TypeOK'
    BY <1>1, <1>2 DEF ExecuteStartStop, ReplyFrame, Frame, Inv, TypeOK, cacheVars, hostVars
  <1>4. InFlight'
    BY <1>1 DEF Inv, InFlight, End
  <1> QED
    BY <1>3, <1>4 DEF Inv

(* Reads.                                                                  *)

LEMMA HitsHold ==
    ASSUME NEW i \in Hits(lines, cur)
    PROVE  i \in Slots /\ Holds(lines[i], cur)
  BY DEF Hits

LEMMA TouchType ==
    ASSUME NEW r \in SUBSET (LruLines \X LruLines), NEW i \in Slots
    PROVE  Touch(r, i) \in SUBSET (LruLines \X LruLines)
  BY DEF Touch

LEMMA VictimType ==
    ASSUME NEW i, Missed(i)
    PROVE  i \in Slots
  BY DEF Missed, Victims

LEMMA LookupHitInv ==
    ASSUME Inv, NEW i \in Slots, LookupHit(i) PROVE Inv'
  <1>1. Holds(lines[i], cur)
    BY HitsHold DEF LookupHit
  <1>2. older' \in SUBSET (LruLines \X LruLines)
    BY TouchType DEF LookupHit, Inv, TypeOK
  <1>3. TypeOK'
    BY <1>2 DEF LookupHit, GoTo, Frame, Inv, TypeOK, hostVars
  <1>4. InFlight'
    BY <1>1 DEF LookupHit, At, GoTo, Inv, InFlight, End, Holds
  <1> QED
    BY <1>3, <1>4 DEF Inv

LEMMA LookupMissInv ==
    ASSUME Inv, NEW i \in Slots, LookupMiss(i) PROVE Inv'
  <1>1. pc = "lookup" /\ cur \in Blocks
    BY Running DEF LookupMiss, Missed, At, Inv, InFlight
  <1>2. lines' \in [Slots -> Line] /\ Holds(lines'[i], cur)
    <2>1. lines' = Filled(lines, i, cur, card)
      BY DEF LookupMiss
    <2>2. lines \in [Slots -> Line] /\ card \in [Blocks -> Data]
      BY DEF Inv, TypeOK
    <2>3. /\ Filled(lines, i, cur, card) \in [Slots -> Line]
          /\ Filled(lines, i, cur, card)[i] = [x \in Span(cur) |-> card[x]]
      BY <1>1, <2>2, SpanIsExtent DEF Filled, Line
    <2> QED
      BY <1>1, <2>1, <2>3, SpanIsExtent DEF Holds
  <1>3. older' \in SUBSET (LruLines \X LruLines)
    BY TouchType DEF LookupMiss, Inv, TypeOK
  <1>4. TypeOK'
    BY <1>2, <1>3 DEF LookupMiss, GoTo, Frame, Inv, TypeOK, hostVars
  <1>5. InFlight'
    BY <1>1, <1>2 DEF LookupMiss, GoTo, Inv, InFlight, End
  <1> QED
    BY <1>4, <1>5 DEF Inv

LEMMA LookupFailsInv ==
    ASSUME Inv, NEW i \in Slots, LookupFails(i) PROVE Inv'
  <1>1. pc \notin {"idle", "parked"} /\ UNCHANGED cur
    BY DEF LookupFails, Missed, At
  <1>2. Respond("failed", "medium_error") /\ "failed" \in Statuses
          /\ "medium_error" \in Senses \cup {"keep"}
    BY DEF LookupFails, Statuses, Senses
  <1>3. lines' \in [Slots -> Line]
    BY InvalidatedType DEF LookupFails, Inv, TypeOK
  <1>4. TypeOK'
    BY <1>1, <1>2, <1>3, RespondInv
    DEF LookupFails, Respond, Finish, Frame, Inv, TypeOK, hostVars
  <1> QED
    BY <1>1, <1>2, <1>4, RespondInv DEF Inv

LEMMA SendBlockInv ==
    ASSUME Inv, SendBlock PROVE Inv'
  <1>1. pc = "send" /\ Holds(lines[slot], cur) /\ cur < End
    BY DEF SendBlock, At, Inv, InFlight
  <1>2. lines[slot][cur] \in Data
    BY <1>1, LineIsFunction DEF Inv, TypeOK, Holds
  <1>3. inbox' \in InMsg /\ cur' \in Nat
    BY <1>1, <1>2, MessageTypes DEF SendBlock, Inv, TypeOK
  <1>4. TypeOK'
    <2>1. CASE cur + 1 = End
      BY <1>3, <2>1 DEF SendBlock, Finish, Frame, Inv, TypeOK, cacheVars, hostVars, Statuses
    <2>2. CASE cur + 1 # End
      <3>1. pc' \in {"send", "lookup"} /\ UNCHANGED <<cmd, status, slot, chunk, left>>
        BY <2>2 DEF SendBlock, GoTo
      <3> QED
        BY <1>3, <3>1 DEF SendBlock, Frame, Inv, TypeOK, cacheVars, hostVars
    <2> QED
      BY <2>1, <2>2
  <1>5. InFlight'
    BY <1>1, Running DEF SendBlock, Finish, GoTo, Inv, InFlight, End, Holds, cacheVars
  <1> QED
    BY <1>4, <1>5 DEF Inv

-----------------------------------------------------------------------------
(* Writes.                                                                 *)

LEMMA StartChunkType ==
    ASSUME Inv, NEW ls \in [Slots -> Line], StartChunk(ls)
    PROVE  /\ lines' \in [Slots -> Line] /\ DOMAIN lines'[StreamLine] = {}
           /\ \A i \in LruLines : lines'[i] = ls[i]
           /\ pc' = "receive" /\ chunk' = <<>> /\ chunk' \in Seq(Data)
           /\ UNCHANGED <<cmd, status, slot, left>>
  <1>1. lines' = Invalidated(ls, StreamLine) /\ StreamLine \in Slots
    BY DEF StartChunk
  <1> QED
    BY <1>1, InvalidatedType DEF StartChunk, GoTo

LEMMA ExecuteWriteInv ==
    ASSUME Inv, ExecuteWrite PROVE Inv'
  <1>1. /\ pc \notin {"idle", "parked"} /\ pc = "execute" /\ cur = cmd.lba
        /\ UNCHANGED <<cur, inbox, outbox, card, older, outdated, torn>> /\ Frame
    BY DEF ExecuteWrite, Executing, At, Inv, InFlight
  <1>2. CASE (\E s \in Statuses, t \in Senses \cup {"keep"} : Respond(s, t)) /\ UNCHANGED lines
    <2>1. PICK s \in Statuses, t \in Senses \cup {"keep"} : Respond(s, t)
      BY <1>2
    <2>2. TypeOK'
      BY <1>1, <1>2, <2>1, RespondInv DEF Respond, Finish, Frame, Inv, TypeOK, hostVars
    <2> QED
      BY <1>1, <2>1, <2>2, RespondInv DEF Inv
  <1>3. CASE /\ cmd.n # 0 /\ GoTo("discard") /\ left' = cmd.n
             /\ SetSense("illegal_request") /\ UNCHANGED <<lines, slot, chunk>>
    <2>1. shared' \in Shared
      BY <1>3, SharedTypes DEF SetSense, Senses, Inv, TypeOK
    <2>2. TypeOK'
      BY <1>1, <1>3, <2>1, Running DEF GoTo, Frame, Inv, TypeOK, hostVars
    <2>3. InFlight'
      BY <1>1, <1>3, Running DEF GoTo, Inv, InFlight, End
    <2> QED
      BY <2>2, <2>3 DEF Inv
  <1>4. CASE /\ cmd.n # 0 /\ End <= Count /\ StartChunk(lines) /\ UNCHANGED shared
    <2>1. TypeOK'
      BY <1>1, <1>4, StartChunkType DEF Frame, Inv, TypeOK, hostVars
    <2>2. cur < End /\ End <= CardBlocks
      BY <1>1, <1>4, Running DEF End, Count
    <2>3. /\ pc' = "receive" /\ Len(chunk') = 0 /\ DOMAIN lines'[StreamLine] = {}
          /\ UNCHANGED <<cmd, cur>>
      BY <1>1, <1>4, StartChunkType DEF Inv, TypeOK
    <2>4. InFlight'
      BY <1>1, <2>2, <2>3, Running DEF Inv, InFlight, End, ChunkLen
    <2> QED
      BY <2>1, <2>4 DEF Inv
  <1> QED
    BY <1>1, <1>2, <1>3, <1>4, Running DEF ExecuteWrite, Statuses, Senses, Count

LEMMA ReceiveBlockInv ==
    ASSUME Inv, ReceiveBlock PROVE Inv'
  <1>1. pc = "receive" /\ outbox.data \in Data
    BY MessageTypes DEF ReceiveBlock, At, Inv, TypeOK
  <1>2. /\ chunk' \in Seq(Data) /\ Len(chunk') = Len(chunk) + 1
        /\ Len(chunk) \in Nat
    BY <1>1 DEF ReceiveBlock, Inv, TypeOK
  <1>3. TypeOK'
    BY <1>2, MessageTypes DEF ReceiveBlock, GoTo, Frame, Inv, TypeOK, cacheVars, hostVars
  <1>4. ChunkLen \in Nat
    BY <1>1, Running DEF ChunkLen, Inv, InFlight
  <1>5. InFlight'
    BY <1>1, <1>2, <1>4 DEF ReceiveBlock, GoTo, Inv, InFlight, End, ChunkLen, cacheVars
  <1> QED
    BY <1>3, <1>5 DEF Inv

LEMMA OutFailsInv ==
    ASSUME Inv, OutFails PROVE Inv'
  <1>1. pc \notin {"idle", "parked"} /\ UNCHANGED cur
    BY DEF OutFails, At
  <1>2. Respond("phase_error", "keep") /\ "phase_error" \in Statuses
    BY DEF OutFails, Statuses
  <1>3. TypeOK'
    BY <1>1, <1>2, RespondInv, MessageTypes
    DEF OutFails, Respond, Finish, Frame, Inv, TypeOK, cacheVars, hostVars
  <1> QED
    BY <1>1, <1>2, <1>3, RespondInv DEF Inv

(* The k first blocks of a chunk, as they are written to the card.         *)
LEMMA WrittenType ==
    ASSUME Inv, pc = "commit", NEW k \in Nat, k <= ChunkLen
    PROVE  /\ ChunkLen \in Nat /\ ChunkLen > 0 /\ cur + ChunkLen <= End
           /\ DOMAIN Written(k) = cur .. cur + k - 1
           /\ DOMAIN Written(k) \subseteq Blocks
           /\ Written(k) \in [DOMAIN Written(k) -> Data]
           /\ Stored(Written(k)) \in [Blocks -> Data]
           /\ \A b \in Blocks : Stored(Written(k))[b] =
                 IF b \in DOMAIN Written(k) THEN Written(k)[b] ELSE card[b]
  <1>1. /\ cur \in Nat /\ End \in Nat /\ cur < End /\ End <= CardBlocks
        /\ chunk \in Seq(Data) /\ Len(chunk) = ChunkLen
    BY Running DEF Inv, TypeOK, InFlight
  <1>2. ChunkLen \in Nat /\ ChunkLen > 0 /\ cur + ChunkLen <= End
    BY <1>1 DEF ChunkLen
  <1>3. \A b \in cur .. cur + k - 1 : b \in Blocks /\ chunk[b - cur + 1] \in Data
    <2> SUFFICES ASSUME NEW b \in cur .. cur + k - 1
                 PROVE  b \in Blocks /\ chunk[b - cur + 1] \in Data
      OBVIOUS
    <2>1. b \in Blocks /\ b - cur + 1 \in 1 .. Len(chunk)
      BY <1>1, <1>2
    <2> QED
      BY <1>1, <2>1
  <1>4. /\ DOMAIN Written(k) = cur .. cur + k - 1
        /\ Written(k) \in [cur .. cur + k - 1 -> Data]
    BY <1>3 DEF Written
  <1>5. Stored(Written(k)) \in [Blocks -> Data]
    BY <1>4 DEF Stored, Inv, TypeOK
  <1> QED
    BY <1>2, <1>3, <1>4, <1>5 DEF Stored

LEMMA CommitInv ==
    ASSUME Inv, Commit PROVE Inv'
  <1> DEFINE W == Written(ChunkLen)
             U == UpdatedFromStream(lines, W)
  <1>1. pc = "commit" /\ pc \notin {"idle", "parked"}
    BY DEF Commit, At
  <1>2. ChunkLen \in Nat /\ ChunkLen <= ChunkLen
    BY <1>1, Running DEF ChunkLen
  <1>3. U \in [Slots -> Line] /\ DOMAIN U[StreamLine] = {}
    <2>1. W \in [DOMAIN W -> Data]
      BY <1>1, <1>2, WrittenType
    <2>2. lines \in [Slots -> Line] /\ DOMAIN lines[StreamLine] = {}
      BY <1>1 DEF Inv, TypeOK, InFlight
    <2> QED
      BY <2>1, <2>2, UpdatedType
  <1>4. /\ card' \in [Blocks -> Data] /\ torn' \subseteq Blocks
        /\ cur' = cur + ChunkLen /\ cur' \in Nat /\ cur < cur' /\ cur' <= End
    <2>1. card' = Stored(W) /\ torn' \subseteq torn /\ cur' = cur + ChunkLen
      BY DEF Commit
    <2>2. /\ Stored(W) \in [Blocks -> Data] /\ ChunkLen > 0 /\ cur + ChunkLen <= End
          /\ cur \in Nat
      BY <1>1, <1>2, WrittenType, Running
    <2> QED
      BY <1>2, <2>1, <2>2 DEF Inv, TypeOK
  <1>5. CASE cur + ChunkLen = End
    <2>1. Finish("passed") /\ lines' = U
      BY <1>5 DEF Commit
    <2>2. TypeOK'
      BY <1>3, <1>4, <2>1 DEF Commit, Finish, Frame, Inv, TypeOK, hostVars, Statuses
    <2>3. InFlight'
      BY <1>1, <1>4, <2>1, Running DEF Finish, Inv, InFlight, End
    <2> QED
      BY <2>2, <2>3 DEF Inv
  <1>6. CASE cur + ChunkLen # End
    <2>1. StartChunk(U)
      BY <1>6 DEF Commit
    <2>2. /\ lines' \in [Slots -> Line] /\ DOMAIN lines'[StreamLine] = {}
          /\ pc' = "receive" /\ chunk' = <<>> /\ chunk' \in Seq(Data)
          /\ UNCHANGED <<cmd, status, slot, left>>
      BY <1>3, <2>1, StartChunkType
    <2>3. TypeOK'
      BY <1>4, <2>2 DEF Commit, Frame, Inv, TypeOK, hostVars
    <2>4. /\ End \in Nat /\ End <= CardBlocks /\ cmd.lba <= cur /\ cur \in Nat
          /\ cmd # Nothing /\ cmd.lba \in Nat /\ cmd.n \in Nat
      BY <1>1, Running DEF Inv, InFlight
    <2>5. cur' < End /\ Len(chunk') = 0 /\ End' = End
      BY <1>4, <1>6, <2>2, <2>4 DEF End
    <2>6. Len(chunk') < ChunkLen'
      BY <1>4, <2>4, <2>5 DEF ChunkLen
    <2>7. InFlight'
      BY <1>4, <2>2, <2>4, <2>5, <2>6 DEF InFlight
    <2> QED
      BY <2>3, <2>7 DEF Inv
  <1> QED
    BY <1>5, <1>6

LEMMA CommitFailsInv ==
    ASSUME Inv, NEW k \in 0 .. LineBlocks, CommitFails(k) PROVE Inv'
  <1>1. pc = "commit" /\ pc \notin {"idle", "parked"} /\ k \in Nat /\ k <= ChunkLen
        /\ UNCHANGED <<cur, cacheVars>>
    BY DEF CommitFails, At
  <1>2. card' \in [Blocks -> Data] /\ torn' \subseteq Blocks
    BY <1>1, WrittenType DEF CommitFails, Inv, TypeOK
  <1>3. Rest \in Nat /\ Residue \in Nat
    BY <1>1, WrittenType, Running DEF Rest, Residue
  <1>4. CASE Rest = 0
    <2>1. Respond("failed", "medium_error") /\ "failed" \in Statuses
            /\ "medium_error" \in Senses \cup {"keep"}
      BY <1>4 DEF CommitFails, Statuses, Senses
    <2>2. TypeOK'
      BY <1>1, <1>2, <2>1, RespondInv
      DEF CommitFails, Respond, Finish, Frame, Inv, TypeOK, cacheVars, hostVars
    <2> QED
      BY <1>1, <2>1, <2>2, RespondInv DEF Inv
  <1>5. CASE Rest # 0
    <2>1. /\ SetSense("medium_error") /\ GoTo("discard") /\ left' = Rest
          /\ chunk' = <<>> /\ UNCHANGED slot
      BY <1>5 DEF CommitFails
    <2>2. shared' \in Shared
      BY <2>1, SharedTypes DEF SetSense, Senses, Inv, TypeOK
    <2>3. TypeOK'
      BY <1>1, <1>2, <1>3, <2>1, <2>2
      DEF CommitFails, GoTo, Frame, Inv, TypeOK, cacheVars, hostVars
    <2>4. InFlight'
      BY <1>1, <1>3, <1>5, <2>1 DEF GoTo, Inv, InFlight, End
    <2> QED
      BY <2>3, <2>4 DEF Inv
  <1> QED
    BY <1>4, <1>5

LEMMA DiscardBlockInv ==
    ASSUME Inv, DiscardBlock PROVE Inv'
  <1>1. pc = "discard" /\ left > 0
    BY DEF DiscardBlock, At, Inv, InFlight
  <1>2. TypeOK'
    <2>1. CASE left = 1
      BY <2>1, MessageTypes
      DEF DiscardBlock, Finish, Frame, Inv, TypeOK, cacheVars, hostVars, Statuses
    <2>2. CASE left # 1
      <3>1. /\ pc' = "discard" /\ left' = left - 1
            /\ UNCHANGED <<cmd, status, slot, chunk>>
        BY <2>2 DEF DiscardBlock, GoTo
      <3> QED
        BY <1>1, <3>1, MessageTypes DEF DiscardBlock, Frame, Inv, TypeOK, cacheVars, hostVars
    <2> QED
      BY <2>1, <2>2
  <1>3. InFlight'
    BY <1>1 DEF DiscardBlock, GoTo, Finish, Inv, TypeOK, InFlight, End
  <1> QED
    BY <1>2, <1>3 DEF Inv

-----------------------------------------------------------------------------
(* The invariant of the whole specification                                *)

LEMMA StutterInv ==
    ASSUME Inv, UNCHANGED vars PROVE Inv'
  <1>1. TypeOK'
    BY DEF Inv, TypeOK, vars, cacheVars, locals, classVars, usbVars, hostVars
  <1>2. InFlight'
    BY InFlightFrame DEF Inv, vars, cacheVars, locals, classVars
  <1> QED
    BY <1>1, <1>2 DEF Inv

LEMMA NextInv == Inv /\ [Next]_vars => Inv'
  <1> SUFFICES ASSUME Inv, [Next]_vars PROVE Inv'
    OBVIOUS
  <1>1. CASE Firmware
    BY <1>1, FirmwareWriteInv, AttachInv, DetachInv DEF Firmware
  <1>2. CASE Host
    BY <1>2, HostCommandInv, HostSendInv, HostTakeInv, HostConfusedInv, HostResetInv,
       HostConfigureInv DEF Host
  <1>3. CASE DeviceTask
    BY <1>3, PollQuietInv, PollResetInv, PollConfigureInv, PollClassResetInv DEF DeviceTask
  <1>4. CASE ClassTask
    <2>1. CASE ReadSteps
      BY <2>1, ExecuteReadInv, LookupHitInv, LookupMissInv, LookupFailsInv, SendBlockInv,
         SendFailsInv DEF ReadSteps
    <2>2. CASE WriteSteps
      BY <2>2, ExecuteWriteInv, ReceiveBlockInv, OutFailsInv, CommitInv, CommitFailsInv,
         DiscardBlockInv DEF WriteSteps
    <2> QED
      BY <1>4, <2>1, <2>2, ReadCbwInv, IgnoreOutInv, ParkInv, UnparkInv, SendCswInv,
         ExecuteRejectedInv, ExecuteNoDataInv, ExecuteTestUnitReadyInv,
         ExecuteStartStopInv, ExecuteReplyInv, SendReplyInv, YieldInv DEF ClassTask
  <1> QED
    BY <1>1, <1>2, <1>3, <1>4, StutterInv DEF Next

(* The inductive invariant: every step of the class, the device task, the *)
(* host and the firmware keeps both the types and what a suspended command *)
(* relies on.                                                              *)
THEOREM InvHolds == Spec => []Inv
  <1> QED
    BY InitInv, NextInv, PTL DEF Spec

(* Every variable keeps to its type: a command never addresses a block the *)
(* card does not have and a status never has a negative residue, which in  *)
(* the code would wrap round.                                              *)
THEOREM TypeCorrect == Spec => []TypeOK
  <1>1. Inv => TypeOK
    BY DEF Inv
  <1> QED
    BY <1>1, InvHolds, PTL

(* Whatever the host and the main loop do while MscClass::run is suspended,*)
(* what it finds when it goes on is what its locals say: read_10 indexes a *)
(* line that holds the block, write_10 a buffer with room for it.          *)
THEOREM InFlightHolds == Spec => []InFlight
  <1>1. Inv => InFlight
    BY DEF Inv
  <1> QED
    BY <1>1, InvHolds, PTL

-----------------------------------------------------------------------------
(* The coherence of the cache                                              *)

(* A step that leaves card, lines, generations and attachment alone.       *)
LEMMA CoherentFrame ==
    ASSUME CacheCoherent, shared'.attached = shared.attached,
           UNCHANGED <<card, lines, outdated, torn>>
    PROVE  CacheCoherent'
  BY DEF CacheCoherent

LEMMA FirmwareCoherent ==
    ASSUME Inv, CacheCoherent, Firmware PROVE CacheCoherent'
  <1>1. CASE \E b \in Blocks, d \in Data : FirmwareWrite(b, d)
    BY <1>1 DEF FirmwareWrite, CacheCoherent
  <1>2. CASE \E media \in BOOLEAN : Attach(media)
    BY <1>2 DEF Attach, CacheCoherent
  <1>3. CASE Detach
    <2>1. shared'.attached = FALSE
      BY <1>3 DEF Detach, Inv, TypeOK, Shared
    <2> QED
      BY <2>1 DEF CacheCoherent
  <1> QED
    BY <1>1, <1>2, <1>3 DEF Firmware

LEMMA HostCoherent ==
    ASSUME CacheCoherent, Host PROVE CacheCoherent'
  <1>1. UNCHANGED <<card, shared, lines, outdated, torn>>
    BY DEF Host, HostCommand, HostSend, HostTake, HostConfused, HostReset, HostConfigure,
           cacheVars
  <1> QED
    BY <1>1, CoherentFrame

LEMMA DeviceTaskCoherent ==
    ASSUME Inv, CacheCoherent, DeviceTask PROVE CacheCoherent'
  <1>1. UNCHANGED <<card, lines, outdated, torn>>
    BY DEF DeviceTask, PollQuiet, PollReset, PollConfigure, PollClassReset, cacheVars
  <1>2. shared'.attached = shared.attached
    BY DEF DeviceTask, PollQuiet, PollReset, PollConfigure, PollClassReset, SetSense,
           Inv, TypeOK, Shared
  <1> QED
    BY <1>1, <1>2, CoherentFrame

(* No step of the class attaches or detaches the card.                     *)
LEMMA SameAttached ==
    ASSUME Inv, ClassTask PROVE shared'.attached = shared.attached
  <1>0. shared \in Shared
    BY DEF Inv, TypeOK
  <1>1. ASSUME NEW s, NEW t, Respond(s, t) PROVE shared'.attached = shared.attached
    BY <1>0, <1>1 DEF Respond, SetSense, Shared
  <1>2. CASE ReadCbw \/ IgnoreOut \/ Park \/ Unpark \/ SendCsw \/ Yield
    BY <1>2 DEF ReadCbw, IgnoreOut, Park, Unpark, SendCsw, Yield
  <1>3. CASE ExecuteRejected \/ ExecuteNoData \/ ExecuteTestUnitReady \/ SendReply
    BY <1>1, <1>3 DEF ExecuteRejected, ExecuteNoData, ExecuteTestUnitReady, SendReply
  <1>4. CASE ExecuteStartStop
    BY <1>0, <1>4 DEF ExecuteStartStop, Shared
  <1>5. CASE ExecuteReply \/ ExecuteRead \/ SendFails
    BY <1>1, <1>5 DEF ExecuteReply, ExecuteRead, SendFails
  <1>6. CASE \E i \in Slots : LookupHit(i) \/ LookupMiss(i) \/ LookupFails(i)
    BY <1>1, <1>6 DEF LookupHit, LookupMiss, LookupFails
  <1>7. CASE SendBlock \/ ReceiveBlock \/ Commit \/ DiscardBlock
    BY <1>7 DEF SendBlock, ReceiveBlock, Commit, DiscardBlock
  <1>8. CASE ExecuteWrite
    BY <1>0, <1>1, <1>8 DEF ExecuteWrite, SetSense, Shared
  <1>9. CASE OutFails \/ \E k \in 0 .. LineBlocks : CommitFails(k)
    BY <1>0, <1>1, <1>9 DEF OutFails, CommitFails, SetSense, Shared
  <1> QED
    BY <1>2, <1>3, <1>4, <1>5, <1>6, <1>7, <1>8, <1>9 DEF ClassTask, ReadSteps, WriteSteps

LEMMA ReadCbwCoherent ==
    ASSUME Inv, CacheCoherent, ReadCbw PROVE CacheCoherent'
  <1>1. CASE outdated /\ outbox.op # "other_lun"
    <2>1. \A i \in Slots : DOMAIN lines'[i] = {}
      BY <1>1, EmptyIsLine DEF ReadCbw, EmptyCache
    <2> QED
      BY <2>1 DEF CacheCoherent
  <1>2. CASE ~(outdated /\ outbox.op # "other_lun")
    BY <1>2, CoherentFrame DEF ReadCbw
  <1> QED
    BY <1>1, <1>2

(* A line is filled with what the card holds, and one that could not be is *)
(* invalid.                                                                *)
LEMMA LookupCoherent ==
    ASSUME Inv, CacheCoherent, NEW i \in Slots, LookupMiss(i) \/ LookupFails(i)
    PROVE  CacheCoherent'
  <1>0. UNCHANGED <<card, outdated, torn>> /\ lines \in [Slots -> Line]
        /\ shared'.attached = shared.attached
    BY SameAttached DEF LookupMiss, LookupFails, ClassTask, ReadSteps, Inv, TypeOK
  <1>1. CASE LookupMiss(i)
    <2>1. lines' = [lines EXCEPT ![i] = [x \in Span(cur) |-> card[x]]]
      BY <1>1 DEF LookupMiss, Filled
    <2> QED
      BY <1>0, <2>1 DEF CacheCoherent
  <1>2. CASE LookupFails(i)
    <2>1. lines' = Invalidated(lines, i)
      BY <1>2 DEF LookupFails
    <2>2. DOMAIN lines'[i] = {} /\ \A j \in Slots \ {i} : lines'[j] = lines[j]
      BY <1>0, <2>1, InvalidatedType
    <2> QED
      BY <1>0, <2>2 DEF CacheCoherent
  <1> QED
    BY <1>1, <1>2

LEMMA ExecuteWriteCoherent ==
    ASSUME Inv, CacheCoherent, ExecuteWrite PROVE CacheCoherent'
  <1>1. /\ UNCHANGED <<card, outdated, torn>> /\ lines \in [Slots -> Line]
        /\ shared'.attached = shared.attached
    BY SameAttached DEF ExecuteWrite, ClassTask, WriteSteps, Inv, TypeOK
  <1>2. CASE UNCHANGED lines
    BY <1>1, <1>2, CoherentFrame
  <1>3. CASE StartChunk(lines)
    <2>1. DOMAIN lines'[StreamLine] = {} /\ \A i \in LruLines : lines'[i] = lines[i]
      BY <1>1, <1>3, StartChunkType
    <2> QED
      BY <1>1, <2>1 DEF CacheCoherent
  <1> QED
    BY <1>2, <1>3 DEF ExecuteWrite

(* The blocks a write has put on the card are put in every line that holds *)
(* them, and no other block of the card has changed.                       *)
LEMMA CommitCoherent ==
    ASSUME Inv, CacheCoherent, Commit PROVE CacheCoherent'
  <1> DEFINE W == Written(ChunkLen)
             U == UpdatedFromStream(lines, W)
  <1>1. pc = "commit" /\ ChunkLen \in Nat /\ ChunkLen <= ChunkLen
    BY Running DEF Commit, At, ChunkLen
  <1>2. /\ W \in [DOMAIN W -> Data] /\ DOMAIN W \subseteq Blocks
        /\ \A b \in Blocks : Stored(W)[b] = IF b \in DOMAIN W THEN W[b] ELSE card[b]
    BY <1>1, WrittenType
  <1>3. lines \in [Slots -> Line] /\ DOMAIN lines[StreamLine] = {}
    BY <1>1 DEF Inv, TypeOK, InFlight
  <1>4. /\ U \in [Slots -> Line] /\ DOMAIN U[StreamLine] = {}
        /\ \A i \in Slots : DOMAIN U[i] = DOMAIN lines[i]
        /\ \A i \in LruLines : \A b \in DOMAIN lines[i] :
              U[i][b] = IF b \in DOMAIN W THEN W[b] ELSE lines[i][b]
    <2> HIDE DEF W
    <2> QED
      BY <1>2, <1>3, UpdatedType
  <1>5. /\ DOMAIN lines'[StreamLine] = {}
        /\ \A i \in LruLines : lines'[i] = U[i]
    <2>1. CASE lines' = U
      BY <1>4, <2>1
    <2>2. CASE StartChunk(U)
      BY <1>4, <2>2, StartChunkType
    <2> QED
      BY <2>1, <2>2 DEF Commit
  <1>6. card' = Stored(W) /\ torn' = torn \ DOMAIN W /\ UNCHANGED <<shared, outdated>>
    BY DEF Commit
  <1>7. \A i \in LruLines : DOMAIN lines[i] \subseteq Blocks
    BY <1>3, LineIsFunction
  <1> SUFFICES ASSUME shared.attached, ~outdated, NEW i \in LruLines,
                      NEW b \in DOMAIN lines[i]
               PROVE  b \in torn' \/ lines'[i][b] = card'[b]
    BY <1>4, <1>5, <1>6 DEF CacheCoherent
  <1>8. CASE b \in DOMAIN W
    BY <1>2, <1>4, <1>5, <1>6, <1>7, <1>8
  <1>9. CASE b \notin DOMAIN W
    <2>1. b \in torn \/ lines[i][b] = card[b]
      BY DEF CacheCoherent
    <2> QED
      BY <1>2, <1>4, <1>5, <1>6, <1>7, <1>9, <2>1
  <1> QED
    BY <1>8, <1>9

(* A failed write tears at most the blocks it has tried to write.          *)
LEMMA CommitFailsCoherent ==
    ASSUME Inv, CacheCoherent, NEW k \in 0 .. LineBlocks, CommitFails(k)
    PROVE  CacheCoherent'
  <1> DEFINE W == Written(k)
  <1>1. pc = "commit" /\ k \in Nat /\ k <= ChunkLen
    BY DEF CommitFails, At
  <1>2. /\ \A b \in Blocks : Stored(W)[b] = IF b \in DOMAIN W THEN W[b] ELSE card[b]
    BY <1>1, WrittenType
  <1>3. /\ card' = Stored(W) /\ torn' = torn \cup DOMAIN W /\ UNCHANGED <<lines, outdated>>
    BY DEF CommitFails, cacheVars
  <1>4. shared'.attached = shared.attached
    BY SameAttached DEF ClassTask, WriteSteps
  <1>5. \A i \in Slots : DOMAIN lines[i] \subseteq Blocks
    BY LineIsFunction DEF Inv, TypeOK
  <1> QED
    BY <1>2, <1>3, <1>4, <1>5 DEF CacheCoherent

LEMMA ClassTaskCoherent ==
    ASSUME Inv, CacheCoherent, ClassTask PROVE CacheCoherent'
  <1>0. shared'.attached = shared.attached
    BY SameAttached
  <1>1. CASE IgnoreOut \/ Park \/ Unpark \/ SendCsw \/ Yield
    BY <1>0, <1>1, CoherentFrame DEF IgnoreOut, Park, Unpark, SendCsw, Yield, cacheVars
  <1>2. CASE ExecuteRejected \/ ExecuteNoData \/ ExecuteTestUnitReady
             \/ ExecuteStartStop \/ ExecuteReply \/ SendReply
    BY <1>0, <1>2, CoherentFrame
    DEF ExecuteRejected, ExecuteNoData, ExecuteTestUnitReady, ExecuteStartStop,
        ExecuteReply, SendReply, ReplyFrame, cacheVars
  <1>3. CASE ReadSteps
    <2>1. CASE ExecuteRead \/ SendBlock \/ SendFails
      BY <1>0, <2>1, CoherentFrame DEF ExecuteRead, SendBlock, SendFails, ReplyFrame, cacheVars
    <2>2. CASE \E i \in Slots : LookupHit(i)
      BY <1>0, <2>2, CoherentFrame DEF LookupHit
    <2> QED
      BY <1>3, <2>1, <2>2, LookupCoherent DEF ReadSteps
  <1>4. CASE WriteSteps
    <2>1. CASE ReceiveBlock \/ OutFails \/ DiscardBlock
      BY <1>0, <2>1, CoherentFrame DEF ReceiveBlock, OutFails, DiscardBlock, cacheVars
    <2> QED
      BY <1>4, <2>1, ExecuteWriteCoherent, CommitCoherent, CommitFailsCoherent
      DEF WriteSteps
  <1> QED
    BY <1>1, <1>2, <1>3, <1>4, ReadCbwCoherent DEF ClassTask

(* A line the class may serve from holds what the card holds, but for the  *)
(* blocks of a write the card has reported as failed: the write-through of *)
(* write_10 and the generation of SharedState::attach together.            *)
THEOREM CacheIsCoherent == Spec => []CacheCoherent
  <1>1. Init => CacheCoherent
    BY DEF Init, CacheCoherent
  <1>2. Inv /\ CacheCoherent /\ [Next]_vars => CacheCoherent'
    <2> SUFFICES ASSUME Inv, CacheCoherent, [Next]_vars PROVE CacheCoherent'
      OBVIOUS
    <2>1. CASE UNCHANGED vars
      BY <2>1, CoherentFrame DEF vars, cacheVars
    <2> QED
      BY <2>1, FirmwareCoherent, HostCoherent, DeviceTaskCoherent, ClassTaskCoherent DEF Next
  <1> QED
    BY <1>1, <1>2, InvHolds, PTL DEF Spec

-----------------------------------------------------------------------------
(* One copy of a block                                                     *)

(* `find` returns nothing only when no line holds the block: a line that   *)
(* does has a first one like it.                                           *)
LEMMA NoHit ==
    ASSUME NEW ls, NEW b, Hits(ls, b) = {}
    PROVE  \A i \in Slots : ~Holds(ls[i], b)
  <1> DEFINE T == {i \in Slots : Holds(ls[i], b)}
             R == OpToRel(<, Nat)
  <1> SUFFICES ASSUME T # {} PROVE FALSE
    OBVIOUS
  <1>1. T \subseteq Nat /\ IsWellFoundedOn(R, Nat)
    <2>1. T \subseteq Nat
      OBVIOUS
    <2>2. IsWellFoundedOn(OpToRel(<, Nat), Nat)
      BY ONLY NatLessThanWellFounded
    <2> QED
      BY <2>1, <2>2
  <1>2. \E x \in T : \A y \in T : ~(<<y, x>> \in R)
    <2> HIDE DEF T, R
    <2> QED
      BY <1>1, WFMin
  <1>3. PICK x \in T : \A y \in T : ~(y < x)
    BY <1>1, <1>2 DEF OpToRel
  <1> QED
    BY <1>1, <1>3 DEF Hits

(* The lines are aligned, so two that share a block cover the same blocks. *)
LEMMA Aligned ==
    ASSUME NEW line \in Line, NEW b \in Blocks, ~Holds(line, b)
    PROVE  DOMAIN line \cap Span(b) = {}
  <1>1. DOMAIN line \in Extent
    BY LineIsFunction
  <1>2. CASE DOMAIN line = {}
    BY <1>2
  <1>3. CASE \E a \in Blocks : DOMAIN line = Span(a)
    BY <1>3 DEF Span, Holds
  <1> QED
    BY <1>1, <1>2, <1>3 DEF Extent

(* A line changes its blocks only to lose all of them.                     *)
LEMMA OneCopyShrinks ==
    ASSUME OneCopy,
           \A i \in Slots : DOMAIN lines'[i] = DOMAIN lines[i] \/ DOMAIN lines'[i] = {}
    PROVE  OneCopy'
  BY DEF OneCopy

LEMMA LookupMissOneCopy ==
    ASSUME Inv, OneCopy, NEW i \in Slots, LookupMiss(i) PROVE OneCopy'
  <1>1. cur \in Blocks /\ \A j \in Slots : ~Holds(lines[j], cur)
    BY NoHit, Running DEF LookupMiss, Missed, At, Inv, InFlight
  <1>2. lines \in [Slots -> Line]
    BY DEF Inv, TypeOK
  <1>3. \A j \in Slots : DOMAIN lines[j] \cap Span(cur) = {}
    BY <1>1, <1>2, Aligned
  <1>4. lines' = [lines EXCEPT ![i] = [x \in Span(cur) |-> card[x]]]
    BY DEF LookupMiss, Filled
  <1> QED
    BY <1>2, <1>3, <1>4 DEF OneCopy

(* No block is ever in two lines, so the update a write makes reaches the  *)
(* only copy a later read could be served from.                            *)
THEOREM NoBlockTwice == Spec => []OneCopy
  <1>1. Init => OneCopy
    BY EmptyIsLine DEF Init, OneCopy, EmptyCache
  <1>2. Inv /\ OneCopy /\ [Next]_vars => OneCopy'
    <2> SUFFICES ASSUME Inv, OneCopy, [Next]_vars PROVE OneCopy'
      OBVIOUS
    <2>1. lines \in [Slots -> Line]
      BY DEF Inv, TypeOK
    <2>2. CASE UNCHANGED lines
      BY <2>2 DEF OneCopy
    <2>3. CASE \E i \in Slots : LookupMiss(i)
      BY <2>3, LookupMissOneCopy
    <2>4. CASE \E i \in Slots : LookupFails(i)
      <3>1. PICK i \in Slots : lines' = Invalidated(lines, i)
        BY <2>4 DEF LookupFails
      <3> QED
        BY <2>1, <3>1, InvalidatedType, OneCopyShrinks
    <2>5. CASE ReadCbw
      BY <2>5, EmptyIsLine, OneCopyShrinks DEF ReadCbw, EmptyCache
    <2>6. CASE ExecuteWrite
      <3>1. UNCHANGED lines \/ StartChunk(lines)
        BY <2>6 DEF ExecuteWrite
      <3> QED
        BY <2>1, <2>2, <3>1, StartChunkType, OneCopyShrinks
    <2>7. CASE Commit
      <3> DEFINE W == Written(ChunkLen)
                 U == UpdatedFromStream(lines, W)
      <3>1. pc = "commit" /\ ChunkLen \in Nat /\ ChunkLen <= ChunkLen
        BY <2>7, Running DEF Commit, At, ChunkLen
      <3>2. W \in [DOMAIN W -> Data]
        BY <3>1, WrittenType
      <3>3. U \in [Slots -> Line] /\ \A i \in Slots : DOMAIN U[i] = DOMAIN lines[i]
        <4> HIDE DEF W
        <4> QED
          BY <2>1, <3>2, UpdatedType
      <3>4. lines' = U \/ StartChunk(U)
        BY <2>7 DEF Commit
      <3> QED
        BY <3>3, <3>4, StartChunkType, OneCopyShrinks
    <2>8. CASE UNCHANGED vars \/ Firmware \/ Host \/ DeviceTask
      BY <2>2, <2>8
      DEF vars, cacheVars, Firmware, FirmwareWrite, Attach, Detach, Host, HostCommand,
          HostSend, HostTake, HostConfused, HostReset, HostConfigure, DeviceTask,
          PollQuiet, PollReset, PollConfigure, PollClassReset
    <2>9. CASE ClassTask
      BY <2>2, <2>3, <2>4, <2>5, <2>6, <2>7, <2>9
      DEF ClassTask, ReadSteps, WriteSteps, IgnoreOut, Park, Unpark, SendCsw,
          ExecuteRejected, ExecuteNoData, ExecuteTestUnitReady, ExecuteStartStop,
          ExecuteReply, SendReply, ExecuteRead, LookupHit, SendBlock, SendFails,
          ReceiveBlock, OutFails, CommitFails, DiscardBlock, Yield, ReplyFrame, cacheVars
    <2> QED
      BY <2>8, <2>9 DEF Next
  <1> QED
    BY <1>1, <1>2, InvHolds, PTL DEF Spec
=============================================================================
