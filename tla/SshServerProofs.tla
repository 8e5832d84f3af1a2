-------------------------- MODULE SshServerProofs --------------------------
(***************************************************************************)
(* Proofs about SshServer, for every set of host keys, every length of the *)
(* inbox, any number of channels, and whatever the card does.              *)
(*                                                                         *)
(* Neither KeyIsKept nor SavedKeyIsOnCard is inductive: the first needs    *)
(* what a key in memory that was not yet offered may be, the second that   *)
(* the seed waiting for the card is the key in use.                        *)
(***************************************************************************)
EXTENDS SshServer, TLAPS

(* The actions that leave the keys alone: all of the network's, the        *)
(* client's and the clock's, and those of a session.                       *)
Aside ==
    \/ Start \/ Stop \/ PollSession
    \/ Connect \/ (\E m \in Messages : Says(m)) \/ Leaves \/ Vanishes \/ Torn
    \/ AuthExpires \/ Quiet \/ GraceEnds

LEMMA AsideKeepsKeys == Aside => UNCHANGED keys
  BY DEF Aside, Start, Stop, PollSession, EndRound, End, MoveRound, Connect, Says, Leaves,
         Vanishes, Torn, AuthExpires, Quiet, GraceEnds

LEMMA ListenerKeepsKeys == PollListener => (UNCHANGED keys) \/ Ensured
  BY DEF PollListener, Listen, Accept, Teardown

(* Every step is one of these for the keys.                                *)
LEMMA KeySteps ==
    [Next]_vars => \/ UNCHANGED keys \/ Ensured \/ DeleteFile \/ Reboot
  <1> SUFFICES ASSUME [Next]_vars
               PROVE  \/ UNCHANGED keys \/ Ensured \/ DeleteFile \/ Reboot
    OBVIOUS
  <1>1. CASE Aside
    BY <1>1, AsideKeepsKeys
  <1>2. CASE EnsureHostkey
    BY <1>2 DEF EnsureHostkey
  <1>3. CASE PollListener
    BY <1>3, ListenerKeepsKeys
  <1>4. CASE UNCHANGED vars
    BY <1>4 DEF vars
  <1> QED
    BY <1>1, <1>2, <1>3, <1>4 DEF Next, Aside

(* The packet buffers have one owner on every path by which a session      *)
(* begins or ends (Session::drop, BUFFERS_IN_USE).                         *)
THEOREM OneOwnerOfBuffers == Spec => []BuffersHaveOneOwner
  <1>1. Init => BuffersHaveOneOwner
    BY DEF Init, BuffersHaveOneOwner
  <1>2. BuffersHaveOneOwner /\ [Next]_vars => BuffersHaveOneOwner'
    <2> SUFFICES ASSUME BuffersHaveOneOwner, [Next]_vars PROVE BuffersHaveOneOwner'
      OBVIOUS
    <2> USE DEF BuffersHaveOneOwner
    <2>1. ASSUME Dropped PROVE BuffersHaveOneOwner'
      BY <2>1 DEF Dropped
    <2>2. CASE Stop
      BY <2>1, <2>2 DEF Stop
    <2>3. CASE PollListener
      <3>1. CASE Accept
        <4>1. ~inUse
          BY <2>3 DEF PollListener
        <4>2. inUse' = TRUE /\ session' = {NewSession}
          BY <3>1, <4>1, Zenon DEF Accept
        <4> QED
          BY <4>2
      <3>2. CASE Listen \/ Teardown
        BY <3>2 DEF Listen, Teardown
      <3> QED
        BY <2>3, <3>1, <3>2 DEF PollListener
    <2>4. CASE PollSession
      <3>1. PICK s \in session : EndRound(s) \/ MoveRound(s)
        BY <2>4 DEF PollSession
      <3>2. CASE EndRound(s)
        BY <2>1, <3>2 DEF EndRound, End
      <3>3. CASE MoveRound(s)
        <4>1. PICK t : session' = {t}
          BY <3>3 DEF MoveRound
        <4>2. inUse' = inUse
          BY <3>3 DEF MoveRound
        <4> QED
          BY <3>1, <4>1, <4>2
      <3> QED
        BY <3>1, <3>2, <3>3
    <2>5. CASE AuthExpires \/ Quiet
      <3>1. inUse' = inUse /\ session # {} /\ session' # {}
        BY <2>5 DEF AuthExpires, Quiet
      <3> QED
        BY <3>1
    <2>6. CASE Reboot
      BY <2>6 DEF Reboot
    <2>7. CASE \/ Start \/ EnsureHostkey \/ DeleteFile \/ Connect
               \/ (\E m \in Messages : Says(m)) \/ Leaves \/ Vanishes \/ Torn \/ GraceEnds
      <3>1. UNCHANGED <<session, inUse>>
        BY <2>7, Zenon
        DEF Start, EnsureHostkey, DeleteFile, Connect, Says, Leaves, Vanishes, Torn,
            GraceEnds, server
      <3> QED
        BY <3>1
    <2>8. CASE UNCHANGED vars
      BY <2>8 DEF vars, server
    <2> QED
      BY <2>2, <2>3, <2>4, <2>5, <2>6, <2>7, <2>8 DEF Next
  <1> QED
    BY <1>1, <1>2, PTL DEF Spec

-----------------------------------------------------------------------------
(* Type correctness.                                                       *)

LEMMA SessionShape == NewSession \in Sessions
  BY DEF NewSession, Sessions

LEMMA HandledShape ==
    ASSUME NEW s \in Sessions, NEW m PROVE Handled(s, m) \in Sessions
  BY DEF Handled, Sessions

(* A round leaves a session with all its flags, whichever of them it sets. *)
LEMMA MovedShape ==
    ASSUME NEW s \in Sessions, NEW m, NEW t \in Moved(s, m) PROVE t \in Sessions
  <1>1. CASE s.sftp
    BY <1>1 DEF Moved, ChannelSftp, Sessions
  <1>2. CASE ~s.sftp
    <2>1. PICK u \in Sent(Typed(Ran(s), m)) : t = ShellClosed(u)
      BY <1>2 DEF Moved, ChannelShell
    <2>2. Ran(s) \in Sessions
      BY DEF Ran, Sessions
    <2>3. Typed(Ran(s), m) \in Sessions
      BY <2>2 DEF Typed, Sessions
    <2>4. u \in Sessions
      BY <2>1, <2>3 DEF Sent, Sessions
    <2> QED
      BY <2>1, <2>4 DEF ShellClosed, Sessions
  <1> QED
    BY <1>1, <1>2

LEMMA NoClientShape == NoClient \in Clients
  BY SshAssumption DEF NoClient, Clients, Kinds, SshAssumption

LEMMA AbortedShape == Aborted => NetworkOK'
  <1> SUFFICES ASSUME Aborted PROVE NetworkOK'
    OBVIOUS
  <1>1. inbox' \in Seq(Messages) /\ Len(inbox') <= MaxInbox
    BY SshAssumption DEF Aborted, SshAssumption
  <1>2. client' \in Clients
    BY NoClientShape DEF Aborted
  <1> QED
    BY <1>1, <1>2 DEF Aborted, NetworkOK, Sockets

LEMMA KeysShape == KeysOK /\ [Next]_vars => KeysOK'
  <1> SUFFICES ASSUME KeysOK, [Next]_vars PROVE KeysOK'
    OBVIOUS
  <1> USE DEF KeysOK
  <1>1. CASE UNCHANGED keys
    BY <1>1 DEF keys
  <1>2. ASSUME NEW k \in Keys, Saved(k) PROVE {unsaved', file'} \subseteq {{}} \cup {{x} : x \in Keys}
                                              /\ deleted' \in BOOLEAN
    BY <1>2 DEF Saved
  <1>3. CASE Ensured
    <2>1. unread' \in BOOLEAN
      BY <1>3 DEF Ensured
    <2>2. CASE hostkey = {}
      <3>1. PICK k \in Keys : hostkey' = {k} /\ shown' = {k} /\ Saved(k)
        BY <1>3, <2>2 DEF Ensured
      <3> QED
        BY <1>2, <2>1, <3>1
    <2>3. CASE hostkey # {}
      <3>1. shown' = hostkey /\ hostkey' = hostkey
        BY <1>3, <2>3 DEF Ensured
      <3>2. CASE \E k \in unsaved : Saved(k)
        <4>1. PICK k \in Keys : Saved(k)
          BY <3>2
        <4> QED
          BY <1>2, <2>1, <3>1, <4>1
      <3>3. CASE UNCHANGED <<unsaved, file, deleted>>
        BY <2>1, <3>1, <3>3
      <3> QED
        BY <1>3, <2>3, <3>2, <3>3 DEF Ensured
    <2> QED
      BY <2>2, <2>3
  <1>4. CASE DeleteFile
    BY <1>4 DEF DeleteFile
  <1>5. CASE Reboot
    BY <1>5 DEF Reboot, Loaded
  <1> QED
    BY <1>1, <1>3, <1>4, <1>5, KeySteps

LEMMA ServerShape == ServerOK /\ [Next]_vars => ServerOK'
  <1> SUFFICES ASSUME ServerOK, [Next]_vars PROVE ServerOK'
    OBVIOUS
  <1> USE DEF ServerOK
  <1>1. CASE UNCHANGED server
    BY <1>1 DEF server
  <1>2. CASE Start \/ Stop \/ GraceEnds \/ Reboot
    BY <1>2 DEF Start, Stop, GraceEnds, Reboot, Dropped
  <1>3. CASE PollListener
    <2>1. CASE Listen \/ Teardown
      BY <1>3, <2>1 DEF PollListener, Listen, Teardown
    <2>2. CASE Accept
      <3>1. CASE inUse
        BY <1>3, <2>2, <3>1, Zenon DEF PollListener, Accept
      <3>2. CASE ~inUse
        <4>1. /\ inUse' = TRUE /\ session' = {NewSession}
              /\ closing' = closing /\ active' = active
          BY <1>3, <2>2, <3>2, Zenon DEF PollListener, Accept
        <4> QED
          BY <4>1, SessionShape
      <3> QED
        BY <3>1, <3>2
    <2> QED
      BY <1>3, <2>1, <2>2 DEF PollListener
  <1>4. CASE PollSession
    <2>1. PICK s \in session : EndRound(s) \/ MoveRound(s)
      BY <1>4 DEF PollSession
    <2>2. CASE EndRound(s)
      BY <2>2 DEF EndRound, End, Dropped
    <2>3. CASE MoveRound(s)
      <3>1. PICK m : \E t \in Moved(Handled(s, m), m) : session' = {t}
        BY <2>3 DEF MoveRound
      <3>2. UNCHANGED <<active, inUse, closing>>
        BY <2>3 DEF MoveRound
      <3>3. PICK t \in Moved(Handled(s, m), m) : session' = {t}
        BY <3>1
      <3>4. t \in Sessions
        BY <2>1, HandledShape, MovedShape
      <3> QED
        BY <3>2, <3>3, <3>4
    <2> QED
      BY <2>1, <2>2, <2>3
  <1>5. CASE AuthExpires \/ Quiet
    <2>1. PICK s \in session : \/ session' = {[s EXCEPT !.late = TRUE]}
                              \/ session' = {[s EXCEPT !.idle = TRUE]}
      BY <1>5 DEF AuthExpires, Quiet
    <2>2. /\ [s EXCEPT !.late = TRUE] \in Sessions
          /\ [s EXCEPT !.idle = TRUE] \in Sessions
      BY <2>1 DEF Sessions
    <2>3. UNCHANGED <<active, inUse, closing>>
      BY <1>5 DEF AuthExpires, Quiet
    <2> QED
      BY <2>1, <2>2, <2>3
  <1>6. CASE \/ EnsureHostkey \/ DeleteFile \/ Connect \/ (\E m \in Messages : Says(m))
             \/ Leaves \/ Vanishes \/ Torn
    BY <1>1, <1>6 DEF EnsureHostkey, DeleteFile, Connect, Says, Leaves, Vanishes, Torn
  <1>7. CASE UNCHANGED vars
    BY <1>1, <1>7 DEF vars
  <1> QED
    BY <1>2, <1>3, <1>4, <1>5, <1>6, <1>7 DEF Next

LEMMA NetworkShape == NetworkOK /\ [Next]_vars => NetworkOK'
  <1> SUFFICES ASSUME NetworkOK, [Next]_vars PROVE NetworkOK'
    OBVIOUS
  <1>1. CASE UNCHANGED network
    BY <1>1 DEF network, NetworkOK
  <1>2. CASE Stop \/ Reboot
    BY <1>2, AbortedShape DEF Stop, Reboot
  <1>3. CASE PollListener
    <2>1. Aborted \/ UNCHANGED network \/ Listen
      BY <1>3, Zenon DEF PollListener, Accept, Teardown
    <2>2. CASE Listen
      <3>1. inbox' = <<>> /\ client' = NoClient /\ socket' \in Sockets /\ gone' \in BOOLEAN
        BY <2>2 DEF Listen, Sockets
      <3>2. inbox' \in Seq(Messages) /\ Len(inbox') <= MaxInbox
        BY <3>1, SshAssumption DEF SshAssumption
      <3> QED
        BY <3>1, <3>2, NoClientShape DEF NetworkOK
    <2> QED
      BY <1>1, <2>1, <2>2, AbortedShape
  <1>4. CASE PollSession
    <2>1. PICK s \in session : EndRound(s) \/ MoveRound(s)
      BY <1>4 DEF PollSession
    <2>2. CASE EndRound(s)
      <3>1. inbox' = <<>> /\ client' = NoClient /\ socket' \in Sockets /\ gone' = gone
        BY <2>2 DEF EndRound, End, Sockets
      <3>2. inbox' \in Seq(Messages) /\ Len(inbox') <= MaxInbox
        BY <3>1, SshAssumption DEF SshAssumption
      <3> QED
        BY <3>1, <3>2, NoClientShape DEF NetworkOK
    <2>3. CASE MoveRound(s)
      <3>1. UNCHANGED <<socket, gone>>
        BY <2>3 DEF MoveRound
      <3>2. inbox' \in Seq(Messages) /\ Len(inbox') <= MaxInbox
        <4>1. inbox' = inbox \/ (inbox # <<>> /\ inbox' = Tail(inbox))
          BY <2>3 DEF MoveRound
        <4>2. inbox \in Seq(Messages) /\ Len(inbox) <= MaxInbox
          BY DEF NetworkOK
        <4>3. CASE inbox # <<>> /\ inbox' = Tail(inbox)
          <5>1. inbox' \in Seq(Messages) /\ Len(inbox') = Len(inbox) - 1 /\ Len(inbox) \in Nat
            BY <4>2, <4>3
          <5> QED
            BY <4>2, <5>1, SshAssumption DEF SshAssumption
        <4> QED
          BY <4>1, <4>2, <4>3
      <3>3. PICK m, t : ClientSees(s, t, m)
        BY <2>3 DEF MoveRound
      <3>4. client' \in Clients
        BY <3>3 DEF ClientSees, NetworkOK, Clients, Kinds
      <3> QED
        BY <3>1, <3>2, <3>4 DEF NetworkOK
    <2> QED
      BY <2>1, <2>2, <2>3
  <1>5. CASE Connect \/ Vanishes \/ Torn
    BY <1>5 DEF Connect, Vanishes, Torn, NetworkOK, Sockets
  <1>6. CASE Leaves
    BY <1>6 DEF Leaves, NetworkOK, Sockets, Clients
  <1>7. ASSUME NEW m \in Messages, Says(m) PROVE NetworkOK'
    <2>1. inbox' \in Seq(Messages) /\ Len(inbox') <= MaxInbox
      BY <1>7, SshAssumption DEF Says, NetworkOK, SshAssumption
    <2>2. UNCHANGED <<socket, gone>>
      BY <1>7 DEF Says
    <2>3. client' \in Clients
      <3>1. client' = AfterSaying(m) /\ MaySay(m) /\ client \in Clients
        BY <1>7 DEF Says, NetworkOK
      <3>2. CASE m = "open"
        <4>1. client.opens < MaxChannels
          BY <3>1, <3>2 DEF MaySay
        <4>2. client' = [client EXCEPT !.kind = "opening", !.opens = @ + 1, !.ended = FALSE]
          BY <3>1, <3>2 DEF AfterSaying
        <4>3. client.opens \in 0 .. MaxChannels /\ MaxChannels \in Nat
          BY <3>1, SshAssumption DEF Clients, SshAssumption
        <4>4. client.opens + 1 \in 0 .. MaxChannels
          BY <4>1, <4>3
        <4>5. "opening" \in Kinds
          BY DEF Kinds
        <4> QED
          BY <3>1, <4>2, <4>4, <4>5 DEF Clients
      <3>3. CASE m # "open"
        BY <3>1, <3>3 DEF AfterSaying, Clients, Kinds
      <3> QED
        BY <3>2, <3>3
    <2> QED
      BY <2>1, <2>2, <2>3 DEF NetworkOK
  <1>8. CASE \/ Start \/ EnsureHostkey \/ DeleteFile \/ AuthExpires \/ Quiet \/ GraceEnds
             \/ UNCHANGED vars
    BY <1>1, <1>8 DEF Start, EnsureHostkey, DeleteFile, AuthExpires, Quiet, GraceEnds, vars
  <1> QED
    BY <1>2, <1>3, <1>4, <1>5, <1>6, <1>7, <1>8 DEF Next

(* Every variable keeps its shape: whatever is received, typed, answered   *)
(* or cut off (SshServer, Session).                                        *)
THEOREM TypesHold == Spec => []TypeOK
  <1>1. Init => TypeOK
    <2> SUFFICES ASSUME Init PROVE TypeOK
      OBVIOUS
    <2>1. NetworkOK
      <3>1. inbox \in Seq(Messages) /\ Len(inbox) <= MaxInbox
        BY SshAssumption DEF Init, SshAssumption
      <3> QED
        BY <3>1, NoClientShape DEF Init, NetworkOK, Sockets
    <2>2. ServerOK /\ KeysOK
      BY DEF Init, ServerOK, KeysOK
    <2> QED
      BY <2>1, <2>2 DEF TypeOK
  <1>2. TypeOK /\ [Next]_vars => TypeOK'
    BY NetworkShape, ServerShape, KeysShape DEF TypeOK
  <1> QED
    BY <1>1, <1>2, PTL DEF Spec

-----------------------------------------------------------------------------
(* The last key offered is in use, unless the card has lost or withheld it.*)
OfferedIsInUse == shown # {} /\ hostkey # shown /\ file = shown => unread

(* Clients see the key they know as long as the card has it and gives it   *)
(* back at boot: no reset, session or failing write replaces it (new,      *)
(* ensure_hostkey).                                                        *)
THEOREM KeyStays == Spec => KeyIsKept
  <1>1. Init => OfferedIsInUse
    BY DEF Init, OfferedIsInUse
  <1>2. OfferedIsInUse /\ [Next]_vars => OfferedIsInUse'
    <2> SUFFICES ASSUME OfferedIsInUse, [Next]_vars PROVE OfferedIsInUse'
      OBVIOUS
    <2>1. CASE UNCHANGED keys
      BY <2>1 DEF keys, OfferedIsInUse
    <2>2. CASE Ensured
      <3>1. shown' = hostkey'
        BY <2>2 DEF Ensured
      <3> QED
        BY <3>1 DEF OfferedIsInUse
    <2>3. CASE DeleteFile
      BY <2>3 DEF DeleteFile, OfferedIsInUse
    <2>4. CASE Reboot
      BY <2>4 DEF Reboot, Loaded, OfferedIsInUse
    <2> QED
      BY <2>1, <2>2, <2>3, <2>4, KeySteps
  <1>3. OfferedIsInUse /\ [Next]_vars
            => [shown' # shown /\ shown # {} => file # shown \/ unread]_vars
    <2> SUFFICES ASSUME OfferedIsInUse, [Next]_vars, shown' # shown, shown # {}
                 PROVE  file # shown \/ unread
      OBVIOUS
    <2>1. Ensured
      BY KeySteps DEF keys, DeleteFile, Reboot
    <2>2. CASE hostkey = {}
      BY <2>2 DEF OfferedIsInUse
    <2>3. CASE hostkey # {}
      BY <2>1, <2>3 DEF Ensured, OfferedIsInUse
    <2> QED
      BY <2>2, <2>3
  <1> QED
    BY <1>1, <1>2, <1>3, PTL DEF Spec, KeyIsKept

(* The seed that waits for the card is the key in use.                     *)
UnsavedIsInUse ==
    /\ \A k \in unsaved : unsaved = {k} /\ hostkey = {k}
    /\ SavedKeyIsOnCard

(* unsaved_seed outlives every failing write: a key that does not wait is  *)
(* in the file.                                                            *)
THEOREM SavedStays == Spec => []SavedKeyIsOnCard
  <1>1. Init => UnsavedIsInUse
    BY DEF Init, UnsavedIsInUse, SavedKeyIsOnCard
  <1>2. UnsavedIsInUse /\ [Next]_vars => UnsavedIsInUse'
    <2> SUFFICES ASSUME UnsavedIsInUse, [Next]_vars PROVE UnsavedIsInUse'
      OBVIOUS
    <2> USE DEF UnsavedIsInUse, SavedKeyIsOnCard
    <2>1. CASE UNCHANGED keys
      BY <2>1 DEF keys
    <2>2. ASSUME NEW k, Saved(k), hostkey' = {k} PROVE UnsavedIsInUse'
      BY <2>2 DEF Saved
    <2>3. CASE Ensured
      <3>1. CASE hostkey = {}
        BY <2>2, <2>3, <3>1 DEF Ensured
      <3>2. CASE hostkey # {} /\ unsaved = {}
        BY <2>3, <3>2 DEF Ensured
      <3>3. CASE hostkey # {} /\ unsaved # {}
        BY <2>2, <2>3, <3>3 DEF Ensured
      <3> QED
        BY <3>1, <3>2, <3>3
    <2>4. CASE DeleteFile
      BY <2>4 DEF DeleteFile
    <2>5. CASE Reboot
      BY <2>5 DEF Reboot, Loaded
    <2> QED
      BY <2>1, <2>3, <2>4, <2>5, KeySteps
  <1>3. UnsavedIsInUse => SavedKeyIsOnCard
    BY DEF UnsavedIsInUse
  <1> QED
    BY <1>1, <1>2, <1>3, PTL DEF Spec

-----------------------------------------------------------------------------
(* The first channel of a connection.                                      *)

Waiting(m) == \E i \in DOMAIN inbox : inbox[i] = m

(* As long as a connection has had one channel, what the server has been   *)
(* told and what is still in the inbox add up to what the client has said, *)
(* and close_after_reply is set for a reason: an exec, or the client's end.*)
FirstOfClient ==
    /\ ~client.cut
    /\ client.opens = 0 =>
         client.kind = "none" /\ \A m \in {"open", "exec", "exit", "eof"} : ~Waiting(m)
    /\ session = {} => client.opens = 0

FirstOfInbox ==
    /\ Waiting("open") => client.kind = "opening"
    /\ \A i, j \in DOMAIN inbox : inbox[i] = "open" /\ inbox[j] = "open" => i = j
    /\ Waiting("exec") => client.kind \in {"exec", "none"}
    /\ Waiting("exit") \/ Waiting("eof") => client.ended

FirstOf(s) ==
    /\ s.channel => client.kind \notin {"none", "opening"}
    /\ s.closeAfterReply =>
         /\ client.opens = 1 /\ client.kind # "opening"
         /\ client.ended \/ client.kind \in {"exec", "none"}

FirstChannel ==
    client.opens <= 1 => FirstOfClient /\ FirstOfInbox /\ \A s \in session : FirstOf(s)

(* A connection that is over leaves nothing.                               *)
LEMMA FreshConnection ==
    (inbox' = <<>> /\ client' = NoClient /\ session' = {}) => FirstChannel'
  <1> SUFFICES ASSUME inbox' = <<>>, client' = NoClient, session' = {}
               PROVE  FirstChannel'
    OBVIOUS
  <1>1. DOMAIN inbox' = {}
    OBVIOUS
  <1> QED
    BY <1>1 DEF FirstChannel, FirstOfClient, FirstOfInbox, Waiting, NoClient

LEMMA FirstFrame ==
    ASSUME FirstChannel, UNCHANGED <<inbox, client>>,
           \A t \in session' : \E s \in session :
               t.channel = s.channel /\ t.closeAfterReply = s.closeAfterReply,
           session' = {} => session = {}
    PROVE  FirstChannel'
  BY DEF FirstChannel, FirstOfClient, FirstOfInbox, FirstOf, Waiting

(* What the client says next.                                              *)
LEMMA SaysFirst ==
    ASSUME TypeOK, FirstChannel, NEW m \in Messages, Says(m) PROVE FirstChannel'
  <1>1. /\ inbox' = Append(inbox, m) /\ client' = AfterSaying(m) /\ MaySay(m) /\ session' = session
        /\ inbox \in Seq(Messages) /\ client \in Clients
    BY DEF Says, server, TypeOK, NetworkOK
  <1>2. /\ Len(inbox) \in Nat /\ DOMAIN inbox = 1 .. Len(inbox)
        /\ DOMAIN inbox' = 1 .. Len(inbox) + 1 /\ inbox'[Len(inbox) + 1] = m
        /\ \A i \in DOMAIN inbox : inbox'[i] = inbox[i]
    BY <1>1
  <1>3. \A x : Waiting(x)' <=> Waiting(x) \/ x = m
    <2>1. \A i \in DOMAIN inbox' : i \in DOMAIN inbox \/ i = Len(inbox) + 1
      BY <1>2
    <2>2. Len(inbox) + 1 \in DOMAIN inbox' /\ DOMAIN inbox \subseteq DOMAIN inbox'
      BY <1>2
    <2> QED
      BY <1>2, <2>1, <2>2 DEF Waiting
  <1>4. client.opens \in Nat
    BY <1>1, SshAssumption DEF Clients, SshAssumption
  <1> SUFFICES ASSUME client'.opens <= 1
               PROVE  FirstOfClient' /\ FirstOfInbox' /\ \A s \in session : FirstOf(s)'
    BY <1>1 DEF FirstChannel
  <1>5. CASE m = "open"
    <2>1. /\ client' = [client EXCEPT !.kind = "opening", !.opens = @ + 1, !.ended = FALSE]
          /\ client.kind = "none" /\ LoggedIn
      BY <1>1, <1>5 DEF AfterSaying, MaySay
    <2>2. client'.kind = "opening" /\ client'.opens = client.opens + 1 /\ client'.cut = client.cut
      BY <1>1, <2>1 DEF Clients
    <2>3. client.opens = 0 /\ FirstOfClient /\ FirstOfInbox /\ \A s \in session : FirstOf(s)
      BY <1>4, <2>2 DEF FirstChannel
    <2>4. \A x \in {"open", "exec", "exit", "eof"} : ~Waiting(x)
      BY <2>3 DEF FirstOfClient
    <2>5. FirstOfClient'
      BY <1>1, <2>1, <2>2, <2>3 DEF FirstOfClient, LoggedIn
    <2>6. \A i, j \in DOMAIN inbox' : inbox'[i] = "open" /\ inbox'[j] = "open" => i = j
      <3>1. \A i \in DOMAIN inbox' : inbox'[i] = "open" => i = Len(inbox) + 1
        BY <1>2, <2>4 DEF Waiting
      <3> QED
        BY <3>1
    <2>7. FirstOfInbox'
      BY <1>3, <1>5, <2>2, <2>4, <2>6 DEF FirstOfInbox
    <2>8. \A s \in session : FirstOf(s)'
      BY <2>1, <2>3 DEF FirstOf
    <2> QED
      BY <2>5, <2>7, <2>8
  <1>6. CASE m # "open"
    <2>1. /\ client'.opens = client.opens /\ client'.cut = client.cut
          /\ client.ended => client'.ended
          /\ client'.kind = client.kind \/ (client.kind = "idle" /\ client'.kind = m)
          /\ m \in {"exit", "eof"} => client'.ended
      BY <1>1, <1>6 DEF AfterSaying, MaySay, Clients
    <2>2. FirstOfClient /\ FirstOfInbox /\ \A s \in session : FirstOf(s)
      BY <2>1 DEF FirstChannel
    <2>3. m = "exec" => client.kind = "idle" /\ client'.kind = "exec"
      BY <1>1 DEF MaySay, AfterSaying, Clients
    <2>4. m \in {"exec", "exit", "eof"} => client.kind # "none"
      BY <1>1 DEF MaySay
    <2>5. FirstOfClient'
      BY <1>1, <1>3, <1>6, <2>1, <2>2, <2>4 DEF FirstOfClient
    <2>6. \A i, j \in DOMAIN inbox' : inbox'[i] = "open" /\ inbox'[j] = "open" => i = j
      <3>1. \A i \in DOMAIN inbox' : inbox'[i] = "open" => i \in DOMAIN inbox /\ inbox[i] = "open"
        BY <1>2, <1>6
      <3> QED
        BY <2>2, <3>1 DEF FirstOfInbox
    <2>7. FirstOfInbox'
      <3>1. /\ Waiting("open")' => client'.kind = "opening"
            /\ Waiting("exec")' => client'.kind \in {"exec", "none"}
            /\ Waiting("exit")' \/ Waiting("eof")' => client'.ended
        BY <1>3, <1>6, <2>1, <2>2, <2>3 DEF FirstOfInbox
      <3> QED
        BY <2>6, <3>1 DEF FirstOfInbox
    <2>8. \A s \in session : FirstOf(s)'
      <3>1. m \notin {"none", "opening"}
        BY DEF Messages, Requests, Data
      <3> QED
        BY <2>1, <2>2, <3>1 DEF FirstOf
    <2> QED
      BY <2>5, <2>7, <2>8
  <1> QED
    BY <1>5, <1>6

(* A channel is closed because the client has ended it, or when the reply  *)
(* of its exec has gone out.                                               *)
LEMMA WhyClosed ==
    ASSUME NEW s \in Sessions, NEW m, NEW t \in Moved(Handled(s, m), m)
    PROVE  /\ t.channel => s.channel \/ m = "open"
           /\ t.closeAfterReply =>
                \/ s.closeAfterReply \/ m = "exec"
                \/ m \in {"exit", "eof"} /\ (s.channel \/ m = "open")
           /\ (s.channel \/ m = "open") /\ ~t.channel =>
                \/ m = "eof"
                \/ t.closeAfterReply /\ ~t.reply /\ ~t.execPending
  <1> DEFINE h == Handled(s, m)
  <1>1. /\ h \in Sessions /\ h.channel = (s.channel \/ m = "open")
        /\ h.closeAfterReply = (s.closeAfterReply \/ m = "exec")
    BY HandledShape DEF Handled, Sessions
  <1>2. CASE h.sftp
    BY <1>1, <1>2 DEF Moved, ChannelSftp, Sessions
  <1>3. CASE ~h.sftp
    <2>1. PICK u \in Sent(Typed(Ran(h), m)) : t = ShellClosed(u)
      BY <1>3 DEF Moved, ChannelShell
    <2>2. /\ Ran(h) \in Sessions /\ ~Ran(h).execPending
          /\ Ran(h).channel = h.channel /\ Ran(h).closeAfterReply = h.closeAfterReply
      BY <1>1 DEF Ran, Sessions
    <2> DEFINE y == Typed(Ran(h), m)
    <2>3. /\ y \in Sessions /\ ~y.execPending /\ y.channel = h.channel
          /\ y.closeAfterReply = (h.closeAfterReply \/ (h.channel /\ m \in {"exit", "eof"}))
      BY <2>2 DEF Typed, Sessions
    <2>4. /\ u \in Sessions /\ ~u.execPending /\ u.channel = h.channel
          /\ u.closeAfterReply = y.closeAfterReply
      <3> HIDE DEF y
      <3>1. u \in Sent(y)
        BY <2>1 DEF y
      <3> QED
        BY <2>3, <3>1 DEF Sent, Sessions
    <2>5. /\ t.channel => u.channel
          /\ t.closeAfterReply = u.closeAfterReply
          /\ u.channel /\ ~t.channel => t.closeAfterReply /\ ~t.reply /\ ~t.execPending
      BY <2>1, <2>4 DEF ShellClosed, Sessions
    <2> HIDE DEF y, h
    <2> QED
      BY <1>1, <2>3, <2>4, <2>5
  <1> QED
    BY <1>2, <1>3

(* A round keeps the account: what it takes from the inbox it puts into the*)
(* session or tells the client.                                            *)
LEMMA MoveFirst ==
    ASSUME TypeOK, FirstChannel, NEW s \in session, MoveRound(s) PROVE FirstChannel'
  <1> DEFINE m == IF inbox = <<>> THEN "none" ELSE Head(inbox)
  <1>1. /\ inbox' = IF inbox = <<>> THEN inbox ELSE Tail(inbox)
        /\ \E t \in Moved(Handled(s, m), m) : session' = {t} /\ ClientSees(s, t, m)
    BY DEF MoveRound
  <1>2. PICK t \in Moved(Handled(s, m), m) : session' = {t} /\ ClientSees(s, t, m)
    BY <1>1
  <1>3. s \in Sessions /\ client \in Clients /\ inbox \in Seq(Messages) /\ session = {s}
    BY DEF TypeOK, ServerOK, NetworkOK
  <1>4. /\ \A i \in DOMAIN inbox' : \E j \in DOMAIN inbox : inbox'[i] = inbox[j] /\ (inbox # <<>> => j = i + 1 /\ j # 1)
        /\ inbox # <<>> => 1 \in DOMAIN inbox /\ inbox[1] = m
        /\ inbox = <<>> => m = "none"
        /\ \A i \in DOMAIN inbox' : i \in Nat
    BY <1>1, <1>3
  <1>5. /\ \A x : Waiting(x)' => Waiting(x)
        /\ m # "none" => Waiting(m)
    BY <1>4 DEF Waiting
  <1>6. t \in Sessions
    BY <1>3, HandledShape, MovedShape
  <1>7. /\ t.channel => s.channel \/ m = "open"
        /\ t.closeAfterReply =>
             \/ s.closeAfterReply \/ m = "exec"
             \/ m \in {"exit", "eof"} /\ (s.channel \/ m = "open")
        /\ (s.channel \/ m = "open") /\ ~t.channel =>
             \/ m = "eof"
             \/ t.closeAfterReply /\ ~t.reply /\ ~t.execPending
    BY <1>3, WhyClosed
  <1>8. client' \in Clients /\ client'.opens = client.opens /\ client'.ended = client.ended
    BY <1>2, <1>3 DEF ClientSees, Clients, Kinds
  <1> SUFFICES ASSUME client.opens <= 1
               PROVE  FirstOfClient' /\ FirstOfInbox' /\ FirstOf(t)'
    BY <1>2, <1>8 DEF FirstChannel
  <1>9. FirstOfClient /\ FirstOfInbox /\ FirstOf(s)
    BY DEF FirstChannel
  <1> HIDE DEF m
  <1>10. \A i, j \in DOMAIN inbox' : inbox'[i] = "open" /\ inbox'[j] = "open" => i = j
    <2> SUFFICES ASSUME NEW i \in DOMAIN inbox', NEW j \in DOMAIN inbox',
                        inbox'[i] = "open", inbox'[j] = "open"
                 PROVE  i = j
      OBVIOUS
    <2>1. CASE inbox = <<>>
      BY <1>1, <1>9, <2>1 DEF FirstOfInbox
    <2>2. CASE inbox # <<>>
      <3>1. i + 1 \in DOMAIN inbox /\ inbox[i + 1] = "open" /\ j + 1 \in DOMAIN inbox
            /\ inbox[j + 1] = "open" /\ i \in Nat /\ j \in Nat
        BY <1>4, <2>2
      <3>2. i + 1 = j + 1
        BY <1>9, <3>1 DEF FirstOfInbox
      <3> QED
        BY <3>1, <3>2
    <2> QED
      BY <2>1, <2>2
  <1>11. CASE m = "open"
    <2>1. client.kind = "opening" /\ client.opens # 0 /\ ~s.channel /\ ~s.closeAfterReply
      BY <1>5, <1>9, <1>11 DEF FirstOfClient, FirstOfInbox, FirstOf
    <2>2. t.channel /\ ~t.closeAfterReply
      BY <1>7, <1>11, <2>1
    <2>3. client' = [client EXCEPT !.kind = "idle"]
      BY <1>2, <1>11, <2>2 DEF ClientSees
    <2>4. client'.kind = "idle" /\ client'.cut = client.cut
      BY <1>3, <2>3 DEF Clients
    <2>5. ~Waiting("open")'
      <3> SUFFICES ASSUME NEW i \in DOMAIN inbox', inbox'[i] = "open" PROVE FALSE
        BY DEF Waiting
      <3>1. inbox # <<>>
        BY <1>4, <1>11
      <3>2. i + 1 \in DOMAIN inbox /\ inbox[i + 1] = "open" /\ i + 1 # 1
        BY <1>4, <3>1
      <3>3. 1 \in DOMAIN inbox /\ inbox[1] = "open"
        BY <1>4, <1>11, <3>1
      <3> QED
        BY <1>9, <3>2, <3>3 DEF FirstOfInbox
    <2>6. ~Waiting("exec")'
      BY <1>5, <1>9, <2>1 DEF FirstOfInbox
    <2>7. FirstOfClient'
      BY <1>2, <1>8, <1>9, <2>1, <2>4 DEF FirstOfClient
    <2>8. FirstOfInbox'
      BY <1>5, <1>8, <1>9, <1>10, <2>5, <2>6 DEF FirstOfInbox
    <2>9. FirstOf(t)'
      BY <2>2, <2>4 DEF FirstOf
    <2> QED
      BY <2>7, <2>8, <2>9
  <1>12. CASE m # "open" /\ s.channel /\ ~t.channel
    <2>1. client.kind \notin {"none", "opening"}
      BY <1>9, <1>12 DEF FirstOf
    <2>2. client.ended \/ (client.kind = "exec" /\ ~t.reply /\ ~t.execPending)
      <3>1. m \in {"exit", "eof"} => client.ended
        BY <1>5, <1>9 DEF FirstOfInbox
      <3>2. m = "exec" => client.kind = "exec"
        BY <1>5, <1>9, <2>1 DEF FirstOfInbox
      <3>3. s.closeAfterReply => client.ended \/ client.kind = "exec"
        BY <1>9, <2>1 DEF FirstOf
      <3> QED
        BY <1>7, <1>12, <3>1, <3>2, <3>3
    <2>3. client'.kind = "none" /\ client'.cut = client.cut
      <3>1. client' = [client EXCEPT !.kind = "none", !.cut = @ \/ ~(client.ended
                          \/ (client.kind = "exec" /\ ~t.reply /\ ~t.execPending))]
        BY <1>2, <1>12 DEF ClientSees
      <3> QED
        BY <1>3, <2>2, <3>1 DEF Clients
    <2>4. client.opens # 0
      BY <1>9, <2>1 DEF FirstOfClient
    <2>5. client.opens = 1
      <3>1. client.opens \in Nat
        BY <1>3, SshAssumption DEF Clients, SshAssumption
      <3> QED
        BY <2>4, <3>1
    <2>6. FirstOfClient'
      BY <1>2, <1>8, <1>9, <2>3, <2>4 DEF FirstOfClient
    <2>7. FirstOfInbox'
      BY <1>5, <1>8, <1>9, <1>10, <2>1, <2>3 DEF FirstOfInbox
    <2>8. FirstOf(t)'
      BY <1>8, <1>12, <2>3, <2>5 DEF FirstOf
    <2> QED
      BY <2>6, <2>7, <2>8
  <1>13. CASE m # "open" /\ ~(s.channel /\ ~t.channel)
    <2>1. UNCHANGED client
      BY <1>2, <1>13 DEF ClientSees
    <2>2. FirstOfClient'
      BY <1>2, <1>5, <1>9, <2>1 DEF FirstOfClient
    <2>3. FirstOfInbox'
      BY <1>5, <1>9, <1>10, <2>1 DEF FirstOfInbox
    <2>4. t.channel => client.kind \notin {"none", "opening"}
      BY <1>7, <1>9, <1>13 DEF FirstOf
    <2>5. t.closeAfterReply =>
            /\ client.opens # 0 /\ client.kind # "opening"
            /\ client.ended \/ client.kind \in {"exec", "none"}
      <3>1. CASE s.closeAfterReply
        BY <1>9, <3>1 DEF FirstOf
      <3>2. CASE m = "exec"
        BY <1>5, <1>9, <3>2 DEF FirstOfClient, FirstOfInbox
      <3>3. CASE m \in {"exit", "eof"} /\ s.channel
        BY <1>5, <1>9, <3>3 DEF FirstOfClient, FirstOfInbox, FirstOf
      <3> QED
        BY <1>7, <1>13, <3>1, <3>2, <3>3
    <2>6. client.opens \in Nat
      BY <1>3, SshAssumption DEF Clients, SshAssumption
    <2> QED
      BY <2>1, <2>2, <2>3, <2>4, <2>5, <2>6 DEF FirstOf
  <1> QED
    BY <1>11, <1>12, <1>13

(* The first channel of a connection is closed only after the client has   *)
(* ended it, or the whole reply to its command went out: the order of      *)
(* close_after_reply, exec_pending and the reply buffer in channel_shell,  *)
(* for any client that says one thing ahead of another.                    *)
THEOREM ClosesAfterReply == Spec => []ClosedAfterReply
  <1>1. Init => FirstChannel
    <2> SUFFICES ASSUME Init PROVE FirstChannel
      OBVIOUS
    <2>1. DOMAIN inbox = {} /\ session = {}
      BY DEF Init
    <2> QED
      BY <2>1 DEF Init, NoClient, FirstChannel, FirstOfClient, FirstOfInbox, Waiting
  <1>2. TypeOK /\ FirstChannel /\ [Next]_vars => FirstChannel'
    <2> SUFFICES ASSUME TypeOK, FirstChannel, [Next]_vars PROVE FirstChannel'
      OBVIOUS
    <2>1. CASE Stop \/ Reboot
      <3>1. inbox' = <<>> /\ client' = NoClient /\ session' = {}
        BY <2>1, Zenon DEF Stop, Reboot, Aborted, Dropped
      <3> QED
        BY <3>1, FreshConnection
    <2>2. CASE PollListener
      <3>1. session = {}
        BY <2>2 DEF PollListener
      <3>2. CASE Listen \/ Teardown
        <4>1. CASE Listen
          BY <3>1, <4>1, FreshConnection DEF Listen
        <4>2. CASE Teardown
          BY <3>1, <4>2, FreshConnection DEF Teardown, Aborted
        <4> QED
          BY <3>2, <4>1, <4>2
      <3>3. CASE Accept
        <4>1. CASE inUse
          <5>1. Aborted /\ UNCHANGED session
            BY <3>3, <4>1, Zenon DEF Accept
          <5> QED
            BY <3>1, <5>1, FreshConnection DEF Aborted
        <4>2. CASE ~inUse
          <5>1. session' = {NewSession} /\ UNCHANGED network
            BY <3>3, <4>2, Zenon DEF Accept
          <5>2. ~NewSession.channel /\ ~NewSession.closeAfterReply
            BY DEF NewSession
          <5> QED
            BY <3>1, <5>1, <5>2
            DEF network, FirstChannel, FirstOfClient, FirstOfInbox, FirstOf, Waiting
        <4> QED
          BY <4>1, <4>2
      <3> QED
        BY <2>2, <3>2, <3>3 DEF PollListener
    <2>3. CASE PollSession
      <3>1. PICK s \in session : EndRound(s) \/ MoveRound(s)
        BY <2>3 DEF PollSession
      <3>2. CASE EndRound(s)
        <4>1. inbox' = <<>> /\ client' = NoClient /\ session' = {}
          BY <3>2, Zenon DEF EndRound, End, Dropped
        <4> QED
          BY <4>1, FreshConnection
      <3> QED
        BY <3>1, <3>2, MoveFirst
    <2>4. CASE \E m \in Messages : Says(m)
      BY <2>4, SaysFirst
    <2>5. CASE Leaves
      <3>1. /\ client' = [client EXCEPT !.ended = TRUE] /\ client \in Clients
            /\ UNCHANGED <<inbox, session>>
        BY <2>5 DEF Leaves, server, TypeOK, NetworkOK
      <3>2. /\ client'.ended /\ client'.kind = client.kind /\ client'.opens = client.opens
            /\ client'.cut = client.cut
        BY <3>1 DEF Clients
      <3> QED
        BY <3>1, <3>2 DEF FirstChannel, FirstOfClient, FirstOfInbox, FirstOf, Waiting
    <2>6. CASE AuthExpires \/ Quiet
      <3>1. UNCHANGED <<inbox, client>>
        BY <2>6 DEF AuthExpires, Quiet, network
      <3>2. PICK s \in session : session' = {[s EXCEPT !.late = TRUE]}
                               \/ session' = {[s EXCEPT !.idle = TRUE]}
        BY <2>6 DEF AuthExpires, Quiet
      <3>3. s \in Sessions
        BY DEF TypeOK, ServerOK
      <3>4. \A t \in session' : t.channel = s.channel /\ t.closeAfterReply = s.closeAfterReply
        BY <3>2, <3>3 DEF Sessions
      <3> QED
        BY <3>1, <3>2, <3>4, FirstFrame
    <2>7. CASE \/ Start \/ EnsureHostkey \/ DeleteFile \/ Connect \/ Vanishes \/ Torn \/ GraceEnds
               \/ UNCHANGED vars
      <3>1. UNCHANGED <<session, inbox, client>>
        BY <2>7, Zenon
        DEF Start, EnsureHostkey, DeleteFile, Connect, Vanishes, Torn, GraceEnds, server,
            network, vars
      <3> QED
        BY <3>1, FirstFrame
    <2> QED
      BY <2>1, <2>2, <2>3, <2>4, <2>5, <2>6, <2>7 DEF Next
  <1>3. TypeOK /\ FirstChannel => ClosedAfterReply
    <2> SUFFICES ASSUME TypeOK, FirstChannel, client.cut PROVE client.opens > 1
      BY DEF ClosedAfterReply
    <2>1. client.opens \in Nat
      BY SshAssumption DEF TypeOK, NetworkOK, Clients, SshAssumption
    <2> QED
      BY <2>1 DEF FirstChannel, FirstOfClient
  <1> QED
    BY <1>1, <1>2, <1>3, TypesHold, PTL DEF Spec
=============================================================================
