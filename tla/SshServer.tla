------------------------------ MODULE SshServer -----------------------------
(***************************************************************************)
(* The SSH server (src/src/ssh.rs): its listener, its one session with the *)
(* channel in it, the time-outs, and the host key with its file on the SD  *)
(* card.  What an SFTP channel does is the subject of Sftp.                *)
(*                                                                         *)
(* The server is polled once per pass of the main loop while its screen is *)
(* open.  A poll of a session does up to eight rounds, each of which takes *)
(* at most one packet from the network, handles the event in it and moves  *)
(* the data of the channel; a round is a step here, so that the network    *)
(* may act between any two.  A packet is a message; the server's answers   *)
(* reach the client at once.  Of a time-out only is kept whether it has    *)
(* run out.                                                                *)
(*                                                                         *)
(* The definitions named Wrong... are mutants: each is what the definition *)
(* that follows it would be with one plausible bug.  Nothing uses them.    *)
(*                                                                         *)
(* An optional value is a set of at most one element.                      *)
(***************************************************************************)
EXTENDS Integers, Sequences

CONSTANTS
    Keys,         \* host keys: their seeds
    MaxInbox,     \* bound: packets the client may send ahead
    MaxChannels,  \* bound: channels a client opens in one connection
    CardFails     \* reading or writing the file of the key may fail

ASSUME SshAssumption ==
    /\ {MaxInbox, MaxChannels} \subseteq Nat
    /\ CardFails \in BOOLEAN

VARIABLES
    active,      \* SshServer.active: the SSH+SFTP screen is open
    socket,      \* the state of the TCP socket
    session,     \* SshServer.session
    inUse,       \* BUFFERS_IN_USE
    closing,     \* SshServer.closing_since: "none", or its "grace" is running or "over"
    hostkey,     \* SshServer.hostkey
    unsaved,     \* SshServer.unsaved_seed
    file,        \* SSHHOST.KEY: a key, or nothing that the server can use
    inbox,       \* the packets that have arrived and were not read
    client,      \* what the client does on its channel
    gone,        \* the client vanished: nothing of it will ever arrive
    shown,       \* history: the key that was last offered
    deleted,     \* history: the file was deleted since the key was saved or loaded
    unread       \* history: the file was there at the last boot and could not be read

network == <<socket, inbox, client, gone>>
server  == <<active, session, inUse, closing>>
keys    == <<hostkey, unsaved, file, shown, deleted, unread>>
vars    == <<network, server, keys>>

Requests == {"hello", "login", "open", "shell", "exec", "sftp"}
Data     == {"line", "exit", "eof"}
Messages == Requests \cup Data \cup {"junk"}

Sockets == {"closed", "listen", "established", "half", "fin"}

(* What the client has on its channel, whether it has ended it, how many   *)
(* channels it has opened in this connection, and whether one was cut off: *)
(* closed by the server before the client or the command was done with it. *)
NoClient == [kind |-> "none", ended |-> FALSE, opens |-> 0, cut |-> FALSE]
Kinds    == {"none", "opening", "idle", "shell", "exec", "sftp"}

NewSession ==
    [authenticated |-> FALSE, channel |-> FALSE, closeAfterReply |-> FALSE,
     execPending |-> FALSE, reply |-> FALSE, sftp |-> FALSE,
     late |-> FALSE, idle |-> FALSE]

Init ==
    /\ active = FALSE /\ socket = "closed" /\ session = {} /\ inUse = FALSE
    /\ closing = "none"
    /\ hostkey = {} /\ unsaved = {} /\ file = {} /\ shown = {}
    /\ deleted = FALSE /\ unread = FALSE
    /\ inbox = <<>> /\ client = NoClient /\ gone = FALSE

-----------------------------------------------------------------------------
(* The host key.                                                           *)

(* MUTANT: a key counts as saved whether or not it was written. *)
WrongSaved(k) ==
    /\ unsaved' = {} /\ deleted' = FALSE
    /\ file' \in {{k}} \cup (IF CardFails THEN {file, {}} ELSE {})

(* write_config_file overwrites the file in place: when it fails, the old  *)
(* key, a part of the new one or all of it may be there.                   *)
Saved(k) ==
    \/ unsaved' = {} /\ file' = {k} /\ deleted' = FALSE
    \/ CardFails /\ unsaved' = {k} /\ file' \in {file, {}, {k}} /\ UNCHANGED deleted

(* MUTANT: a key is generated every time and offered beside the others. *)
WrongEnsured ==
    /\ \E k \in Keys \ (file \cup shown) :
            hostkey' = hostkey \cup {k} /\ shown' = {k} /\ Saved(k)
    /\ UNCHANGED unread

(* ensure_hostkey: generate a key if there is none (a new one each time),  *)
(* write it until it is on the card.                                       *)
Ensured ==
    /\ \/ /\ hostkey = {}
          /\ \E k \in Keys \ (file \cup shown) :
                hostkey' = {k} /\ shown' = {k} /\ Saved(k)
       \/ /\ hostkey # {}
          /\ \/ \E k \in unsaved : Saved(k)
             \/ unsaved = {} /\ UNCHANGED <<unsaved, file, deleted>>
          /\ shown' = hostkey /\ UNCHANGED hostkey
    /\ UNCHANGED unread

(* Every pass, while the screen is open and Wi-Fi is up (main.rs).         *)
EnsureHostkey ==
    /\ active
    /\ Ensured
    /\ UNCHANGED <<network, server>>

(* The user deletes the file, over SFTP, in the file manager or elsewhere, *)
(* to rotate the key.                                                      *)
DeleteFile ==
    /\ file # {}
    /\ file' = {} /\ deleted' = TRUE
    /\ UNCHANGED <<network, server, hostkey, unsaved, shown, unread>>

(* SshServer::new reads the file at boot, if there is a card.              *)
Loaded ==
    \/ hostkey' = file /\ unread' = FALSE
    \/ CardFails /\ hostkey' = {} /\ unread' = TRUE

-----------------------------------------------------------------------------
(* The listener.                                                           *)

Start ==
    /\ ~active
    /\ active' = TRUE
    /\ UNCHANGED <<network, session, inUse, closing, keys>>

(* MUTANT: the buffers stay taken. *)
WrongDropped ==
    session' = {} /\ UNCHANGED inUse

(* Session::drop.                                                          *)
Dropped == session' = {} /\ inUse' = (inUse /\ session = {})

Aborted == /\ socket' = "closed" /\ inbox' = <<>> /\ client' = NoClient
           /\ gone' = FALSE

Stop ==
    /\ active
    /\ active' = FALSE
    /\ Dropped /\ closing' = "none" /\ Aborted
    /\ UNCHANGED keys

(* A dead socket listens again, with nothing of the last connection in it: *)
(* the TCP stack empties the buffers of a socket that is made to listen.   *)
Listen ==
    /\ socket = "closed"
    /\ socket' = "listen" /\ closing' = "none"
    /\ inbox' = <<>> /\ client' = NoClient /\ gone' = FALSE
    /\ UNCHANGED <<session, inUse, keys>>

(* One session at a time: while the buffers are taken, a connection is cut *)
(* off; otherwise it gets a session, and there is a key by then.           *)
Accept ==
    /\ socket = "established"
    /\ IF inUse THEN Aborted /\ UNCHANGED <<session, inUse, keys>>
       ELSE /\ inUse' = TRUE /\ Ensured
            /\ session' = {NewSession}
            /\ UNCHANGED network
    /\ UNCHANGED closing

(* MUTANT: the grace of every teardown starts anew with each poll. *)
WrongTeardown ==
    /\ socket \in {"half", "fin"}
    /\ closing' = "grace" /\ UNCHANGED network
    /\ UNCHANGED <<session, inUse, keys>>

(* A teardown that stalls is cut off when its grace is over.               *)
Teardown ==
    /\ socket \in {"half", "fin"}
    /\ closing # "grace"
    /\ closing' = "none" /\ Aborted
    /\ UNCHANGED <<session, inUse, keys>>

PollListener ==
    /\ active /\ session = {}
    /\ Listen \/ Accept \/ Teardown
    /\ UNCHANGED active

-----------------------------------------------------------------------------
(* A round of the session.                                                 *)

(* handle_event.  "hello" is every packet that changes nothing: the key    *)
(* exchange, a refused login, a further channel, which is refused.         *)
Handled(s, m) ==
    CASE m = "login" -> [s EXCEPT !.authenticated = TRUE]
      [] m = "open"  -> [s EXCEPT !.channel = TRUE]
      [] m = "shell" -> [s EXCEPT !.reply = TRUE]
      [] m = "exec"  -> [s EXCEPT !.closeAfterReply = TRUE, !.execPending = TRUE]
      [] m = "sftp"  -> [s EXCEPT !.sftp = TRUE]
      [] OTHER       -> s

(* channel_shell: run the command of an exec, take what the client typed,  *)
(* send as much of the reply as fits, close the channel after it.          *)
Ran(s) == IF s.execPending THEN [s EXCEPT !.execPending = FALSE, !.reply = TRUE] ELSE s

Typed(s, m) ==
    CASE s.channel /\ m = "line" -> [s EXCEPT !.reply = TRUE]
      [] s.channel /\ m = "exit" -> [s EXCEPT !.reply = TRUE, !.closeAfterReply = TRUE]
      [] s.channel /\ m = "eof"  -> [s EXCEPT !.closeAfterReply = TRUE]
      [] OTHER                   -> s

Sent(s) == IF s.channel /\ s.reply THEN {s, [s EXCEPT !.reply = FALSE]} ELSE {s}

(* MUTANT: the channel is closed whether or not its reply is sent. *)
WrongShellClosed(s) ==
    IF s.channel /\ s.closeAfterReply THEN [s EXCEPT !.channel = FALSE] ELSE s

ShellClosed(s) ==
    IF s.channel /\ s.closeAfterReply /\ ~s.reply THEN [s EXCEPT !.channel = FALSE] ELSE s

ChannelShell(s, m) == {ShellClosed(t) : t \in Sent(Typed(Ran(s), m))}

(* channel_sftp: the client's end of the subsystem closes the channel.     *)
ChannelSftp(s, m) ==
    {IF s.channel /\ m = "eof" THEN [s EXCEPT !.sftp = FALSE, !.channel = FALSE] ELSE s}

Moved(s, m) == IF s.sftp THEN ChannelSftp(s, m) ELSE ChannelShell(s, m)

(* What the client sees of a round in which it was heard to say m: a       *)
(* channel is opened, or it is closed.                                     *)
ClientSees(s, t, m) ==
    LET opened == m = "open" /\ t.channel
        closed == (s.channel \/ m = "open") /\ ~t.channel
        done   == client.ended \/ (client.kind = "exec" /\ ~t.reply /\ ~t.execPending)
    IN  client' = IF opened THEN [client EXCEPT !.kind = "idle"]
                  ELSE IF closed THEN [client EXCEPT !.kind = "none", !.cut = @ \/ ~done]
                  ELSE client

(* MUTANT: there is no time-out for the login. *)
WrongExpired(s) == s.idle

(* Looked at when a poll begins: a time that runs out during a poll counts *)
(* as running out after it.                                                *)
Expired(s) == (s.late /\ ~s.authenticated) \/ s.idle

(* The session is over: FIN rather than RST.                               *)
End ==
    /\ Dropped /\ closing' = "grace"
    /\ socket' = IF socket = "closed" THEN "closed" ELSE "fin"
    /\ inbox' = <<>> /\ client' = NoClient
    /\ UNCHANGED <<active, gone, keys>>

(* A round that ends the session: a time-out, a protocol error, or a       *)
(* connection that the client has closed and of which everything is read.  *)
EndRound(s) ==
    /\ \/ Expired(s)
       \/ socket # "established" /\ inbox = <<>>
       \/ inbox # <<>> /\ Head(inbox) = "junk"
    /\ End

MoveRound(s) ==
    LET m == IF inbox = <<>> THEN "none" ELSE Head(inbox)
    IN  /\ ~Expired(s) /\ m # "junk"
        /\ socket = "established" \/ inbox # <<>>
        /\ inbox' = IF inbox = <<>> THEN inbox ELSE Tail(inbox)
        /\ \E t \in Moved(Handled(s, m), m) : session' = {t} /\ ClientSees(s, t, m)
        /\ UNCHANGED <<active, socket, inUse, closing, gone, keys>>

PollSession ==
    /\ active
    /\ \E s \in session : EndRound(s) \/ MoveRound(s)

-----------------------------------------------------------------------------
(* The client and the network.                                             *)

Connect ==
    /\ socket = "listen"
    /\ socket' = "established"
    /\ UNCHANGED <<inbox, client, gone, server, keys>>

LoggedIn == \E s \in session : s.authenticated

(* What a client may say next: opening, using and ending one channel at a  *)
(* time.                                                                   *)
MaySay(m) ==
    CASE m \in {"hello", "junk"}          -> TRUE
      [] m = "login"                      -> ~LoggedIn
      [] m = "open"                       -> /\ LoggedIn /\ client.kind = "none"
                                             /\ client.opens < MaxChannels
      [] m \in {"shell", "exec", "sftp"} -> client.kind = "idle"
      [] m \in {"line", "exit"}           -> client.kind = "shell" /\ ~client.ended
      [] m = "eof"                        -> /\ client.kind \in {"shell", "exec", "sftp"}
                                             /\ ~client.ended

AfterSaying(m) ==
    CASE m = "open"                       ->
            [client EXCEPT !.kind = "opening", !.opens = @ + 1, !.ended = FALSE]
      [] m \in {"shell", "exec", "sftp"} -> [client EXCEPT !.kind = m]
      [] m \in {"exit", "eof"}            -> [client EXCEPT !.ended = TRUE]
      [] OTHER                            -> client

Says(m) ==
    /\ socket = "established" /\ ~gone /\ Len(inbox) < MaxInbox
    /\ MaySay(m)
    /\ inbox' = Append(inbox, m) /\ client' = AfterSaying(m)
    /\ UNCHANGED <<socket, gone, server, keys>>

(* The client closes its side, or resets the connection (as the time-out   *)
(* of the socket itself does); it waits for nothing any more.              *)
Leaves ==
    /\ socket = "established"
    /\ \/ ~gone /\ socket' = "half"
       \/ socket' = "closed"
    /\ client' = [client EXCEPT !.ended = TRUE]
    /\ UNCHANGED <<inbox, gone, server, keys>>

(* Wi-Fi or the client goes down without a word.                           *)
Vanishes ==
    /\ socket \in {"established", "half", "fin"} /\ ~gone
    /\ gone' = TRUE
    /\ UNCHANGED <<socket, inbox, client, server, keys>>

(* The client takes part in the teardown.                                  *)
Torn ==
    /\ socket = "fin" /\ ~gone
    /\ socket' = "closed"
    /\ UNCHANGED <<inbox, client, gone, server, keys>>

-----------------------------------------------------------------------------
(* Time, and power.                                                        *)

AuthExpires ==
    /\ \E s \in session : ~s.late /\ session' = {[s EXCEPT !.late = TRUE]}
    /\ UNCHANGED <<network, active, inUse, closing, keys>>

Quiet ==
    /\ inbox = <<>>
    /\ \E s \in session : ~s.idle /\ session' = {[s EXCEPT !.idle = TRUE]}
    /\ UNCHANGED <<network, active, inUse, closing, keys>>

GraceEnds ==
    /\ closing = "grace"
    /\ closing' = "over"
    /\ UNCHANGED <<network, active, session, inUse, keys>>

(* Power loss or a reset: what is on the card stays.                       *)
Reboot ==
    /\ Aborted /\ Loaded
    /\ active' = FALSE /\ session' = {} /\ inUse' = FALSE /\ closing' = "none"
    /\ unsaved' = {} /\ deleted' = FALSE
    /\ UNCHANGED <<file, shown>>

-----------------------------------------------------------------------------
Next ==
    \/ Start \/ Stop \/ EnsureHostkey \/ DeleteFile
    \/ PollListener \/ PollSession
    \/ Connect \/ (\E m \in Messages : Says(m)) \/ Leaves \/ Vanishes \/ Torn
    \/ AuthExpires \/ Quiet \/ GraceEnds
    \/ Reboot

Spec == Init /\ [][Next]_vars

(* The main loop polls in every pass, and time passes.  Nothing is assumed *)
(* of the client, and of the user only that a deletion or a reboot is his. *)
FairSpec ==
    /\ Spec
    /\ WF_vars(PollListener) /\ WF_vars(PollSession)
    /\ WF_vars(AuthExpires) /\ WF_vars(gone /\ Quiet) /\ WF_vars(GraceEnds)

-----------------------------------------------------------------------------
Sessions ==
    [authenticated : BOOLEAN, channel : BOOLEAN, closeAfterReply : BOOLEAN,
     execPending : BOOLEAN, reply : BOOLEAN, sftp : BOOLEAN, late : BOOLEAN, idle : BOOLEAN]
Clients == [kind : Kinds, ended : BOOLEAN, opens : 0 .. MaxChannels, cut : BOOLEAN]

NetworkOK ==
    /\ socket \in Sockets /\ gone \in BOOLEAN
    /\ inbox \in Seq(Messages) /\ Len(inbox) <= MaxInbox
    /\ client \in Clients
ServerOK ==
    /\ active \in BOOLEAN /\ inUse \in BOOLEAN
    /\ session = {} \/ \E s \in Sessions : session = {s}
    /\ closing \in {"none", "grace", "over"}
KeysOK ==
    /\ {hostkey, unsaved, file, shown} \subseteq {{}} \cup {{k} : k \in Keys}
    /\ deleted \in BOOLEAN /\ unread \in BOOLEAN

(* Every variable keeps its shape: there is at most one session and one    *)
(* key in each place (SshServer, Session).                                 *)
TypeOK == NetworkOK /\ ServerOK /\ KeysOK

(* The static packet buffers belong to exactly one session: they are taken *)
(* exactly while there is one, however it ended (time-out, protocol error, *)
(* closed connection, screen closed), or no client would ever be let in.   *)
BuffersHaveOneOwner == inUse <=> session # {}

(* The first channel of a connection is closed by the server only after    *)
(* the client has ended it, or the whole reply to its command went out     *)
(* (close_after_reply).  Of a later one it does not hold: the flag stays   *)
(* set, and the channel is closed as soon as it is open.                   *)
ClosedAfterReply == client.cut => client.opens > 1

(* A key that the server takes for saved is the key in the file, unless    *)
(* the user deleted it: unsaved_seed is kept through every failing write.  *)
SavedKeyIsOnCard == hostkey # {} /\ unsaved = {} => file = hostkey \/ deleted

(* Clients see another host key only if the last one was not on the card   *)
(* (it was deleted, or never written), or the card did not give it back.   *)
KeyIsKept == [][shown' # shown /\ shown # {} => file # shown \/ unread]_vars

(* A client that does not log in is dropped, whatever it sends: the limit  *)
(* counts from the connection and is not put off by traffic.               *)
UnauthenticatedEnds == (session # {} /\ ~LoggedIn) ~> (session = {} \/ LoggedIn)

(* After a client vanishes without a word, at any point of the connection  *)
(* or of its teardown, the server listens again while the screen stays     *)
(* open.                                                                   *)
ListensAgain == gone ~> (socket = "listen" \/ ~active)

=============================================================================
