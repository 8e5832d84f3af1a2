------------------------------ MODULE MainLoop ------------------------------
(***************************************************************************)
(* The main loop of the firmware (main in src/src/main.rs) with the key    *)
(* callback of its screens (src/ui/ratputer.slint): who owns the SD card,  *)
(* and who owns the radio.                                                 *)
(*                                                                         *)
(* There is one thread.  A pass of the loop goes through its stages in     *)
(* order: keys, screens, radio, job, wifi, auto, usb, ssh, network, serve; *)
(* `stage` is the next one.  Every key pressed since the last pass is      *)
(* handled in the keys stage, so several keys may act on one pass; a key   *)
(* only writes the screen and a command slot (wifi-action, usb-disk-action,*)
(* ssh-action) that a later stage reads and clears.  What the SD card, the *)
(* USB host, the SSH client and the access points do is chosen in the      *)
(* stage that observes it.                                                 *)
(*                                                                         *)
(* The definitions named Wrong... are mutants: each is what the definition *)
(* that follows it would be with one plausible bug.  Nothing uses them.    *)
(*                                                                         *)
(* Selections in lists and menus are arbitrary at the moment they are used,*)
(* which stands for the keys that move them.                               *)
(***************************************************************************)
EXTENDS Integers, Sequences, SequencesExt

CONSTANTS
    Ssids,            \* the networks in range
    Open,             \* those that need no password
    MaxSaved,         \* MAX_SAVED_NETWORKS
    MaxPasses,        \* MAX_AUTO_PASSES
    ConnectAttempts,  \* CONNECT_ATTEMPTS
    ScanPasses,       \* SCAN_PASSES
    Opens,            \* the menu entries the user opens
    HasCard,          \* a card is mounted at boot
    Faults            \* what may fail after USB: "mount", "load"

Items == {"rat", "wifi", "usb", "ssh", "files", "about"}

ASSUME LoopAssumption ==
    /\ Open \subseteq Ssids
    /\ {MaxSaved, MaxPasses, ConnectAttempts, ScanPasses} \subseteq Nat \ {0}
    /\ Opens \subseteq Items
    /\ HasCard \in BOOLEAN
    /\ Faults \subseteq {"mount", "load"}

VARIABLES
    stage,       \* the next stage of the pass
    splash,      \* the splash screen is up
    view,        \* view-state
    usbAction,   \* usb-disk-action
    sshAction,   \* ssh-action
    wifiAction,  \* wifi-action
    choice,      \* wifi-action-index
    storage,     \* storage.is_some(): the FAT volume is mounted
    exported,    \* usb_sd.is_some(): the raw card is with UsbDisk
    armed,       \* usb_force_exit_armed
    host,        \* UsbDisk::state
    fm,          \* file_manager
    ssh,         \* ssh_server: "off", "on", or "holding" files of the card
    saved,       \* wifi_config.networks
    scan,        \* scan_networks, whose order does not matter
    typed,       \* wifi-selected-ssid, the network a password is typed for
    radio,       \* radio_pending
    job,         \* auto_job: the network it connects to
    due,         \* auto_connect_at: "never", in the future ("later"), or "now"
    index,       \* auto_next_index
    pass,        \* auto_pass
    assoc,       \* the radio is associated
    link         \* what the network stack and link_was_up know of that

screenVars == <<splash, view, usbAction, sshAction>>
wifiSlot   == <<wifiAction, choice>>
cardVars   == <<storage, exported, armed, host>>
autoVars   == <<due, index, pass>>
radioVars  == <<scan, typed, radio, job, assoc, link>>
vars == <<stage, screenVars, wifiSlot, cardVars, fm, ssh, saved, autoVars, radioVars>>

Views == Items \cup {"menu", "saved", "scan", "password", "editor"}
UsbActions  == {"none", "attach", "detach"}
SshActions  == {"none", "start", "stop", "edit", "save", "cancel"}
WifiActions == {"none", "scan", "connect_saved", "select", "connect_typed", "forget"}
Stages == {"keys", "screens", "radio", "job", "wifi", "auto", "usb", "ssh", "network",
           "serve"}

None == [step |-> "none"]
Scan(n) == [step |-> "scan", pass |-> n]
Connect(ssid, n) == [step |-> "connect", ssid |-> ssid, attempt |-> n]

RadioStep ==
    {None} \cup {Scan(n) : n \in 1 .. ScanPasses}
    \cup {Connect(s, n) : s \in Ssids, n \in 1 .. ConnectAttempts}

(* An Option: <<>> for None, <<x>> for Some(x).                            *)
Option(S) == {<<>>} \cup {<<x>> : x \in S}

(* What wifi.cfg may hold: a file the user or the host has written may name*)
(* a network twice, and validate only cuts it to MAX_SAVED_NETWORKS.       *)
SavedLists == UNION {[1 .. k -> Ssids] : k \in 0 .. MaxSaved}

(* `networks.len().saturating_sub(1)`: the newest network of a list.       *)
Newest(list) == IF list = <<>> THEN 0 ELSE Len(list) - 1

-----------------------------------------------------------------------------
Init ==
    /\ stage = "keys" /\ splash = TRUE /\ view = "menu"
    /\ usbAction = "none" /\ sshAction = "none"
    /\ wifiAction = "none" /\ choice = 1
    /\ storage = HasCard /\ exported = FALSE /\ armed = FALSE /\ host = "inactive"
    /\ fm = "none" /\ ssh = "off"
    /\ saved \in IF HasCard THEN SavedLists ELSE {<<>>}
    /\ scan = {} /\ typed = <<>> /\ radio = None /\ job = <<>>
    /\ due = IF saved = <<>> THEN "never" ELSE "later"
    /\ index = Newest(saved) /\ pass = 1
    /\ assoc = FALSE /\ link = FALSE

At(s) == stage = s
Then(s) == stage' = s

-----------------------------------------------------------------------------
(* Time and keys                                                           *)

SplashEnds ==
    /\ At("keys") /\ splash
    /\ splash' = FALSE
    /\ UNCHANGED <<stage, view, usbAction, sshAction, wifiSlot, cardVars, fm, ssh, saved,
                   autoVars, radioVars>>

DueComes ==
    /\ At("keys") /\ ~splash /\ due = "later"
    /\ due' = "now"
    /\ UNCHANGED <<stage, screenVars, wifiSlot, cardVars, fm, ssh, saved, index, pass,
                   radioVars>>

(* Input is discarded behind the splash and while the radio is busy.       *)
Listening == At("keys") /\ ~splash /\ radio = None

KeyFrame == UNCHANGED <<stage, splash, cardVars, ssh, saved, autoVars, radioVars>>

Show(v) == view' = v /\ UNCHANGED <<usbAction, sshAction, wifiSlot, fm>>
Usb(a)  == usbAction' = a /\ UNCHANGED <<sshAction, wifiSlot, fm>>
Ssh(a)  == sshAction' = a /\ UNCHANGED <<usbAction, wifiSlot, fm>>
Wifi(a, i) ==
    /\ wifiAction' = a /\ choice' = i
    /\ UNCHANGED <<usbAction, sshAction, fm>>

(* Escape, or Backspace outside the text fields.                           *)
KeyBack ==
    /\ Listening /\ view # "files"
    /\ \/ view = "password" /\ Show("scan")
       \/ view \in {"saved", "scan"} /\ Show("wifi")
       \/ view = "usb" /\ Usb("detach") /\ UNCHANGED view
       \/ view = "ssh" /\ Ssh("stop") /\ view' = "menu"
       \/ view = "editor" /\ Ssh("cancel") /\ UNCHANGED view
       \/ view \in {"rat", "wifi", "about"} /\ Show("menu")
    /\ KeyFrame

(* Enter or Space                                                          *)
KeyEnter ==
    /\ Listening /\ view # "files"
    /\ \/ /\ view = "menu"
          /\ \E item \in Opens :
                /\ view' = item
                /\ CASE item = "usb" -> Usb("attach")
                     [] item = "ssh" -> Ssh("start")
                     [] OTHER -> UNCHANGED <<usbAction, sshAction, wifiSlot, fm>>
       \/ view \in {"rat", "about"} /\ Show("menu")
       \/ view = "usb" /\ Usb("detach") /\ UNCHANGED view
       \/ view = "ssh" /\ Ssh("stop") /\ view' = "menu"
       \/ view = "editor" /\ Ssh("save") /\ UNCHANGED view
       \/ view = "wifi" /\ Show("saved")
       \/ view = "wifi" /\ Wifi("scan", choice) /\ view' = "scan"
       \/ view = "saved" /\ UNCHANGED view
          /\ \E i \in DOMAIN saved : Wifi("connect_saved", i)
       \/ view = "scan" /\ UNCHANGED view
          /\ scan # {} /\ Wifi("select", choice)
       \/ view = "password" /\ Wifi("connect_typed", choice) /\ UNCHANGED view
    /\ KeyFrame

KeyDelete ==
    /\ Listening /\ view = "saved"
    /\ \E i \in DOMAIN saved : Wifi("forget", i)
    /\ UNCHANGED view
    /\ KeyFrame

KeyTab ==
    /\ Listening /\ view = "ssh"
    /\ Ssh("edit") /\ view' = "editor"
    /\ KeyFrame

(* FileManager::key; while it copies it ignores every key.                 *)
KeyFiles ==
    /\ Listening /\ view = "files" /\ fm = "open" /\ storage
    /\ \/ fm' = "copying" /\ UNCHANGED view
       \/ view' = "menu" /\ UNCHANGED fm
    /\ UNCHANGED <<usbAction, sshAction, wifiSlot>>
    /\ KeyFrame

EndKeys ==
    /\ At("keys") /\ Then("screens")
    /\ UNCHANGED <<screenVars, wifiSlot, cardVars, fm, ssh, saved, autoVars, radioVars>>

-----------------------------------------------------------------------------
(* Screens: SSH stops before any other feature can have the card, and the  *)
(* file manager lives as long as its screen.                               *)

WrongStillServing == ssh

StillServing == IF view = "ssh" THEN ssh ELSE "off"

Screens ==
    /\ At("screens") /\ Then("radio")
    /\ ssh' = StillServing
    /\ IF view # "files" THEN fm' = "none" /\ UNCHANGED view
       ELSE IF fm = "none" /\ ~storage THEN view' = "menu" /\ UNCHANGED fm
       ELSE /\ fm' \in IF fm = "copying" /\ storage THEN {"copying", "open"}
                       ELSE IF fm = "none" THEN {"open"} ELSE {fm}
            /\ UNCHANGED view
    /\ UNCHANGED <<splash, usbAction, sshAction, wifiSlot, cardVars, saved, autoVars,
                   radioVars>>

-----------------------------------------------------------------------------
(* Radio: one blocking step of a scan or of a manual connection.           *)

WrongAfterScanPass(n) == IF n < ScanPasses THEN Scan(n) ELSE None

AfterScanPass(n) == IF n < ScanPasses THEN Scan(n + 1) ELSE None

(* merge_scan_results keeps what earlier passes found.                     *)
ScanPass ==
    /\ At("radio") /\ radio.step = "scan" /\ Then("job")
    /\ \/ /\ \E found \in SUBSET Ssids : scan' = scan \cup found
          /\ radio' = AfterScanPass(radio.pass)
       \/ UNCHANGED scan /\ radio' = None
    /\ UNCHANGED <<screenVars, wifiSlot, cardVars, fm, ssh, saved, autoVars, typed, job,
                   assoc, link>>

WrongUpsert(list, ssid) ==
    IF Contains(list, ssid) THEN list
    ELSE IF Len(list) > MaxSaved THEN Append(Tail(list), ssid)
    ELSE Append(list, ssid)

(* `iter().position(...)`                                                  *)
Position(list, ssid) ==
    CHOOSE i \in DOMAIN list : list[i] = ssid /\ \A j \in 1 .. i - 1 : list[j] # ssid

(* WifiConfig::upsert: replaces, or appends and evicts the oldest.         *)
Upsert(list, ssid) ==
    IF Contains(list, ssid) THEN list
    ELSE IF Len(list) = MaxSaved THEN Append(Tail(list), ssid)
    ELSE Append(list, ssid)

ConnectSucceeds ==
    /\ At("radio") /\ radio.step = "connect" /\ Then("job")
    /\ saved' = Upsert(saved, radio.ssid)
    /\ index' = Position(saved', radio.ssid) - 1
    /\ due' = "never"
    /\ view' = IF view = "password" THEN "wifi" ELSE view
    /\ radio' = None /\ assoc' = TRUE
    /\ UNCHANGED <<splash, usbAction, sshAction, wifiSlot, cardVars, fm, ssh, pass, scan,
                   typed, job, link>>

ConnectFails ==
    /\ At("radio") /\ radio.step = "connect" /\ Then("job")
    /\ radio' = IF radio.attempt < ConnectAttempts
                THEN Connect(radio.ssid, radio.attempt + 1) ELSE None
    /\ assoc' = FALSE
    /\ UNCHANGED <<screenVars, wifiSlot, cardVars, fm, ssh, saved, autoVars, scan, typed,
                   job, link>>

NoRadioStep ==
    /\ At("radio") /\ radio = None /\ Then("job")
    /\ UNCHANGED <<screenVars, wifiSlot, cardVars, fm, ssh, saved, autoVars, radioVars>>

-----------------------------------------------------------------------------
(* Job: the automatic connection, a future that owns the WifiManager       *)
(* (`wifi` is None) until it is done.                                      *)

WrongRetrySavedNetwork(count) ==
    \/ count = 0 /\ due' = "never" /\ UNCHANGED <<index, pass>>
    \/ count # 0 /\ index > 0 /\ index' = index - 1 /\ due' = "later" /\ UNCHANGED pass
    \/ count # 0 /\ index = 0 /\ pass < MaxPasses
       /\ index' = count - 1 /\ due' = "later" /\ UNCHANGED pass
    \/ count # 0 /\ index = 0 /\ pass >= MaxPasses
       /\ due' = "never" /\ UNCHANGED <<index, pass>>

(* retry_saved_network: the next older network, or the next pass, or       *)
(* nothing more.                                                           *)
RetrySavedNetwork(count) ==
    \/ count = 0 /\ due' = "never" /\ UNCHANGED <<index, pass>>
    \/ count # 0 /\ index > 0 /\ index' = index - 1 /\ due' = "later" /\ UNCHANGED pass
    \/ count # 0 /\ index = 0 /\ pass < MaxPasses
       /\ pass' = pass + 1 /\ index' = count - 1 /\ due' = "later"
    \/ count # 0 /\ index = 0 /\ pass >= MaxPasses
       /\ due' = "never" /\ UNCHANGED <<index, pass>>

JobFrame ==
    UNCHANGED <<screenVars, wifiSlot, cardVars, fm, ssh, saved, scan, typed, radio, link>>

JobConnects ==
    /\ At("job") /\ job # <<>> /\ Then("wifi")
    /\ job' = <<>> /\ assoc' = TRUE
    /\ due' = "never" /\ pass' = 1 /\ UNCHANGED index
    /\ JobFrame

WrongJobFails ==
    /\ At("job") /\ job # <<>> /\ Then("wifi")
    /\ assoc' = FALSE
    /\ RetrySavedNetwork(Len(saved))
    /\ UNCHANGED job /\ JobFrame

JobFails ==
    /\ At("job") /\ job # <<>> /\ Then("wifi")
    /\ job' = <<>> /\ assoc' = FALSE
    /\ RetrySavedNetwork(Len(saved))
    /\ JobFrame

JobPending ==
    /\ At("job") /\ Then("wifi")
    /\ UNCHANGED <<job, assoc, autoVars>>
    /\ JobFrame

-----------------------------------------------------------------------------
(* Wifi: the command of the user.                                          *)

(* A command waits for the automatic job only on the screen it came from.  *)
Waits ==
    \/ wifiAction \in {"scan", "select"} /\ view = "scan"
    \/ wifiAction \in {"connect_saved", "forget"} /\ view = "saved"
    \/ wifiAction = "connect_typed" /\ view = "password"

WifiQueued ==
    /\ At("wifi") /\ wifiAction # "none" /\ job # <<>> /\ Then("usb")
    /\ due' = "never"
    /\ wifiAction' = IF Waits THEN wifiAction ELSE "none"
    /\ UNCHANGED <<screenVars, choice, cardVars, fm, ssh, saved, index, pass, radioVars>>

(* begin_connect; configure() may refuse the credentials, and disconnects. *)
BeginConnect(ssid) ==
    \/ radio' = Connect(ssid, 1) /\ assoc' = FALSE /\ typed' = <<ssid>>
    \/ radio' = None /\ assoc' \in {assoc, FALSE} /\ UNCHANGED typed

WrongWifiCommand(a) ==
    /\ At("wifi") /\ wifiAction = a /\ Then("usb")
    /\ due' = "never" /\ wifiAction' = "none"
    /\ UNCHANGED <<splash, usbAction, sshAction, choice, cardVars, fm, ssh, pass, job, link>>

(* What every command of the user does first.  Its arms are guarded by     *)
(* radio = None, which RadioHasOneOwner shows to hold here.                *)
WifiCommand(a) ==
    /\ At("wifi") /\ wifiAction = a /\ job = <<>> /\ Then("usb")
    /\ due' = "never" /\ wifiAction' = "none"
    /\ UNCHANGED <<splash, usbAction, sshAction, choice, cardVars, fm, ssh, pass, job, link>>

WifiScan ==
    /\ WifiCommand("scan")
    /\ scan' = {} /\ radio' = Scan(1)
    /\ UNCHANGED <<view, saved, index, typed, assoc>>

WifiConnectSaved ==
    /\ WifiCommand("connect_saved")
    /\ IF choice \in DOMAIN saved THEN BeginConnect(saved[choice])
                                  ELSE UNCHANGED <<radio, assoc, typed>>
    /\ UNCHANGED <<view, saved, index, scan>>

(* The firmware may not support the security of the network.               *)
WifiSelect ==
    /\ WifiCommand("select")
    /\ \/ \E ssid \in scan \cap Open : BeginConnect(ssid) /\ UNCHANGED view
       \/ /\ \E ssid \in scan \ Open : typed' = <<ssid>> /\ view' = "password"
          /\ UNCHANGED <<radio, assoc>>
       \/ UNCHANGED <<view, radio, assoc, typed>>
    /\ UNCHANGED <<saved, index, scan>>

WifiConnectTyped ==
    /\ WifiCommand("connect_typed")
    /\ \/ \E ssid \in scan : typed = <<ssid>> /\ BeginConnect(ssid)
       \/ /\ \A ssid \in scan : typed # <<ssid>>
          /\ UNCHANGED <<radio, assoc, typed>>
    /\ UNCHANGED <<view, saved, index, scan>>

WifiForget ==
    /\ WifiCommand("forget")
    /\ IF choice \in DOMAIN saved
       THEN saved' = RemoveAt(saved, choice) /\ index' = Newest(saved')
       ELSE UNCHANGED <<saved, index>>
    /\ UNCHANGED <<view, scan, radio, assoc, typed>>

NoWifiCommand ==
    /\ At("wifi") /\ wifiAction = "none" /\ Then("auto")
    /\ UNCHANGED <<screenVars, wifiSlot, cardVars, fm, ssh, saved, autoVars, radioVars>>

-----------------------------------------------------------------------------
(* Auto: start the next automatic connection.                              *)

MayStart ==
    /\ radio = None /\ job = <<>> /\ ~link /\ due = "now"
    /\ view \in {"menu", "rat", "about"} /\ ~exported

(* With no network at auto_next_index the cycle ends.                      *)
AutoStarts ==
    /\ At("auto") /\ MayStart /\ Then("usb")
    /\ job' = IF index + 1 \in DOMAIN saved THEN <<saved[index + 1]>> ELSE <<>>
    /\ due' = "never"
    /\ UNCHANGED <<screenVars, wifiSlot, cardVars, fm, ssh, saved, index, pass, scan, typed,
                   radio, assoc, link>>

AutoIdle ==
    /\ At("auto") /\ ~MayStart /\ Then("usb")
    /\ UNCHANGED <<screenVars, wifiSlot, cardVars, fm, ssh, saved, autoVars, radioVars>>

-----------------------------------------------------------------------------
(* Usb: UsbDisk::poll first, so that an eject is observed; then the action.*)
(* How the host gets there is in MscClass; here it only matters what       *)
(* UsbDisk::state and can_detach return.                                   *)

HostStates == IF exported THEN {"waiting", "mounted", "ejected"} ELSE {host}

UsbFrame ==
    /\ Then("ssh") /\ usbAction' = "none"
    /\ UNCHANGED <<splash, sshAction, wifiSlot, fm, ssh, pass, radioVars>>

(* UsbDisk::attach only fails before its first use has been set up.        *)
UsbAttach ==
    /\ At("usb") /\ usbAction = "attach" /\ ~exported /\ storage /\ ssh # "holding"
    /\ storage' = FALSE /\ exported' = TRUE /\ armed' = FALSE /\ host' = "waiting"
    /\ UsbFrame /\ UNCHANGED <<view, saved, due, index>>

(* storage::load of what the host has left on the card; the list stays as  *)
(* it is when that fails.  `wifi.is_some()` is job = None.                 *)
Reload ==
    \/ /\ storage' /\ saved' \in SavedLists
       /\ IF saved' = <<>> THEN due' = "never" /\ UNCHANGED index
          ELSE IF job = <<>> THEN index' = Newest(saved') /\ UNCHANGED due
          ELSE UNCHANGED <<due, index>>
    \/ /\ ~storage' \/ "load" \in Faults
       /\ UNCHANGED <<saved, index>>
       /\ due' = IF saved = <<>> THEN "never" ELSE due

(* The raw card is dropped when it cannot be mounted again.                *)
UsbDetach ==
    /\ At("usb") /\ usbAction = "detach" /\ exported
    /\ \E h \in HostStates :
        IF h # "mounted" \/ armed
        THEN /\ storage' \in {TRUE, "mount" \notin Faults}
             /\ exported' = FALSE /\ armed' = FALSE /\ host' = "inactive"
             /\ Reload /\ view' = "menu"
        ELSE /\ armed' = TRUE /\ host' = h
             /\ UNCHANGED <<storage, exported, view, saved, due, index>>
    /\ UsbFrame

UsbIdle ==
    /\ At("usb")
    /\ \/ usbAction = "none"
       \/ usbAction = "attach" /\ (exported \/ ~storage \/ ssh = "holding")
       \/ usbAction = "detach" /\ ~exported
    /\ host' \in HostStates
    /\ UsbFrame /\ UNCHANGED <<view, storage, exported, armed, saved, due, index>>

-----------------------------------------------------------------------------
(* Ssh: the command of the SSH screens.                                    *)

SshFrame ==
    /\ At("ssh") /\ Then("network") /\ sshAction' = "none"
    /\ UNCHANGED <<splash, usbAction, wifiSlot, cardVars, fm, saved, autoVars, radioVars>>

(* start_ssh does nothing without the card; a session stays as it is.      *)
Started == IF storage /\ ssh = "off" THEN "on" ELSE ssh

SshCommand ==
    /\ SshFrame
    /\ \/ sshAction = "none" /\ UNCHANGED <<ssh, view>>
       \/ sshAction = "start" /\ ssh' = Started /\ UNCHANGED view
       \/ sshAction \in {"stop", "edit"} /\ ssh' = "off" /\ UNCHANGED view
       \/ sshAction = "cancel" /\ ssh' = Started /\ view' = "ssh"
       \/ sshAction = "save" /\ storage /\ ssh' = Started /\ view' = "ssh"
       \/ sshAction = "save" /\ UNCHANGED <<ssh, view>>

-----------------------------------------------------------------------------
(* Network: the stack learns of the association, which the access point    *)
(* may have ended.  A loss the radio stage is in the middle of is ignored. *)

Network ==
    /\ At("network") /\ Then("serve")
    /\ link' \in {assoc, FALSE} /\ assoc' = link'
    /\ IF link /\ ~link' /\ radio = None /\ saved # <<>>
       THEN index' = Newest(saved) /\ pass' = 1 /\ due' = "later"
       ELSE UNCHANGED autoVars
    /\ UNCHANGED <<screenVars, wifiSlot, cardVars, fm, ssh, saved, scan, typed, radio, job>>

(* SshServer::poll: the client opens and closes files.                     *)
Serve ==
    /\ At("serve") /\ Then("keys")
    /\ ssh' \in IF ssh = "off" THEN {"off"} ELSE {"on", "holding"}
    /\ UNCHANGED <<screenVars, wifiSlot, cardVars, fm, saved, autoVars, radioVars>>

-----------------------------------------------------------------------------
Environment == SplashEnds \/ DueComes
Keys == KeyBack \/ KeyEnter \/ KeyDelete \/ KeyTab \/ KeyFiles
RadioStage == ScanPass \/ ConnectSucceeds \/ ConnectFails \/ NoRadioStep
JobStage == JobConnects \/ JobFails \/ JobPending
WifiStage ==
    \/ WifiQueued \/ WifiScan \/ WifiConnectSaved \/ WifiSelect \/ WifiConnectTyped
    \/ WifiForget \/ NoWifiCommand
AutoStage == AutoStarts \/ AutoIdle
UsbStage == UsbAttach \/ UsbDetach \/ UsbIdle

Stage ==
    \/ EndKeys \/ Screens \/ RadioStage \/ JobStage \/ WifiStage \/ AutoStage \/ UsbStage
    \/ SshCommand \/ Network \/ Serve

Next == Environment \/ Keys \/ Stage

Spec == Init /\ [][Next]_vars

(* The loop never blocks for good, the splash and every delay end, and the *)
(* automatic job does, since each of its awaits has a timeout.             *)
Fairness ==
    /\ WF_vars(Stage)
    /\ SF_vars(SplashEnds)
    /\ SF_vars(DueComes)
    /\ SF_vars(JobConnects \/ JobFails)

FairSpec == Spec /\ Fairness

-----------------------------------------------------------------------------
(* Properties                                                              *)

TypeOK ==
    /\ stage \in Stages /\ splash \in BOOLEAN /\ view \in Views
    /\ usbAction \in UsbActions /\ sshAction \in SshActions
    /\ wifiAction \in WifiActions /\ choice \in Nat \ {0}
    /\ storage \in BOOLEAN /\ exported \in BOOLEAN /\ armed \in BOOLEAN
    /\ host \in {"inactive", "waiting", "mounted", "ejected"}
    /\ fm \in {"none", "open", "copying"} /\ ssh \in {"off", "on", "holding"}
    /\ saved \in SavedLists /\ scan \subseteq Ssids
    /\ typed \in Option(Ssids) /\ radio \in RadioStep /\ job \in Option(Ssids)
    /\ due \in {"never", "later", "now"} /\ index \in Nat /\ pass \in 1 .. MaxPasses
    /\ assoc \in BOOLEAN /\ link \in BOOLEAN

(* "Only one side owns the card at a time" (README): while the host has it *)
(* there is no mounted volume, no file manager and no SSH server; those    *)
(* two need the volume, and never run together.                            *)
OneOwner ==
    /\ exported => ~storage /\ fm = "none" /\ ssh = "off"
    /\ fm # "none" => storage /\ ssh = "off"
    /\ ssh # "off" => storage

(* The radio has one owner: a step of the user's command never runs while  *)
(* the automatic job has the WifiManager, so the `None` branches of the    *)
(* radio step, which leave the busy overlay up, are never taken; and no    *)
(* command waits behind a step, so none is cleared without being obeyed.   *)
RadioHasOneOwner == radio # None => job = <<>> /\ wifiAction = "none"

(* While a radio step is pending every key is discarded, so it must end.   *)
KeyboardComesBack == radio # None ~> radio = None

(* A command queued behind the automatic job is carried out or dropped.    *)
ManualIsAnswered == wifiAction # "none" ~> wifiAction = "none"

(* The automatic cycle ends (README: at most three full passes), unless    *)
(* the user keeps away from the screens it needs.                          *)
AutoCycleEnds ==
    []<>(due = "never" /\ job = <<>>) \/ []<>(view \notin {"menu", "rat", "about"})

(* "On link loss, it starts a fresh three-pass cycle" (README), whatever   *)
(* the loop is doing, but for a connection the user is making himself.     *)
LinkLossStartsCycle ==
    [][link /\ ~link' /\ saved # <<>> /\ radio.step # "connect" => due' # "never"]_vars
=============================================================================
