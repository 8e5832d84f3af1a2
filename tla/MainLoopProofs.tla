--------------------------- MODULE MainLoopProofs ---------------------------
(***************************************************************************)
(* Proofs about MainLoop, for every set of networks, every length of       *)
(* wifi.cfg, any number of passes and attempts, whatever the user opens    *)
(* and whatever the card does.                                             *)
(*                                                                         *)
(* RadioHasOneOwner is inductive.  OneOwner is not: the card changes hands *)
(* two stages after the screen has been looked at, on the word of a        *)
(* command slot, and CommandsFollowScreens says what such a command still  *)
(* guarantees when its stage comes.                                        *)
(***************************************************************************)
EXTENDS MainLoop, SequenceTheorems, WellFoundedInduction, TLAPS

USE LoopAssumption

-----------------------------------------------------------------------------
(* The saved networks                                                      *)

LEMMA SavedListsAre == SavedLists = {list \in Seq(Ssids) : Len(list) <= MaxSaved}
  <1>1. ASSUME NEW list \in SavedLists PROVE list \in Seq(Ssids) /\ Len(list) <= MaxSaved
    <2>1. PICK k \in 0 .. MaxSaved : list \in [1 .. k -> Ssids]
      BY DEF SavedLists
    <2>2. list \in Seq(Ssids)
      BY <2>1, SeqDef
    <2>3. Len(list) = k
      BY <2>1, <2>2, LenProperties
    <2> QED
      BY <2>2, <2>3
  <1>2. ASSUME NEW list \in Seq(Ssids), Len(list) <= MaxSaved PROVE list \in SavedLists
    <2>1. Len(list) \in 0 .. MaxSaved /\ list \in [1 .. Len(list) -> Ssids]
      BY <1>2, LenProperties
    <2> QED
      BY <2>1 DEF SavedLists
  <1> QED
    BY <1>1, <1>2

(* A network of a list stays in range when the list is indexed.            *)
LEMMA ListElement ==
    ASSUME NEW list \in SavedLists
    PROVE  /\ DOMAIN list = 1 .. Len(list) /\ Len(list) \in 0 .. MaxSaved
           /\ \A i \in DOMAIN list : list[i] \in Ssids
  BY SavedListsAre, LenProperties, ElementOfSeq

LEMMA NewestType == ASSUME NEW list \in SavedLists PROVE Newest(list) \in Nat
  BY SavedListsAre, EmptySeq DEF Newest

(* WifiConfig::upsert keeps the list within MAX_SAVED_NETWORKS, and what   *)
(* it was called for is in it.                                             *)
LEMMA UpsertType ==
    ASSUME NEW list \in SavedLists, NEW ssid \in Ssids
    PROVE  /\ Upsert(list, ssid) \in SavedLists
           /\ \E i \in DOMAIN Upsert(list, ssid) : Upsert(list, ssid)[i] = ssid
  <1>1. list \in Seq(Ssids) /\ Len(list) <= MaxSaved /\ Len(list) \in Nat
    BY SavedListsAre, LenProperties
  <1>2. CASE Contains(list, ssid)
    BY <1>1, <1>2, LenProperties DEF Upsert, Contains
  <1>3. CASE ~Contains(list, ssid)
    <2>1. ASSUME NEW rest \in Seq(Ssids), Len(rest) < MaxSaved,
                 Upsert(list, ssid) = Append(rest, ssid)
          PROVE  /\ Upsert(list, ssid) \in SavedLists
                 /\ \E i \in DOMAIN Upsert(list, ssid) : Upsert(list, ssid)[i] = ssid
      <3>1. /\ Append(rest, ssid) \in Seq(Ssids)
            /\ Len(Append(rest, ssid)) = Len(rest) + 1
            /\ Append(rest, ssid)[Len(rest) + 1] = ssid
        BY <2>1, AppendProperties
      <3>2. Len(rest) \in Nat /\ DOMAIN Append(rest, ssid) = 1 .. Len(rest) + 1
        BY <3>1, LenProperties
      <3> QED
        BY <2>1, <3>1, <3>2, SavedListsAre
    <2>2. CASE Len(list) = MaxSaved
      <3>1. list # <<>>
        BY <1>1, <2>2, EmptySeq
      <3>2. Tail(list) \in Seq(Ssids) /\ Len(Tail(list)) = Len(list) - 1
        BY <1>1, <3>1, HeadTailProperties
      <3>3. Upsert(list, ssid) = Append(Tail(list), ssid)
        BY <1>3, <2>2 DEF Upsert
      <3>4. Len(Tail(list)) < MaxSaved
        BY <1>1, <2>2, <3>2
      <3> QED
        BY <2>1, <3>2, <3>3, <3>4
    <2>3. CASE Len(list) # MaxSaved
      <3>1. Len(list) < MaxSaved
        BY <1>1, <2>3
      <3> QED
        BY <1>1, <1>3, <2>1, <2>3, <3>1 DEF Upsert
    <2> QED
      BY <2>2, <2>3
  <1> QED
    BY <1>2, <1>3

(* The first place of a network exists when the network is in the list.    *)
LEMMA PositionType ==
    ASSUME NEW list \in SavedLists, NEW ssid,
           \E i \in DOMAIN list : list[i] = ssid
    PROVE  /\ Position(list, ssid) \in DOMAIN list
           /\ Position(list, ssid) - 1 \in Nat
  <1> DEFINE R == OpToRel(<, Nat)
             T == {i \in Nat : i \in DOMAIN list /\ list[i] = ssid}
  <1>1. DOMAIN list = 1 .. Len(list) /\ Len(list) \in Nat
    BY ListElement
  <1>2. T \subseteq Nat /\ T # {} /\ IsWellFoundedOn(R, Nat)
    <2>1. T \subseteq Nat
      OBVIOUS
    <2>2. PICK i \in DOMAIN list : list[i] = ssid
      OBVIOUS
    <2>3. i \in T
      BY <1>1, <2>2
    <2>4. IsWellFoundedOn(OpToRel(<, Nat), Nat)
      BY ONLY NatLessThanWellFounded
    <2> QED
      BY <2>1, <2>3, <2>4
  <1>3. \E i \in T : \A j \in T : ~(<<j, i>> \in R)
    <2> HIDE DEF T, R
    <2> QED
      BY <1>2, WFMin
  <1>4. PICK i \in T : \A j \in T : ~(j < i)
    BY <1>2, <1>3 DEF OpToRel
  <1>5. \A j \in 1 .. i - 1 : list[j] # ssid
    BY <1>1, <1>4
  <1>6. Position(list, ssid) \in DOMAIN list
    BY <1>4, <1>5 DEF Position
  <1> QED
    BY <1>1, <1>6

(* WifiConfig::forget removes one network.                                 *)
LEMMA RemoveAtType ==
    ASSUME NEW list \in SavedLists, NEW i \in DOMAIN list
    PROVE  RemoveAt(list, i) \in SavedLists
  <1>1. /\ list \in Seq(Ssids) /\ Len(list) \in Nat /\ Len(list) <= MaxSaved
        /\ DOMAIN list = 1 .. Len(list)
    BY SavedListsAre, LenProperties
  <1>2. \A j \in 1 .. Len(list) : list[j] \in Ssids
    BY <1>1, ElementOfSeq
  <1>3. /\ SubSeq(list, 1, i - 1) \in Seq(Ssids)
        /\ Len(SubSeq(list, 1, i - 1)) = i - 1
    <2>1. \A j \in 1 .. i - 1 : list[j] \in Ssids
      BY <1>1, <1>2
    <2>2. 1 \in Int /\ i - 1 \in Int /\ (1 <= i - 1 => (i - 1) - 1 + 1 = i - 1)
          /\ (~(1 <= i - 1) => i - 1 = 0)
      BY <1>1
    <2> HIDE DEF RemoveAt
    <2> QED
      BY <2>1, <2>2, SubSeqProperties
  <1>4. /\ SubSeq(list, i + 1, Len(list)) \in Seq(Ssids)
        /\ Len(SubSeq(list, i + 1, Len(list))) = Len(list) - i
    <2>1. \A j \in i + 1 .. Len(list) : list[j] \in Ssids
      BY <1>1, <1>2
    <2>2. /\ i + 1 \in Int /\ Len(list) \in Int
          /\ i + 1 <= Len(list) => Len(list) - (i + 1) + 1 = Len(list) - i
          /\ ~(i + 1 <= Len(list)) => Len(list) - i = 0
      BY <1>1
    <2> QED
      BY <2>1, <2>2, SubSeqProperties
  <1>5. /\ RemoveAt(list, i) \in Seq(Ssids)
        /\ Len(RemoveAt(list, i)) = (i - 1) + (Len(list) - i)
    BY <1>3, <1>4, ConcatProperties DEF RemoveAt
  <1> QED
    BY <1>1, <1>5, SavedListsAre

(* What the host may leave in wifi.cfg, and what is typed or connected to. *)
LEMMA OptionType ==
    ASSUME NEW S PROVE <<>> \in Option(S) /\ \A x \in S : <<x>> \in Option(S)
  BY DEF Option

LEMMA RadioType ==
    /\ None \in RadioStep
    /\ \A n \in 1 .. ScanPasses : Scan(n) \in RadioStep
    /\ \A ssid \in Ssids, n \in 1 .. ConnectAttempts : Connect(ssid, n) \in RadioStep
  BY DEF RadioStep

(* A step of a scan has a pass, one of a connection a network.             *)
LEMMA RadioFields ==
    ASSUME NEW step \in RadioStep
    PROVE  /\ step.step = "scan" =>
              step # None /\ \E n \in 1 .. ScanPasses : step = Scan(n) /\ step.pass = n
           /\ step.step = "connect" =>
              step # None /\ \E ssid \in Ssids, n \in 1 .. ConnectAttempts :
                  step = Connect(ssid, n) /\ step.ssid = ssid /\ step.attempt = n
  <1>1. CASE step = None
    BY <1>1 DEF None
  <1>2. CASE \E n \in 1 .. ScanPasses : step = Scan(n)
    BY <1>2 DEF Scan, None
  <1>3. CASE \E ssid \in Ssids, n \in 1 .. ConnectAttempts : step = Connect(ssid, n)
    BY <1>3 DEF Connect, None
  <1> QED
    BY <1>1, <1>2, <1>3 DEF RadioStep

-----------------------------------------------------------------------------
(* Types                                                                   *)

LEMMA InitType == Init => TypeOK
  <1> SUFFICES ASSUME Init PROVE TypeOK
    OBVIOUS
  <1>1. saved \in SavedLists
    <2>1. <<>> \in SavedLists
      BY SavedListsAre, EmptySeq
    <2> QED
      BY <2>1 DEF Init
  <1>2. index \in Nat /\ 1 \in 1 .. MaxPasses
    BY <1>1, NewestType DEF Init
  <1>3. /\ splash \in BOOLEAN /\ storage \in BOOLEAN /\ exported \in BOOLEAN
        /\ armed \in BOOLEAN /\ assoc \in BOOLEAN /\ link \in BOOLEAN
    BY DEF Init
  <1> QED
    BY <1>1, <1>2, <1>3, OptionType, RadioType
    DEF Init, TypeOK, Stages, Views, Items, UsbActions, SshActions, WifiActions

(* Keys write a screen and a command; an index is one of a list.           *)
LEMMA KeysType == ASSUME TypeOK, Keys \/ Environment PROVE TypeOK'
  <1> USE DEF TypeOK, Views, Items, UsbActions, SshActions, WifiActions, Listening, KeyFrame,
              cardVars, autoVars, radioVars, Show, Usb, Ssh, Wifi, wifiSlot, screenVars
  <1>1. CASE SplashEnds
    <2>1. splash' \in BOOLEAN
      BY <1>1 DEF SplashEnds
    <2> QED
      BY <1>1, <2>1 DEF SplashEnds
  <1>2. CASE DueComes
    BY <1>2 DEF DueComes
  <1>3. CASE KeyBack
    BY <1>3 DEF KeyBack
  <1>4. CASE KeyEnter
    <2>1. \A i \in DOMAIN saved : i \in Nat \ {0}
      BY ListElement
    <2> QED
      BY <1>4, <2>1 DEF KeyEnter
  <1>5. CASE KeyDelete
    <2>1. \A i \in DOMAIN saved : i \in Nat \ {0}
      BY ListElement
    <2> QED
      BY <1>5, <2>1 DEF KeyDelete
  <1>6. CASE KeyTab
    BY <1>6 DEF KeyTab
  <1>7. CASE KeyFiles
    BY <1>7 DEF KeyFiles
  <1> QED
    BY <1>1, <1>2, <1>3, <1>4, <1>5, <1>6, <1>7 DEF Keys, Environment

LEMMA ScreensType == ASSUME TypeOK, EndKeys \/ Screens PROVE TypeOK'
  BY DEF TypeOK, EndKeys, Screens, StillServing, Then, At, Stages, Views, Items, screenVars,
         wifiSlot, cardVars, autoVars, radioVars

LEMMA RadioStageType == ASSUME TypeOK, RadioStage PROVE TypeOK'
  <1> USE DEF TypeOK, Then, At, Stages, screenVars, wifiSlot, cardVars, autoVars, radioVars
  <1>1. CASE ScanPass
    <2>1. scan' \subseteq Ssids
      BY <1>1 DEF ScanPass
    <2>2. radio' \in RadioStep
      BY <1>1, RadioFields, RadioType DEF ScanPass, AfterScanPass
    <2> QED
      BY <1>1, <2>1, <2>2 DEF ScanPass
  <1>2. CASE ConnectSucceeds
    <2>1. radio.ssid \in Ssids
      BY <1>2, RadioFields DEF ConnectSucceeds
    <2>2. saved' \in SavedLists /\ index' \in Nat
      BY <1>2, <2>1, UpsertType, PositionType DEF ConnectSucceeds
    <2> QED
      BY <1>2, <2>2, RadioType DEF ConnectSucceeds, Views, Items
  <1>3. CASE ConnectFails
    <2>1. radio' \in RadioStep
      BY <1>3, RadioFields, RadioType DEF ConnectFails
    <2>2. assoc' \in BOOLEAN
      BY <1>3 DEF ConnectFails
    <2> QED
      BY <1>3, <2>1, <2>2 DEF ConnectFails
  <1>4. CASE NoRadioStep
    BY <1>4 DEF NoRadioStep
  <1> QED
    BY <1>1, <1>2, <1>3, <1>4 DEF RadioStage

(* retry_saved_network never goes below the first network nor beyond       *)
(* MAX_AUTO_PASSES.                                                        *)
LEMMA RetryType ==
    ASSUME TypeOK, RetrySavedNetwork(Len(saved))
    PROVE  index' \in Nat /\ pass' \in 1 .. MaxPasses /\ due' \in {"never", "later", "now"}
  <1>1. Len(saved) \in Nat /\ MaxPasses \in Nat
    BY ListElement DEF TypeOK
  <1> QED
    BY <1>1 DEF TypeOK, RetrySavedNetwork

LEMMA JobStageType == ASSUME TypeOK, JobStage PROVE TypeOK'
  <1> USE DEF Then, At, Stages, screenVars, wifiSlot, cardVars, autoVars, radioVars, JobFrame
  <1>1. CASE JobConnects
    BY <1>1, OptionType DEF JobConnects, TypeOK
  <1>2. CASE JobFails
    BY ZenonT(40), <1>2, OptionType, RetryType DEF JobFails, TypeOK
  <1>3. CASE JobPending
    BY <1>3 DEF JobPending, TypeOK
  <1> QED
    BY <1>1, <1>2, <1>3 DEF JobStage

LEMMA WifiStageType == ASSUME TypeOK, WifiStage PROVE TypeOK'
  <1> USE DEF TypeOK, Then, At, Stages, screenVars, wifiSlot, cardVars, autoVars, radioVars,
              WifiCommand, WifiActions
  <1>0. 1 \in 1 .. ScanPasses /\ 1 \in 1 .. ConnectAttempts
    OBVIOUS
  <1>1. ASSUME NEW ssid \in Ssids, BeginConnect(ssid)
        PROVE  radio' \in RadioStep /\ assoc' \in BOOLEAN /\ typed' \in Option(Ssids)
    BY ZenonT(40), <1>0, <1>1, RadioType, OptionType DEF BeginConnect
  <1>2. CASE WifiQueued
    BY <1>2 DEF WifiQueued
  <1>3. CASE WifiScan
    BY <1>0, <1>3, RadioType DEF WifiScan
  <1>4. CASE WifiConnectSaved
    BY <1>1, <1>4, ListElement DEF WifiConnectSaved
  <1>5. CASE WifiSelect
    BY <1>1, <1>5, OptionType DEF WifiSelect, Views
  <1>6. CASE WifiConnectTyped
    BY <1>1, <1>6 DEF WifiConnectTyped
  <1>7. CASE WifiForget
    BY <1>7, RemoveAtType, NewestType DEF WifiForget
  <1>8. CASE NoWifiCommand
    BY <1>8 DEF NoWifiCommand
  <1> QED
    BY <1>2, <1>3, <1>4, <1>5, <1>6, <1>7, <1>8 DEF WifiStage

LEMMA AutoStageType == ASSUME TypeOK, AutoStage PROVE TypeOK'
  <1> USE DEF TypeOK, Then, At, Stages, screenVars, wifiSlot, cardVars, autoVars, radioVars
  <1>1. CASE AutoStarts
    BY <1>1, ListElement, OptionType DEF AutoStarts
  <1>2. CASE AutoIdle
    BY <1>2 DEF AutoIdle
  <1> QED
    BY <1>1, <1>2 DEF AutoStage

LEMMA UsbStageType == ASSUME TypeOK, UsbStage PROVE TypeOK'
  <1> USE DEF TypeOK, Then, At, Stages, wifiSlot, radioVars, UsbFrame, UsbActions
  <1>1. HostStates \subseteq {"inactive", "waiting", "mounted", "ejected"}
    BY DEF HostStates
  <1>2. CASE UsbAttach
    BY <1>2 DEF UsbAttach
  <1>3. CASE UsbDetach
    <2>1. ASSUME Reload
          PROVE  saved' \in SavedLists /\ index' \in Nat /\ due' \in {"never", "later", "now"}
      BY <2>1, NewestType DEF Reload
    <2>2. storage' \in BOOLEAN /\ exported' \in BOOLEAN /\ armed' \in BOOLEAN
      BY <1>3 DEF UsbDetach
    <2>3. /\ saved' \in SavedLists /\ index' \in Nat /\ due' \in {"never", "later", "now"}
          /\ view' \in Views /\ host' \in {"inactive", "waiting", "mounted", "ejected"}
      BY <1>1, <1>3, <2>1 DEF UsbDetach, Views, Items
    <2> QED
      BY <1>3, <2>2, <2>3 DEF UsbDetach
  <1>4. CASE UsbIdle
    BY <1>1, <1>4 DEF UsbIdle
  <1> QED
    BY <1>2, <1>3, <1>4 DEF UsbStage

LEMMA LastStagesType == ASSUME TypeOK, SshCommand \/ Network \/ Serve PROVE TypeOK'
  <1> USE DEF TypeOK, Then, At, Stages, screenVars, wifiSlot, cardVars, autoVars, radioVars
  <1>1. CASE SshCommand
    BY <1>1 DEF SshCommand, SshFrame, Started, SshActions, Views, Items
  <1>2. CASE Network
    <2>1. 1 \in 1 .. MaxPasses
      OBVIOUS
    <2>2. assoc' \in BOOLEAN /\ link' \in BOOLEAN
      BY <1>2 DEF Network
    <2> QED
      BY <1>2, <2>1, <2>2, NewestType DEF Network
  <1>3. CASE Serve
    BY <1>3 DEF Serve
  <1> QED
    BY <1>1, <1>2, <1>3

(* Every variable of the loop keeps its type: in particular wifi.cfg never *)
(* holds more than MAX_SAVED_NETWORKS, auto_next_index never underflows and*)
(* auto_pass stays within MAX_AUTO_PASSES (retry_saved_network, upsert).   *)
THEOREM TypesHold == Spec => []TypeOK
  <1>1. TypeOK /\ [Next]_vars => TypeOK'
    <2>1. ASSUME TypeOK, Next PROVE TypeOK'
      BY <2>1, KeysType, ScreensType, RadioStageType, JobStageType, WifiStageType,
         AutoStageType, UsbStageType, LastStagesType DEF Next, Stage
    <2>2. ASSUME TypeOK, UNCHANGED vars PROVE TypeOK'
      BY <2>2 DEF TypeOK, vars, screenVars, wifiSlot, cardVars, autoVars, radioVars
    <2> QED
      BY <2>1, <2>2
  <1> QED
    BY <1>1, InitType, PTL DEF Spec

-----------------------------------------------------------------------------
(* The radio                                                               *)

(* "The radio has one owner" (the take() of WifiManager in the radio step  *)
(* and in the wifi arm): the user's command and the automatic job never    *)
(* have it at once, and no command waits behind a step of the user's.      *)
THEOREM OneOwnerOfRadio == Spec => []RadioHasOneOwner
  <1>1. Init => RadioHasOneOwner
    BY DEF Init, RadioHasOneOwner
  <1>2. TypeOK /\ RadioHasOneOwner /\ [Next]_vars => RadioHasOneOwner'
    <2> SUFFICES ASSUME TypeOK, RadioHasOneOwner, [Next]_vars PROVE RadioHasOneOwner'
      OBVIOUS
    <2> USE DEF RadioHasOneOwner, wifiSlot, radioVars
    <2>1. CASE Keys
      BY <2>1 DEF Keys, KeyBack, KeyEnter, KeyDelete, KeyTab, KeyFiles, Listening, KeyFrame
    <2>2. CASE RadioStage
      <3>1. radio.step \in {"scan", "connect"} => radio # None
        BY DEF None
      <3> QED
        BY <2>2, <3>1
        DEF RadioStage, ScanPass, ConnectSucceeds, ConnectFails, NoRadioStep
    <2>3. CASE JobStage
      BY <2>3 DEF JobStage, JobConnects, JobFails, JobPending, JobFrame
    <2>4. CASE WifiStage
      BY <2>4
      DEF WifiStage, WifiQueued, WifiScan, WifiConnectSaved, WifiSelect, WifiConnectTyped,
          WifiForget, NoWifiCommand, WifiCommand, BeginConnect
    <2>5. CASE AutoStage
      BY <2>5 DEF AutoStage, AutoStarts, AutoIdle, MayStart
    <2>6. CASE UsbStage
      BY <2>6 DEF UsbStage, UsbAttach, UsbDetach, UsbIdle, UsbFrame
    <2>7. CASE Environment \/ EndKeys \/ Screens \/ SshCommand \/ Network \/ Serve
      BY <2>7
      DEF Environment, SplashEnds, DueComes, EndKeys, Screens, SshCommand, SshFrame, Network,
          Serve
    <2>8. CASE UNCHANGED vars
      BY <2>8 DEF vars
    <2> QED
      BY <2>1, <2>2, <2>3, <2>4, <2>5, <2>6, <2>7, <2>8 DEF Next, Stage
  <1> QED
    BY <1>1, <1>2, TypesHold, PTL DEF Spec

-----------------------------------------------------------------------------
(* The card                                                                *)

Starting == {"start", "cancel", "save"}

(* A command that gives the card away was written by the screen that has   *)
(* it (keys), so once the screens have been looked at nobody else has; and *)
(* a command does not outlive its stage.                                   *)
CommandsFollowScreens ==
    /\ stage \in {"keys", "screens"} =>
        /\ usbAction = "attach" => view = "usb"
        /\ sshAction \in Starting => view \in {"ssh", "editor"}
    /\ stage \in {"radio", "job", "wifi", "auto", "usb", "ssh"} =>
        /\ usbAction = "attach" => fm = "none" /\ ssh = "off"
        /\ sshAction \in Starting => fm = "none"
    /\ stage \in {"ssh", "network", "serve"} => usbAction = "none"
    /\ stage \in {"network", "serve"} => sshAction = "none"

CardInv == OneOwner /\ CommandsFollowScreens

LEMMA InitCard == Init => CardInv
  BY DEF Init, CardInv, OneOwner, CommandsFollowScreens, Starting

(* Keys leave the card where it is, and a screen whose command gives it    *)
(* away is left with another command.                                      *)
LEMMA KeysCard == ASSUME TypeOK, CardInv, Keys PROVE CardInv'
  <1> USE DEF CardInv, OneOwner, CommandsFollowScreens, Starting, Listening, KeyFrame, At,
              cardVars, Show, Usb, Ssh, Wifi, wifiSlot
  <1>1. CASE KeyBack
    BY <1>1 DEF KeyBack
  <1>2. CASE KeyEnter
    BY <1>2 DEF KeyEnter
  <1>3. CASE KeyDelete
    BY <1>3 DEF KeyDelete
  <1>4. CASE KeyTab
    BY <1>4 DEF KeyTab
  <1>5. CASE KeyFiles
    BY <1>5 DEF KeyFiles
  <1> QED
    BY <1>1, <1>2, <1>3, <1>4, <1>5 DEF Keys

LEMMA ScreensCard == ASSUME TypeOK, CardInv, Screens PROVE CardInv'
  BY DEF CardInv, OneOwner, CommandsFollowScreens, Starting, Screens, StillServing, Then, At,
         cardVars, TypeOK

(* The stages of the radio leave the card and its commands alone.          *)
LEMMA RadioCard ==
    ASSUME TypeOK, CardInv,
           Environment \/ EndKeys \/ RadioStage \/ JobStage \/ WifiStage \/ AutoStage
    PROVE  CardInv'
  <1> USE DEF CardInv, OneOwner, CommandsFollowScreens, Starting, Then, At, cardVars,
              screenVars
  <1>1. CASE Environment
    BY <1>1 DEF Environment, SplashEnds, DueComes
  <1>2. CASE EndKeys
    BY <1>2 DEF EndKeys
  <1>3. CASE RadioStage
    BY <1>3 DEF RadioStage, ScanPass, ConnectSucceeds, ConnectFails, NoRadioStep
  <1>4. CASE JobStage
    BY <1>4 DEF JobStage, JobConnects, JobFails, JobPending, JobFrame
  <1>5. CASE WifiStage
    BY <1>5
    DEF WifiStage, WifiQueued, WifiScan, WifiConnectSaved, WifiSelect, WifiConnectTyped,
        WifiForget, NoWifiCommand, WifiCommand
  <1>6. CASE AutoStage
    BY <1>6 DEF AutoStage, AutoStarts, AutoIdle
  <1> QED
    BY <1>1, <1>2, <1>3, <1>4, <1>5, <1>6

(* UsbDisk::attach takes the card from nobody, and it comes back to nobody.*)
LEMMA UsbCard == ASSUME TypeOK, CardInv, UsbStage PROVE CardInv'
  <1> USE DEF CardInv, OneOwner, CommandsFollowScreens, Starting, Then, At, UsbFrame
  <1>1. CASE UsbAttach
    BY <1>1 DEF UsbAttach
  <1>2. CASE UsbDetach
    BY <1>2 DEF UsbDetach, TypeOK
  <1>3. CASE UsbIdle
    BY <1>3 DEF UsbIdle
  <1> QED
    BY <1>1, <1>2, <1>3 DEF UsbStage

LEMMA LastStagesCard == ASSUME TypeOK, CardInv, SshCommand \/ Network \/ Serve PROVE CardInv'
  <1> USE DEF CardInv, OneOwner, CommandsFollowScreens, Starting, Then, At, cardVars,
              screenVars
  <1>1. CASE SshCommand
    BY <1>1 DEF SshCommand, SshFrame, Started
  <1>2. CASE Network
    BY <1>2 DEF Network
  <1>3. CASE Serve
    BY <1>3 DEF Serve
  <1> QED
    BY <1>1, <1>2, <1>3

LEMMA CardInvHolds == Spec => []CardInv
  <1>1. TypeOK /\ CardInv /\ [Next]_vars => CardInv'
    <2>1. ASSUME TypeOK, CardInv, Next PROVE CardInv'
      BY <2>1, KeysCard, ScreensCard, RadioCard, UsbCard, LastStagesCard DEF Next, Stage
    <2>2. ASSUME CardInv, UNCHANGED vars PROVE CardInv'
      BY <2>2
      DEF CardInv, OneOwner, CommandsFollowScreens, vars, screenVars, cardVars
    <2> QED
      BY <2>1, <2>2
  <1> QED
    BY <1>1, InitCard, TypesHold, PTL DEF Spec

(* "Only one side owns the card at a time" (README): the USB host, the     *)
(* mounted volume with the file manager, or the volume with SSH, whatever  *)
(* keys are pressed within one pass and whichever stage acts on them.      *)
THEOREM OneOwnerOfCard == Spec => []OneOwner
  <1>1. CardInv => OneOwner
    BY DEF CardInv
  <1> QED
    BY <1>1, CardInvHolds, PTL

(* The card changes hands only at its own stage and with everybody out: no *)
(* step that starts the export finds an SSH server or a file manager, and  *)
(* none that ends it starts one (UsbDisk::attach and the detach arm).      *)
CardChangesHands ==
    exported # exported' =>
        stage = "usb" /\ fm = "none" /\ ssh = "off" /\ fm' = "none" /\ ssh' = "off"

(* Whatever the user has queued, the hand-over itself finds the card with  *)
(* nobody (start_ssh and FileManager::new need the mounted volume).        *)
THEOREM HandOver == Spec => [][CardChangesHands]_vars
  <1>1. CardInv /\ [Next]_vars => [CardChangesHands]_vars
    <2> SUFFICES ASSUME CardInv, Next, exported # exported' PROVE CardChangesHands
      BY DEF CardChangesHands
    <2> USE DEF CardInv, OneOwner, CommandsFollowScreens, At, cardVars
    <2>1. CASE UsbStage
      BY <2>1
      DEF UsbStage, UsbAttach, UsbDetach, UsbIdle, UsbFrame, CardChangesHands
    <2>2. CASE Environment \/ Keys
      BY <2>2 DEF Environment, SplashEnds, DueComes, Keys, KeyBack, KeyEnter, KeyDelete, KeyTab,
                  KeyFiles, KeyFrame
    <2>3. CASE EndKeys \/ Screens \/ SshCommand \/ Network \/ Serve
      BY <2>3 DEF EndKeys, Screens, SshCommand, SshFrame, Network, Serve
    <2>4. CASE RadioStage \/ JobStage \/ AutoStage
      BY <2>4 DEF RadioStage, ScanPass, ConnectSucceeds, ConnectFails, NoRadioStep, JobStage,
                  JobConnects, JobFails, JobPending, JobFrame, AutoStage, AutoStarts, AutoIdle
    <2>5. CASE WifiStage
      BY <2>5 DEF WifiStage, WifiQueued, WifiScan, WifiConnectSaved, WifiSelect,
                  WifiConnectTyped, WifiForget, NoWifiCommand, WifiCommand
    <2> QED
      BY <2>1, <2>2, <2>3, <2>4, <2>5 DEF Next, Stage
  <1> QED
    BY <1>1, CardInvHolds, PTL DEF Spec
=============================================================================
