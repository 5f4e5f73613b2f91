---------------------------------- MODULE Wifi ----------------------------------
(***************************************************************************)
(* user/cgiwifi.c: how the device finds its way onto a network, and back   *)
(* to one of its own (an access point) when it does not.  Web requests     *)
(* change the mode, the network or the addressing; two timers carry the    *)
(* changes out and check the outcome.  With them the UART log of log.c,    *)
(* which the check turns on and off.                                       *)
(*                                                                         *)
(* Requests, timers and events of the SDK run to the end one after the     *)
(* other.  No time is modelled: an armed timer fires some day, so that all *)
(* orders of 1 second, 15 seconds and the network's own pace are included. *)
(***************************************************************************)
EXTENDS Integers

CONSTANTS
    Networks,       \* the networks a user may ask for
    Home,           \* the one that can be joined
    MaxRequests,    \* bound: requests of the users
    MaxEvents       \* bound: changes of the network and power cuts

ASSUME WifiAssumption ==
    /\ Home \in Networks
    /\ MaxRequests \in Nat /\ MaxEvents \in Nat

STA == 1
AP == 2
STA_AP == 3
Modes == {STA, AP, STA_AP}

VARIABLES
    opmode,         \* the SDK's mode, kept in flash
    station,        \* the SDK's network to join, kept in flash
    status,         \* wifi_station_get_connect_status, as far as it is looked at
    wifiState,      \* what the event handler made of it
    dhcpc,          \* the addressing in use
    air,            \* environment: is the network there, does it assign addresses
    staticip,       \* flashConfig.staticip is set
    stconf,         \* the network asked for
    reassTimer,     \* "off", or what it will do: "assoc" or "ip"
    resetTimer,     \* armed or not
    scanInProgress, scanTimer,
    scan,           \* the SDK's scan
    log_mode, log_no_uart,
    asked,          \* history: the network last asked for
    overtaken,      \* history: changes whose timer another change took over
    unchecked,      \* history: what a check has yet to find to work
    requests, events

sdk     == <<opmode, station, status, dhcpc, wifiState>>
timers  == <<reassTimer, resetTimer>>
scans   == <<scanInProgress, scanTimer, scan>>
log     == <<log_mode, log_no_uart>>
history == <<asked, overtaken, unchecked>>
bounds  == <<requests, events>>
wifiVars == <<sdk, air, staticip, stconf, timers, scans, log, history, bounds>>

StationOn == opmode \in {STA, STA_AP}

\* Where a browser can get at the device.
Reachable == opmode # STA \/ status = "gotip"

-----------------------------------------------------------------------------
(* What the SDK does, and the events it reports to wifiHandleEventCb.      *)

SetOpmode(m) ==
    /\ opmode' = m
    /\ status' = IF m = AP \/ opmode = AP THEN "none" ELSE status

\* EVENT_STAMODE_CONNECTED
Associate ==
    /\ StationOn /\ status = "none" /\ station = Home /\ air.up
    /\ status' = "assoc" /\ wifiState' = "connected"
    /\ UNCHANGED <<opmode, station, dhcpc, air, staticip, stconf, timers, scans, log, history, bounds>>

\* EVENT_STAMODE_GOT_IP
GetIp ==
    /\ status = "assoc" /\ (dhcpc => air.dhcp)
    /\ status' = "gotip" /\ wifiState' = "gotip"
    /\ UNCHANGED <<opmode, station, dhcpc, air, staticip, stconf, timers, scans, log, history, bounds>>

\* EVENT_STAMODE_DISCONNECTED; the network fails, comes back, or changes.
AirChanges ==
    /\ events < MaxEvents /\ events' = events + 1
    /\ air' \in [up : BOOLEAN, dhcp : BOOLEAN]
    /\ IF air'.up THEN UNCHANGED <<status, wifiState>>
                  ELSE status' = "none" /\ wifiState' = "disconnected"
    /\ UNCHANGED <<opmode, station, dhcpc, staticip, stconf, timers, scans, log, history, requests>>

-----------------------------------------------------------------------------
(* Web requests, of a browser that gets through.                           *)

Request == Reachable /\ requests < MaxRequests /\ requests' = requests + 1

cgiWiFiConnect(ssid) ==
    /\ Request
    /\ stconf' = ssid
    /\ reassTimer' = "assoc"
    /\ asked' = ssid
    /\ overtaken' = (overtaken \ {"assoc"}) \cup (IF reassTimer = "ip" THEN {"ip"} ELSE {})
    /\ UNCHANGED <<sdk, air, staticip, resetTimer, scans, log, unchecked, events>>

cgiWiFiSpecial(static) ==
    /\ Request
    /\ staticip' = static
    /\ reassTimer' = "ip"
    /\ overtaken' = (overtaken \ {"ip"}) \cup (IF reassTimer = "assoc" THEN {"assoc"} ELSE {})
    /\ UNCHANGED <<sdk, air, stconf, resetTimer, scans, log, asked, unchecked, events>>

cgiWiFiSetMode(m) ==
    /\ Request
    /\ SetOpmode(m)
    /\ resetTimer' = (resetTimer \/ m = STA)
    /\ unchecked' = IF m = STA THEN unchecked \cup {"mode"} ELSE unchecked
    /\ UNCHANGED <<station, dhcpc, wifiState, air, staticip, stconf, reassTimer, scans, log,
                   asked, overtaken, events>>

cgiWiFiStartScan ==
    /\ Request
    /\ ~scanInProgress
    /\ scanInProgress' = TRUE /\ scanTimer' = TRUE
    /\ UNCHANGED <<sdk, air, staticip, stconf, timers, scan, log, history, events>>

\* log_uart(enable): what becomes of log_no_uart.
NoUart_Ungated(enable, mode) == ~enable
NoUart(enable, mode) ==
    CASE ~enable /\ ~log_no_uart /\ mode # "on" -> TRUE
      [] enable /\ log_no_uart /\ mode # "off" -> FALSE
      [] OTHER -> log_no_uart

ajaxLogDbg(mode) ==
    /\ Request
    /\ log_mode' = mode
    /\ log_no_uart' = IF mode = "auto" THEN log_no_uart ELSE NoUart(mode = "on", mode)
    /\ UNCHANGED <<sdk, air, staticip, stconf, timers, scans, history, events>>

-----------------------------------------------------------------------------
(* Timers.                                                                 *)

\* The check: with an address go to STA mode and check again, without one open
\* an access point and go on checking.
resetTimerCb ==
    /\ resetTimer
    /\ IF status = "gotip"
       THEN IF opmode # STA
            THEN SetOpmode(STA) /\ UNCHANGED <<resetTimer, unchecked>>
            ELSE resetTimer' = FALSE /\ unchecked' = {} /\ UNCHANGED <<opmode, status>>
       ELSE SetOpmode(STA_AP) /\ UNCHANGED <<resetTimer, unchecked>>
    /\ log_no_uart' = NoUart(status # "gotip", log_mode)
    /\ UNCHANGED <<station, dhcpc, wifiState, air, staticip, stconf, reassTimer, scans, log_mode,
                   asked, overtaken, bounds>>

reassTimerCb_NoConfig ==
    /\ reassTimer = "assoc" /\ reassTimer' = "off"
    /\ status' = "none" /\ wifiState' = "disconnected"
    /\ resetTimer' = TRUE
    /\ unchecked' = unchecked \cup {"connect"}
    /\ UNCHANGED <<opmode, station, dhcpc, air, staticip, stconf, scans, log, asked, overtaken, bounds>>
reassTimerCb_NoCheck ==
    /\ reassTimer = "assoc" /\ reassTimer' = "off"
    /\ status' = "none" /\ wifiState' = "disconnected"
    /\ station' = stconf
    /\ unchecked' = unchecked \cup {"connect"}
    /\ UNCHANGED <<opmode, dhcpc, air, staticip, stconf, resetTimer, scans, log, asked, overtaken, bounds>>
\* wifi_station_disconnect, then set_config and connect, and "Schedule check".
reassTimerCb ==
    /\ reassTimer = "assoc" /\ reassTimer' = "off"
    /\ status' = "none" /\ wifiState' = "disconnected"
    /\ station' = stconf
    /\ resetTimer' = TRUE
    /\ unchecked' = unchecked \cup {"connect"}
    /\ UNCHANGED <<opmode, dhcpc, air, staticip, stconf, scans, log, asked, overtaken, bounds>>

\* On reassTimer after cgiWiFiSpecial.  A new lease has to be got with DHCP.
configWifiIP ==
    /\ reassTimer = "ip" /\ reassTimer' = "off"
    /\ dhcpc' = ~staticip
    /\ status' = IF status = "gotip" /\ dhcpc' THEN "assoc" ELSE status
    /\ unchecked' = unchecked \cup {"special"}
    /\ UNCHANGED <<opmode, station, wifiState, air, staticip, stconf, resetTimer, scans, log,
                   asked, overtaken, bounds>>

\* wifi_station_scan fails without a station; scanStartCb does not notice.
scanStartCb ==
    /\ scanTimer /\ scanTimer' = FALSE
    /\ scan' = IF StationOn THEN "running" ELSE "refused"
    /\ UNCHANGED <<sdk, air, staticip, stconf, timers, scanInProgress, log, history, bounds>>

wifiScanDoneCb_OnlyOk(ok) ==
    /\ scan = "running" /\ scan' = "idle"
    /\ scanInProgress' = ~ok
    /\ UNCHANGED <<sdk, air, staticip, stconf, timers, scanTimer, log, history, bounds>>
wifiScanDoneCb(ok) ==
    /\ scan = "running" /\ scan' = "idle"
    /\ scanInProgress' = FALSE
    /\ UNCHANGED <<sdk, air, staticip, stconf, timers, scanTimer, log, history, bounds>>

-----------------------------------------------------------------------------
\* wifiInit and logInit, with what is kept in flash.
Booted ==
    /\ status' = "none" /\ wifiState' = "disconnected"
    /\ dhcpc' = ~staticip
    /\ stconf' = Home       \* zeros; never used before cgiWiFiConnect sets it
    /\ reassTimer' = "off" /\ resetTimer' = TRUE
    /\ scanInProgress' = FALSE /\ scanTimer' = FALSE /\ scan' = "idle"
    /\ log_no_uart' = (log_mode = "off")
    /\ asked' = station /\ overtaken' = {} /\ unchecked' = {"reset"}

PowerCycle ==
    /\ events < MaxEvents /\ events' = events + 1
    /\ Booted
    /\ UNCHANGED <<opmode, station, air, staticip, log_mode, requests>>

WifiInit ==
    /\ opmode \in Modes /\ station \in Networks
    /\ staticip \in BOOLEAN /\ log_mode \in {"auto", "off", "on"}
    /\ air \in [up : BOOLEAN, dhcp : BOOLEAN]
    /\ status = "none" /\ wifiState = "disconnected"
    /\ dhcpc = ~staticip
    /\ stconf = Home
    /\ reassTimer = "off" /\ resetTimer = TRUE
    /\ scanInProgress = FALSE /\ scanTimer = FALSE /\ scan = "idle"
    /\ log_no_uart = (log_mode = "off")
    /\ asked = station /\ overtaken = {} /\ unchecked = {"reset"}
    /\ requests = 0 /\ events = 0

Requests ==
    \/ \E ssid \in Networks : cgiWiFiConnect(ssid)
    \/ \E static \in BOOLEAN : cgiWiFiSpecial(static)
    \/ \E m \in Modes : cgiWiFiSetMode(m)
    \/ cgiWiFiStartScan
    \/ \E mode \in {"auto", "off", "on"} : ajaxLogDbg(mode)

ScanDone == \E ok \in BOOLEAN : wifiScanDoneCb(ok)

WifiNext ==
    \/ Associate \/ GetIp \/ AirChanges \/ PowerCycle
    \/ Requests
    \/ resetTimerCb \/ reassTimerCb \/ configWifiIP \/ scanStartCb \/ ScanDone

\* Armed timers fire and a scan that was started ends; nothing is assumed of the
\* network.
Fairness ==
    /\ WF_wifiVars(resetTimerCb) /\ WF_wifiVars(reassTimerCb) /\ WF_wifiVars(configWifiIP)
    /\ WF_wifiVars(scanStartCb) /\ WF_wifiVars(ScanDone)

WifiSpec == WifiInit /\ [][WifiNext]_wifiVars /\ Fairness

-----------------------------------------------------------------------------
\* The types; and a scan waits or runs only while scanInProgress keeps another
\* one from being started.
WifiTypeOK ==
    /\ opmode \in Modes /\ station \in Networks /\ stconf \in Networks
    /\ status \in {"none", "assoc", "gotip"}
    /\ wifiState \in {"disconnected", "connected", "gotip"}
    /\ dhcpc \in BOOLEAN /\ staticip \in BOOLEAN
    /\ air \in [up : BOOLEAN, dhcp : BOOLEAN]
    /\ reassTimer \in {"off", "assoc", "ip"} /\ resetTimer \in BOOLEAN
    /\ scanTimer => scanInProgress /\ scan = "idle"
    /\ scan # "idle" => scanInProgress
    /\ log_mode \in {"auto", "off", "on"} /\ log_no_uart \in BOOLEAN
    /\ asked \in Networks
    /\ overtaken \subseteq {"assoc", "ip"}
    /\ unchecked \subseteq {"reset", "connect", "mode", "special"}
    /\ requests \in 0 .. MaxRequests /\ events \in 0 .. MaxEvents

\* The UART log obeys the user's setting, whoever calls log_uart and when: it is
\* never silent in mode "on" and never prints in mode "off" (log.c:24-25).
UartLogHonoured ==
    /\ log_mode = "on" => ~log_no_uart
    /\ log_mode = "off" => log_no_uart

\* Once its timer has fired, what was asked for is in use: the network, and the
\* way to get an address; unless the other change took over the one reassTimer
\* within the second it waits.
ChangesApplied ==
    /\ reassTimer # "assoc" /\ "assoc" \notin overtaken => station = asked
    /\ reassTimer # "ip" /\ "ip" \notin overtaken => dhcpc = ~staticip

\* A reset, a change of the network or of the mode never leaves the device out of
\* reach: it gets an address or opens its access point (README.md:128).
Pending == unchecked \cap {"reset", "connect", "mode"} # {}
FailSafe == (Pending /\ ~Reachable) ~> Reachable

\* "We're still scanning" comes to an end, unless the SDK refused to scan.
ScanEnds == scanInProgress ~> (~scanInProgress \/ scan = "refused")
=============================================================================
