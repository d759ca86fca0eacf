---------------------------- MODULE WiFiStation -----------------------------
(***************************************************************************)
(* The WiFi events of src/kfc_fw_config.cpp: the SDK reports that the      *)
(* station has associated, has got an address or has lost the access       *)
(* point; the handlers keep the flag _wifiConnected and schedule the event *)
(* that run_scheduled_functions() later passes on to the program.          *)
(***************************************************************************)
EXTENDS Integers, Sequences

CONSTANTS
    ScheduleMax      \* bound: events waiting in the queue of callOnce()

ASSUME ScheduleAssumption == ScheduleMax \in Nat \ {0}

Events == {"connected", "disconnected"}

VARIABLES
    link,            \* the station: "down", "associated", "ip"
    wifiConnected,   \* KFCFWConfiguration::_wifiConnected
    scheduled        \* the events scheduled and not passed on

stationVars == <<link, wifiConnected, scheduled>>

StationInit ==
    /\ link = "down"
    /\ wifiConnected = FALSE
    /\ scheduled = <<>>

(* Mutant of OnWiFiConnect: the flag is not set.                           *)
OnWiFiConnectNoFlag ==
    /\ link = "down"
    /\ link' = "associated"
    /\ UNCHANGED <<wifiConnected, scheduled>>

(* _onWiFiConnectCb                                                        *)
OnWiFiConnect ==
    /\ link = "down"
    /\ link' = "associated"
    /\ wifiConnected' = TRUE
    /\ UNCHANGED scheduled

(* _onWiFiDisconnectCb; the SDK reports it after every failed attempt too. *)
OnWiFiDisconnect ==
    /\ link' = "down"
    /\ wifiConnected' = FALSE
    /\ IF wifiConnected
       THEN /\ Len(scheduled) < ScheduleMax
            /\ scheduled' = Append(scheduled, "disconnected")
       ELSE UNCHANGED scheduled

(* _onWiFiGotIPCb, also when the lease of an address changes.              *)
OnWiFiGotIP ==
    /\ link # "down"
    /\ Len(scheduled) < ScheduleMax
    /\ link' = "ip"
    /\ scheduled' = Append(scheduled, "connected")
    /\ UNCHANGED wifiConnected

StationNext == OnWiFiConnect \/ OnWiFiDisconnect \/ OnWiFiGotIP

(* run_scheduled_functions() takes the next event.                         *)
NextEvent(e) ==
    /\ scheduled # <<>>
    /\ e = Head(scheduled)
    /\ scheduled' = Tail(scheduled)
    /\ UNCHANGED <<link, wifiConnected>>
=============================================================================
