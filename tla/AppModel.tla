------------------------------ MODULE AppModel ------------------------------
(***************************************************************************)
(* The macOS app's state and its change-network sheet: AppModel.swift,     *)
(* SetNetworkSheet.swift and what of ContentView.swift and IPCProbeApp.    *)
(* swift acts on them.                                                     *)
(*                                                                         *)
(* Everything runs on the main actor, so what happens between two awaits   *)
(* is one step; while a helper runs, the operator and the other tasks go   *)
(* on.  The helper's list and set are taken as what their own modules show *)
(* them to be: a listed address is one the camera had while the listing    *)
(* ran, and "confirmed" is true of the camera.  They print into a pipe,    *)
(* though, that ProbeRunner.run reads only when they have ended.           *)
(***************************************************************************)
EXTENDS Naturals, FiniteSets

CONSTANTS
    Mac,        \* the cameras
    Addr,       \* the addresses they can have
    home,       \* the address each one starts with
    Interface,  \* the interfaces the Mac may have
    Window,     \* the app's windows, which share one AppModel
    Job,        \* tasks that call scan, at most so many at a time
    Overfull,   \* the tables whose JSON is more than a pipe holds
    None        \* nothing

Done == {"confirmed", "unconfirmed", "failed"}

(* What a sheet knows, and the set it starts. *)
Form   == [mac : Mac, phase : {"editing", "running"} \cup Done]
Change == [mac : Mac, ip : Addr]

ASSUME AppAssumption ==
    /\ home \in [Mac -> Addr]
    /\ Overfull \subseteq [Mac -> Addr \cup {None}]
    /\ None \notin Mac \cup Addr \cup Interface \cup Form \cup Change

VARIABLES
    addr,               \* the cameras' addresses
    started,            \* how far each window's startup task is
    interfaces,         \* what the helper listed
    selectedInterface,  \* the picker's choice, None for all interfaces
    devices,            \* the table: the address listed for each camera
    selection,          \* the row selected
    isScanning,
    scans,              \* each task that calls scan
    saw,                \* the addresses each camera has had while it listed
    shown,              \* showSetSheet
    form,               \* the sheet's state, None while it has no content
    sets                \* the helper's set that a sheet has started

scanVars  == <<isScanning, scans, saw>>
tableVars == <<devices, selection>>
sheetVars == <<shown, form, sets>>
startVars == <<started, interfaces, selectedInterface>>
vars == <<addr, startVars, tableVars, scanVars, sheetVars>>

(* The types of the app's state. *)
AppTypeOK ==
    /\ addr \in [Mac -> Addr]
    /\ started \in [Window -> {"version", "interfaces", "scan", "done"}]
    /\ interfaces \subseteq Interface
    /\ selectedInterface \in Interface \cup {None}
    /\ devices \in [Mac -> Addr \cup {None}]
    /\ selection \in Mac \cup {None}
    /\ isScanning \in BOOLEAN
    /\ scans \in [Job -> {"idle", "queued", "listing", "stalled"}]
    /\ saw \in [Job -> [Mac -> SUBSET Addr]]
    /\ shown \in [Window -> BOOLEAN]
    /\ form \in [Window -> Form \cup {None}]
    /\ sets \in [Window -> Change \cup {None}]

Init ==
    /\ addr = home
    /\ started = [w \in Window |-> "version"]
    /\ interfaces = {} /\ selectedInterface = None
    /\ devices = [m \in Mac |-> None] /\ selection = None
    /\ isScanning = FALSE
    /\ scans = [j \in Job |-> "idle"]
    /\ saw = [j \in Job |-> [m \in Mac |-> {}]]
    /\ shown = [w \in Window |-> FALSE]
    /\ form = [w \in Window |-> None]
    /\ sets = [w \in Window |-> None]

-----------------------------------------------------------------------------
(* Views *)

(* The device the selection names, if it is listed. *)
selectedDevice ==
    IF selection # None /\ devices[selection] # None THEN selection ELSE None

Editing(m) == [mac |-> m, phase |-> "editing"]

(* Mistake: the sheet's content outlives its device. *)
Render_Keeps(f) ==
    form' = [w \in Window |->
                IF ~ shown'[w] THEN None
                ELSE IF f[w] = None THEN Editing(selectedDevice')
                ELSE f[w]]

(* A sheet has content while a device is selected.  What it shows follows the
   selection, but its fields keep what onAppear filled in; they are lost with
   the content.  f is the sheets' state before.                              *)
Render(f) ==
    form' = [w \in Window |->
                IF ~ shown'[w] \/ selectedDevice' = None THEN None
                ELSE IF f[w] = None THEN Editing(selectedDevice')
                ELSE f[w]]

Queue == \E j \in Job : scans[j] = "idle" /\ scans' = [scans EXCEPT ![j] = "queued"]

-----------------------------------------------------------------------------
(* startup, the task of each window *)

Version(w) ==
    /\ started[w] = "version"
    /\ started' = [started EXCEPT ![w] = "interfaces"]
    /\ UNCHANGED <<addr, interfaces, selectedInterface, tableVars, scanVars, sheetVars>>

RefreshInterfaces(w) ==
    /\ started[w] = "interfaces"
    /\ started' = [started EXCEPT ![w] = "scan"]
    /\ \/ /\ interfaces' \in SUBSET Interface
          /\ selectedInterface' =
                IF selectedInterface \in interfaces' THEN selectedInterface ELSE None
       \/ UNCHANGED <<interfaces, selectedInterface>>   \* the helper failed
    /\ UNCHANGED <<addr, tableVars, scanVars, sheetVars>>

StartupScan(w) ==
    /\ started[w] = "scan"
    /\ started' = [started EXCEPT ![w] = "done"]
    /\ Queue
    /\ UNCHANGED <<addr, interfaces, selectedInterface, tableVars, isScanning, saw,
                   sheetVars>>

-----------------------------------------------------------------------------
(* scan *)

(* Mistake: the guard is missing. *)
ScanStart_Unguarded(j) ==
    /\ scans[j] = "queued"
    /\ scans' = [scans EXCEPT ![j] = "listing"]
    /\ isScanning' = TRUE
    /\ saw' = [saw EXCEPT ![j] = [m \in Mac |-> {addr[m]}]]
    /\ UNCHANGED <<addr, startVars, tableVars, sheetVars>>

(* A call that comes while another one scans does nothing. *)
ScanStart(j) ==
    /\ scans[j] = "queued"
    /\ \/ /\ isScanning
          /\ scans' = [scans EXCEPT ![j] = "idle"]
          /\ UNCHANGED <<isScanning, saw>>
       \/ /\ ~ isScanning
          /\ scans' = [scans EXCEPT ![j] = "listing"]
          /\ isScanning' = TRUE
          /\ saw' = [saw EXCEPT ![j] = [m \in Mac |-> {addr[m]}]]
    /\ UNCHANGED <<addr, startVars, tableVars, sheetVars>>

(* What list may report: some of the cameras, at an address they had. *)
Found(j, table) == \A m \in Mac : table[m] = None \/ table[m] \in saw[j][m]

(* run reads the helper's result once it has ended; a helper that prints more
   than the pipe holds waits for its reader, and the two never part.         *)
ScanStalls(j) ==
    /\ scans[j] = "listing"
    /\ \E table \in Overfull : Found(j, table)
    /\ scans' = [scans EXCEPT ![j] = "stalled"]
    /\ saw' = [saw EXCEPT ![j] = [m \in Mac |-> {}]]
    /\ UNCHANGED <<addr, startVars, tableVars, isScanning, sheetVars>>

ScanEnd(j) ==
    /\ scans[j] = "listing"
    /\ scans' = [scans EXCEPT ![j] = "idle"]
    /\ saw' = [saw EXCEPT ![j] = [m \in Mac |-> {}]]
    /\ isScanning' = FALSE
    /\ UNCHANGED <<addr, startVars, shown, sets>>

(* Mistakes: a camera that is gone stays selected; another one is selected. *)
Reselect_Keeps(table) == selection
Reselect_Any(table) ==
    IF selection = None \/ table[selection] # None THEN selection
    ELSE IF \E m \in Mac : table[m] # None THEN CHOOSE m \in Mac : table[m] # None
    ELSE None

Reselect(table) ==
    IF selection = None \/ table[selection] # None THEN selection ELSE None

ScanFinds(j) ==
    /\ \E table \in [Mac -> Addr \cup {None}] \ Overfull :
        /\ Found(j, table)
        /\ devices' = table
        /\ selection' = Reselect(table)
    /\ ScanEnd(j)
    /\ Render(form)

(* Mistake: isScanning is reset on success only. *)
ScanFails_Spins(j) ==
    /\ scans[j] = "listing"
    /\ scans' = [scans EXCEPT ![j] = "idle"]
    /\ saw' = [saw EXCEPT ![j] = [m \in Mac |-> {}]]
    /\ UNCHANGED <<addr, startVars, tableVars, isScanning, sheetVars>>

ScanFails(j) ==
    /\ ScanEnd(j)
    /\ UNCHANGED <<tableVars, form>>

-----------------------------------------------------------------------------
(* The operator.  A window's sheet is modal: it blocks that window. *)

PickInterface(w) ==
    /\ ~ shown[w]
    /\ selectedInterface' \in interfaces \cup {None}
    /\ UNCHANGED <<addr, started, interfaces, tableVars, scanVars, sheetVars>>

(* The toolbar's button, or the menu's, which a sheet does not block. *)
Rescan ==
    /\ ~ isScanning
    /\ Queue
    /\ UNCHANGED <<addr, startVars, tableVars, isScanning, saw, sheetVars>>

Select(w) ==
    /\ ~ shown[w]
    /\ selection' \in {m \in Mac : devices[m] # None} \cup {None}
    /\ UNCHANGED <<addr, startVars, devices, scanVars, shown, sets>>
    /\ Render(form)

OpenSheet(w) ==
    /\ ~ shown[w]
    /\ selectedDevice # None
    /\ shown' = [shown EXCEPT ![w] = TRUE]
    /\ UNCHANGED <<addr, startVars, tableVars, scanVars, sets>>
    /\ Render(form)

Cancel(w) ==
    /\ form[w] # None
    /\ form[w].phase = "editing"
    /\ shown' = [shown EXCEPT ![w] = FALSE]
    /\ UNCHANGED <<addr, startVars, tableVars, scanVars, sets>>
    /\ Render(form)

(* The command carries the MAC of the device shown. *)
Apply(w) ==
    /\ form[w] # None
    /\ form[w].phase = "editing"
    /\ sets[w] = None
    /\ \E ip \in Addr : sets' = [sets EXCEPT ![w] = [mac |-> selectedDevice, ip |-> ip]]
    /\ form' = [form EXCEPT ![w].phase = "running"]
    /\ UNCHANGED <<addr, startVars, tableVars, scanVars, shown>>

CloseSheet(w) ==
    /\ form[w] # None
    /\ form[w].phase \in Done
    /\ shown' = [shown EXCEPT ![w] = FALSE]
    /\ Queue
    /\ UNCHANGED <<addr, startVars, tableVars, isScanning, saw, sets>>
    /\ Render(form)

-----------------------------------------------------------------------------
(* The helper's set *)

CameraTakes(w) ==
    /\ sets[w] # None
    /\ addr' = [addr EXCEPT ![sets[w].mac] = sets[w].ip]
    /\ saw' = [j \in Job |-> IF scans[j] # "listing" THEN saw[j]
                             ELSE [saw[j] EXCEPT ![sets[w].mac] = @ \cup {sets[w].ip}]]
    /\ UNCHANGED <<startVars, tableVars, isScanning, scans, sheetVars>>

(* Exit 0 is true of the camera (SetSession's ConfirmedMeansApplied). *)
Verdict(w, v) == v = "confirmed" => addr[sets[w].mac] = sets[w].ip

(* A sheet that has lost its content has nowhere to put the verdict. *)
SetReturns(w) ==
    /\ sets[w] # None
    /\ \E v \in Done :
        /\ Verdict(w, v)
        /\ form' = IF form[w] # None /\ form[w].phase = "running"
                   THEN [form EXCEPT ![w].phase = v] ELSE form
    /\ sets' = [sets EXCEPT ![w] = None]
    /\ UNCHANGED <<addr, startVars, tableVars, scanVars, shown>>

-----------------------------------------------------------------------------
Startup(w) == Version(w) \/ RefreshInterfaces(w) \/ StartupScan(w)
Scan(j)    == ScanStart(j) \/ ScanFinds(j) \/ ScanStalls(j) \/ ScanFails(j)

Next ==
    \/ \E w \in Window :
        \/ Startup(w) \/ PickInterface(w) \/ Select(w)
        \/ OpenSheet(w) \/ Cancel(w) \/ Apply(w) \/ CloseSheet(w)
        \/ CameraTakes(w) \/ SetReturns(w)
    \/ Rescan
    \/ \E j \in Job : Scan(j)

(* The main actor gets to the tasks, and the helper's list and set end unless
   they stall (SessionEnds; the one line set prints fits any pipe).          *)
Fairness ==
    /\ \A w \in Window : WF_vars(SetReturns(w))
    /\ \A j \in Job : WF_vars(Scan(j))

Spec == Init /\ [][Next]_vars
FairSpec == Spec /\ Fairness

-----------------------------------------------------------------------------
(* Properties *)

(* A task that has passed scan's guard and has not left. *)
Busy(j) == scans[j] \in {"listing", "stalled"}

(* scan's guard: however startup, the buttons and closing sheets call it, one
   listing runs at a time, and the spinner is up exactly while it does, or
   while a helper that cannot end keeps it from returning.                   *)
OneScanAtATime ==
    /\ Cardinality({j \in Job : Busy(j)}) <= 1
    /\ isScanning <=> \E j \in Job : Busy(j)

(* What is selected is listed: no scan leaves a selection behind that names
   no row of the table.                                                      *)
SelectionIsListed == selection # None => devices[selection] # None

(* The set a sheet starts is for the camera its fields were filled from,
   whatever scans end while it is open.                                      *)
SetIsForTheForm ==
    \A w \in Window :
        sets[w] # None /\ form[w] # None => sets[w].mac = form[w].mac

(* The spinners stop: a scan ends, on every path of it and with the helper's
   success or failure, and so does a set.  The one scan that does not is that
   of a helper whose result is larger than the pipe that run leaves unread
   (ProbeRunner.swift:64): isScanning stays up, and no scan runs again.      *)
SpinnersStop ==
    /\ isScanning ~> ~ isScanning \/ \E j \in Job : scans[j] = "stalled"
    /\ \A w \in Window : form[w] # None /\ form[w].phase = "running"
                            ~> form[w] = None \/ form[w].phase # "running"

(* "a change-network sheet that shows the helper's progress and verdict"
   (CHANGELOG.md:20): while the helper's set runs there is a sheet to show
   them.                                                                     *)
VerdictHasAPlace == \A w \in Window : sets[w] # None => form[w] # None
=============================================================================
