--------------------------- MODULE AppModel_proofs ---------------------------
(***************************************************************************)
(* What holds of the macOS app's state for every set of cameras, addresses *)
(* and interfaces, and any number of tasks that scan.                      *)
(***************************************************************************)
EXTENDS AppModel, FiniteSetTheorems, TLAPS

-----------------------------------------------------------------------------
(* Type correctness *)

(* Showing the sheets again keeps their type: their content is for a camera. *)
LEMMA RenderType ==
    ASSUME NEW f \in [Window -> Form \cup {None}], Render(f),
           selection' \in Mac \cup {None}
    PROVE  form' \in [Window -> Form \cup {None}]
<1>1. selectedDevice' # None => Editing(selectedDevice') \in Form
  BY DEF selectedDevice, Editing, Form
<1> QED
  BY <1>1 DEF Render

(* What scan ends with, whether or not the helper failed. *)
LEMMA ScanEndType ==
    ASSUME AppTypeOK, NEW j \in Job, ScanEnd(j)
    PROVE  /\ scans' \in [Job -> {"idle", "queued", "listing", "stalled"}]
           /\ saw' \in [Job -> [Mac -> SUBSET Addr]]
           /\ isScanning' \in BOOLEAN
           /\ UNCHANGED <<addr, startVars, shown, sets>>
<1>1. [m \in Mac |-> {}] \in [Mac -> SUBSET Addr]
  OBVIOUS
<1> QED
  BY <1>1 DEF AppTypeOK, ScanEnd

(* A selection that survives a scan is a camera. *)
LEMMA ReselectType ==
    ASSUME selection \in Mac \cup {None}, NEW table
    PROVE  Reselect(table) \in Mac \cup {None}
BY DEF Reselect

(* A sheet's fields are there only while a device is selected, so Apply always
   has a MAC for its command.                                               *)
FieldsHaveDevice == \A w \in Window : form[w] # None => selectedDevice # None

Typed == AppTypeOK /\ FieldsHaveDevice

(* Showing the sheets again leaves no fields without a device. *)
LEMMA RenderFields ==
    ASSUME NEW f, Render(f)
    PROVE  FieldsHaveDevice'
<1>1. \A w \in Window : form'[w] = IF ~ shown'[w] \/ selectedDevice' = None THEN None
                                   ELSE IF f[w] = None THEN Editing(selectedDevice')
                                   ELSE f[w]
  BY DEF Render
<1> QED
  BY <1>1 DEF FieldsHaveDevice

(* The app starts well typed. *)
LEMMA AppInitType == Init => Typed
<1> SUFFICES ASSUME Init
             PROVE  Typed
  OBVIOUS
<1>1. saw \in [Job -> [Mac -> SUBSET Addr]]
  <2>1. [m \in Mac |-> {}] \in [Mac -> SUBSET Addr]
    OBVIOUS
  <2> QED
    BY <2>1 DEF Init
<1>2. AppTypeOK
  BY <1>1, AppAssumption DEF Init, AppTypeOK
<1> QED
  BY <1>2 DEF Init, Typed, FieldsHaveDevice

(* Every task, view and helper keeps the types. *)
LEMMA AppStepType == Typed /\ [Next]_vars => Typed'
<1> SUFFICES ASSUME Typed, [Next]_vars
             PROVE  Typed'
  OBVIOUS
<1>a. AppTypeOK /\ FieldsHaveDevice
  BY DEF Typed
<1> USE DEF startVars, tableVars, scanVars, sheetVars
<1>1. ASSUME NEW w \in Window, Version(w)
      PROVE  AppTypeOK'
  BY <1>a, <1>1 DEF AppTypeOK, Version
<1>2. ASSUME NEW w \in Window, RefreshInterfaces(w)
      PROVE  AppTypeOK'
  BY <1>a, <1>2 DEF AppTypeOK, RefreshInterfaces
<1>3. ASSUME NEW w \in Window, StartupScan(w)
      PROVE  AppTypeOK'
  BY <1>a, <1>3 DEF AppTypeOK, StartupScan, Queue
<1>4. ASSUME NEW w \in Window, PickInterface(w)
      PROVE  AppTypeOK'
  BY <1>a, <1>4 DEF AppTypeOK, PickInterface
<1>5. ASSUME NEW w \in Window, Select(w)
      PROVE  AppTypeOK'
  <2>1. selection' \in Mac \cup {None}
    BY <1>5 DEF Select
  <2> QED
    BY <1>a, <1>5, <2>1, RenderType DEF AppTypeOK, Select
<1>6. ASSUME NEW w \in Window, OpenSheet(w)
      PROVE  AppTypeOK'
  BY <1>a, <1>6, RenderType DEF AppTypeOK, OpenSheet
<1>7. ASSUME NEW w \in Window, Cancel(w)
      PROVE  AppTypeOK'
  BY <1>a, <1>7, RenderType DEF AppTypeOK, Cancel
<1>8. ASSUME NEW w \in Window, Apply(w)
      PROVE  AppTypeOK'
  <2>1. form' \in [Window -> Form \cup {None}]
    BY <1>a, <1>8 DEF AppTypeOK, Apply, Form
  <2>2. selectedDevice \in Mac
    BY <1>a, <1>8 DEF AppTypeOK, Apply, FieldsHaveDevice, selectedDevice
  <2>3. sets' \in [Window -> Change \cup {None}]
    BY <1>a, <1>8, <2>2 DEF AppTypeOK, Apply, Change
  <2> QED
    BY <1>a, <1>8, <2>1, <2>3 DEF AppTypeOK, Apply
<1>9. ASSUME NEW w \in Window, CloseSheet(w)
      PROVE  AppTypeOK'
  BY <1>a, <1>9, RenderType DEF AppTypeOK, CloseSheet, Queue
<1>10. ASSUME NEW w \in Window, CameraTakes(w)
       PROVE  AppTypeOK'
  <2>1. sets[w].mac \in Mac /\ sets[w].ip \in Addr
    BY <1>a, <1>10 DEF AppTypeOK, CameraTakes, Change
  <2> QED
    BY <1>a, <1>10, <2>1 DEF AppTypeOK, CameraTakes
<1>11. ASSUME NEW w \in Window, SetReturns(w)
       PROVE  AppTypeOK'
  <2>1. form' \in [Window -> Form \cup {None}]
    BY <1>a, <1>11 DEF AppTypeOK, SetReturns, Form
  <2> QED
    BY <1>a, <1>11, <2>1 DEF AppTypeOK, SetReturns
<1>12. ASSUME Rescan
       PROVE  AppTypeOK'
  BY <1>a, <1>12 DEF AppTypeOK, Rescan, Queue
<1>13. ASSUME NEW j \in Job, ScanStart(j)
       PROVE  AppTypeOK'
  <2>1. [m \in Mac |-> {addr[m]}] \in [Mac -> SUBSET Addr]
    BY <1>a DEF AppTypeOK
  <2> QED
    BY <1>a, <1>13, <2>1 DEF AppTypeOK, ScanStart
<1>14. ASSUME NEW j \in Job, ScanFinds(j)
       PROVE  AppTypeOK'
  BY <1>a, <1>14, ScanEndType, ReselectType, RenderType DEF AppTypeOK, ScanFinds
<1>15. ASSUME NEW j \in Job, ScanFails(j)
       PROVE  AppTypeOK'
  BY <1>a, <1>15, ScanEndType DEF AppTypeOK, ScanFails
<1>16. ASSUME NEW j \in Job, ScanStalls(j)
       PROVE  AppTypeOK'
  <2>1. [m \in Mac |-> {}] \in [Mac -> SUBSET Addr]
    OBVIOUS
  <2> QED
    BY <1>a, <1>16, <2>1 DEF AppTypeOK, ScanStalls
<1>17. ASSUME UNCHANGED vars
       PROVE  AppTypeOK'
  BY <1>a, <1>17 DEF AppTypeOK, vars
<1>18. AppTypeOK'
  BY <1>1, <1>2, <1>3, <1>4, <1>5, <1>6, <1>7, <1>8, <1>9, <1>10, <1>11, <1>12,
     <1>13, <1>14, <1>15, <1>16, <1>17 DEF Next, Startup, Scan
<1>19. FieldsHaveDevice'
  <2>1. ASSUME UNCHANGED <<tableVars, form>>
        PROVE  FieldsHaveDevice'
    BY <1>a, <2>1 DEF FieldsHaveDevice, selectedDevice
  <2>2. ASSUME NEW w \in Window, Apply(w) \/ SetReturns(w)
        PROVE  FieldsHaveDevice'
    BY <1>a, <2>2 DEF FieldsHaveDevice, selectedDevice, AppTypeOK, Apply, SetReturns
  <2>3. ASSUME NEW w \in Window,
               Version(w) \/ RefreshInterfaces(w) \/ StartupScan(w) \/ PickInterface(w)
                 \/ CameraTakes(w)
        PROVE  FieldsHaveDevice'
    BY <2>1, <2>3 DEF Version, RefreshInterfaces, StartupScan, PickInterface, CameraTakes
  <2>4. ASSUME NEW w \in Window,
               Select(w) \/ OpenSheet(w) \/ Cancel(w) \/ CloseSheet(w)
        PROVE  FieldsHaveDevice'
    BY <2>4, RenderFields DEF Select, OpenSheet, Cancel, CloseSheet
  <2>5. ASSUME NEW j \in Job, Scan(j)
        PROVE  FieldsHaveDevice'
    BY <2>1, <2>5, RenderFields DEF Scan, ScanStart, ScanFinds, ScanStalls, ScanFails
  <2>6. ASSUME Rescan \/ UNCHANGED vars
        PROVE  FieldsHaveDevice'
    BY <2>1, <2>6 DEF Rescan, vars
  <2> QED
    BY <2>2, <2>3, <2>4, <2>5, <2>6 DEF Next, Startup
<1> QED
  BY <1>18, <1>19 DEF Typed

(* Throughout, the app's state has its types. *)
THEOREM AppTypeCorrect == Spec => []AppTypeOK
<1>1. Typed => AppTypeOK
  BY DEF Typed
<1> QED
  BY <1>1, AppInitType, AppStepType, PTL DEF Spec

-----------------------------------------------------------------------------
(* One scan at a time *)

(* The spinner is up while a task lists or has stalled, and no two do. *)
OneListing ==
    /\ \A i, j \in Job : Busy(i) /\ Busy(j) => i = j
    /\ isScanning <=> \E j \in Job : Busy(j)

(* scan's guard and its two assignments to isScanning keep it so. *)
LEMMA OneListingStep == AppTypeOK /\ OneListing /\ [Next]_vars => OneListing'
<1> SUFFICES ASSUME AppTypeOK, OneListing, [Next]_vars
             PROVE  OneListing'
  OBVIOUS
<1> USE DEF OneListing, Busy, scanVars
<1>t. scans \in [Job -> {"idle", "queued", "listing", "stalled"}]
  BY DEF AppTypeOK
<1>1. ASSUME Queue, UNCHANGED isScanning
      PROVE  OneListing'
  BY <1>t, <1>1 DEF Queue
<1>2. ASSUME NEW w \in Window, StartupScan(w) \/ CloseSheet(w)
      PROVE  OneListing'
  BY <1>1, <1>2 DEF StartupScan, CloseSheet
<1>3. CASE Rescan
  BY <1>1, <1>3 DEF Rescan
<1>4. ASSUME NEW j \in Job, ScanStart(j)
      PROVE  OneListing'
  BY <1>t, <1>4 DEF ScanStart
<1>5. ASSUME NEW j \in Job, ScanFinds(j) \/ ScanFails(j)
      PROVE  OneListing'
  BY <1>t, <1>5 DEF ScanFinds, ScanFails, ScanEnd
<1>6. ASSUME NEW j \in Job, ScanStalls(j)
      PROVE  OneListing'
  BY <1>t, <1>6 DEF ScanStalls
<1>7. ASSUME UNCHANGED <<scans, isScanning>>
      PROVE  OneListing'
  BY <1>7
<1>8. ASSUME NEW w \in Window,
             Version(w) \/ RefreshInterfaces(w) \/ PickInterface(w) \/ Select(w)
               \/ OpenSheet(w) \/ Cancel(w) \/ Apply(w) \/ CameraTakes(w) \/ SetReturns(w)
      PROVE  OneListing'
  BY <1>7, <1>8 DEF Version, RefreshInterfaces, PickInterface, Select, OpenSheet,
     Cancel, Apply, CameraTakes, SetReturns
<1>9. CASE UNCHANGED vars
  BY <1>7, <1>9 DEF vars
<1> QED
  BY <1>2, <1>3, <1>4, <1>5, <1>8, <1>9, <1>6 DEF Next, Startup, Scan

(* However many tasks call scan, one lists at a time, and the spinner is up
   exactly while it does.                                                   *)
THEOREM Exclusion == Spec => []OneScanAtATime
<1>1. Init => OneListing
  BY DEF Init, OneListing, Busy
<1>2. OneListing => OneScanAtATime
  <2> SUFFICES ASSUME OneListing
               PROVE  Cardinality({j \in Job : Busy(j)}) <= 1
    BY DEF OneListing, OneScanAtATime
  <2> DEFINE busy == {j \in Job : Busy(j)}
  <2>1. CASE busy = {}
    BY <2>1, FS_EmptySet
  <2>2. CASE busy # {}
    <3>1. PICK j \in Job : Busy(j)
      BY <2>2
    <3>2. busy = {j}
      BY <3>1 DEF OneListing
    <3>3. Cardinality(busy) = 1
      BY <3>2, FS_Singleton
    <3> QED
      BY <3>3
  <2> QED
    BY <2>1, <2>2
<1> QED
  BY <1>1, <1>2, AppTypeCorrect, OneListingStep, PTL DEF Spec

-----------------------------------------------------------------------------
(* The selection *)

(* scan replaces the table and drops a selection it does not list. *)
LEMMA SelectionStep == AppTypeOK /\ SelectionIsListed /\ [Next]_vars => SelectionIsListed'
<1> SUFFICES ASSUME AppTypeOK, SelectionIsListed, [Next]_vars
             PROVE  SelectionIsListed'
  OBVIOUS
<1> USE DEF SelectionIsListed, tableVars
<1>1. ASSUME NEW w \in Window, Select(w)
      PROVE  SelectionIsListed'
  BY <1>1 DEF Select
<1>2. ASSUME NEW j \in Job, ScanFinds(j)
      PROVE  SelectionIsListed'
  BY <1>2 DEF ScanFinds, Reselect
<1>3. ASSUME UNCHANGED tableVars
      PROVE  SelectionIsListed'
  BY <1>3
<1>4. ASSUME NEW w \in Window,
             Startup(w) \/ PickInterface(w) \/ OpenSheet(w) \/ Cancel(w) \/ Apply(w)
               \/ CloseSheet(w) \/ CameraTakes(w) \/ SetReturns(w)
      PROVE  SelectionIsListed'
  BY <1>3, <1>4 DEF Startup, Version, RefreshInterfaces, StartupScan, PickInterface,
     OpenSheet, Cancel, Apply, CloseSheet, CameraTakes, SetReturns
<1>5. ASSUME NEW j \in Job, ScanStart(j) \/ ScanStalls(j) \/ ScanFails(j)
      PROVE  SelectionIsListed'
  BY <1>3, <1>5 DEF ScanStart, ScanStalls, ScanFails
<1>6. CASE Rescan \/ UNCHANGED vars
  BY <1>3, <1>6 DEF Rescan, vars
<1> QED
  BY <1>1, <1>2, <1>4, <1>5, <1>6 DEF Next, Scan

(* No schedule of scans leaves a selection that names no row. *)
THEOREM Selection == Spec => []SelectionIsListed
<1>1. Init => SelectionIsListed
  BY DEF Init, SelectionIsListed
<1> QED
  BY <1>1, AppTypeCorrect, SelectionStep, PTL DEF Spec

-----------------------------------------------------------------------------
(* The sheet *)

(* A sheet's fields stay with the camera they were filled from, because the
   sheet keeps its window's selection from moving on to another one: it can
   only be lost, and the fields with it.                                    *)
SheetHolds(w) ==
    /\ form[w] # None => /\ shown[w]
                         /\ selection = form[w].mac
                         /\ sets[w] # None => /\ form[w].phase = "running"
                                              /\ sets[w].mac = form[w].mac
    /\ form[w] = None /\ shown[w] => selectedDevice = None
    /\ sets[w] # None => shown[w]

SheetsHold == \A w \in Window : SheetHolds(w)

(* With one window the sheets hold whatever the tasks and helpers do. *)
LEMMA SheetsHoldStep ==
    ASSUME \A v, w \in Window : v = w,
           Typed, SelectionIsListed, SheetsHold, [Next]_vars
    PROVE  SheetsHold'
<1> SUFFICES ASSUME NEW w \in Window
             PROVE  SheetHolds(w)'
  BY DEF SheetsHold
<1>0. /\ SheetHolds(w)
      /\ \A v \in Window : v = w
  BY DEF SheetsHold
<1>t. /\ form \in [Window -> Form \cup {None}]
      /\ sets \in [Window -> Change \cup {None}]
      /\ shown \in [Window -> BOOLEAN]
      /\ selection \in Mac \cup {None}
      /\ form[w] # None => selectedDevice # None
  BY DEF Typed, AppTypeOK, FieldsHaveDevice
<1>n. None \notin Mac /\ None \notin Form /\ None \notin Change
  BY AppAssumption
<1>1. ASSUME UNCHANGED <<tableVars, sheetVars>>
      PROVE  SheetHolds(w)'
  BY <1>0, <1>1 DEF SheetHolds, selectedDevice, tableVars, sheetVars
<1>2. CASE Select(w)
  BY <1>0, <1>t, <1>n, <1>2 DEF Select, Render, SheetHolds, Editing
<1>3. CASE OpenSheet(w)
  <2>1. selectedDevice' = selection /\ selection' = selection /\ selection \in Mac
    BY <1>t, <1>3 DEF OpenSheet, selectedDevice, tableVars
  <2>2. form[w] = None /\ sets[w] = None /\ shown'[w]
    BY <1>0, <1>t, <1>3 DEF OpenSheet, SheetHolds
  <2>3. form'[w] = Editing(selection)
    BY <1>n, <1>3, <2>1, <2>2 DEF OpenSheet, Render
  <2>4. Editing(selection) \in Form /\ Editing(selection).mac = selection
    BY <2>1 DEF Editing, Form
  <2> QED
    BY <1>n, <1>3, <2>1, <2>2, <2>3, <2>4 DEF OpenSheet, SheetHolds
<1>4. CASE Cancel(w)
  BY <1>0, <1>t, <1>4 DEF Cancel, Render, SheetHolds
<1>5. CASE Apply(w)
  <2>1. selectedDevice = selection /\ form[w].mac = selection /\ shown[w]
    BY <1>0, <1>t, <1>5 DEF Apply, SheetHolds, selectedDevice
  <2>2. form'[w] \in Form /\ form'[w].mac = form[w].mac /\ form'[w].phase = "running"
    BY <1>t, <1>5 DEF Apply, Form
  <2>3. sets'[w].mac = selectedDevice
    BY <1>t, <1>5 DEF Apply
  <2> QED
    BY <1>n, <1>5, <2>1, <2>2, <2>3 DEF Apply, SheetHolds, tableVars
<1>6. CASE CloseSheet(w)
  <2>1. sets[w] = None
    BY <1>0, <1>6 DEF CloseSheet, SheetHolds, Done
  <2> QED
    BY <1>0, <1>t, <1>6, <2>1 DEF CloseSheet, Render, SheetHolds
<1>7. CASE SetReturns(w)
  <2>1. sets'[w] = None /\ UNCHANGED <<selection, shown, selectedDevice>>
    BY <1>t, <1>7 DEF SetReturns, selectedDevice, tableVars
  <2>2. CASE form' = form
    BY <1>0, <2>1, <2>2 DEF SheetHolds
  <2>3. ASSUME NEW v \in Done, form[w] # None, form' = [form EXCEPT ![w].phase = v]
        PROVE  SheetHolds(w)'
    <3>1. form'[w] \in Form /\ form'[w].mac = form[w].mac
      BY <1>t, <2>3 DEF Form
    <3> QED
      BY <1>0, <1>n, <2>1, <2>3, <3>1 DEF SheetHolds
  <2> QED
    BY <1>7, <2>2, <2>3 DEF SetReturns
<1>8. ASSUME NEW j \in Job, ScanFinds(j)
      PROVE  SheetHolds(w)'
  <2>1. selection' = selection \/ selection' = None
    BY <1>8 DEF ScanFinds, Reselect
  <2>2. selection' # None => selectedDevice' = selection'
    BY <1>8 DEF ScanFinds, Reselect, selectedDevice
  <2>3. selection' = None => selectedDevice' = None
    BY DEF selectedDevice
  <2>4. UNCHANGED <<shown, sets>>
    BY <1>8 DEF ScanFinds, ScanEnd
  <2>5. form'[w] = IF ~ shown[w] \/ selectedDevice' = None THEN None
                   ELSE IF form[w] = None THEN Editing(selectedDevice') ELSE form[w]
    BY <1>8, <2>4 DEF ScanFinds, Render
  <2>6. selection' # None => selectedDevice = selection
    BY <2>1 DEF selectedDevice, SelectionIsListed
  <2> QED
    BY <1>0, <2>1, <2>2, <2>3, <2>4, <2>5, <2>6 DEF SheetHolds
<1>9. CASE \/ Version(w) \/ RefreshInterfaces(w) \/ StartupScan(w) \/ PickInterface(w)
           \/ CameraTakes(w) \/ Rescan \/ UNCHANGED vars
  BY <1>1, <1>9 DEF Version, RefreshInterfaces, StartupScan, PickInterface, CameraTakes,
     Rescan, vars, tableVars, sheetVars
<1>10. ASSUME NEW j \in Job, ScanStart(j) \/ ScanStalls(j) \/ ScanFails(j)
       PROVE  SheetHolds(w)'
  BY <1>1, <1>10 DEF ScanStart, ScanStalls, ScanFails, ScanEnd, tableVars, sheetVars
<1> QED
  BY <1>0, <1>2, <1>3, <1>4, <1>5, <1>6, <1>7, <1>8, <1>9, <1>10 DEF Next, Startup, Scan

(* With one window, a set is for the camera whose fields the operator edited,
   whatever scans end meanwhile.  (Two windows share the selection, and one
   may move it under the other's sheet.)                                    *)
THEOREM RightCamera ==
    ASSUME \A v, w \in Window : v = w
    PROVE  Spec => []SetIsForTheForm
<1>1. Init => SheetsHold
  BY DEF Init, SheetsHold, SheetHolds
<1>2. SheetsHold => SetIsForTheForm
  BY DEF SheetsHold, SheetHolds, SetIsForTheForm
<1>3. Typed /\ SelectionIsListed /\ SheetsHold /\ [Next]_vars => SheetsHold'
  BY SheetsHoldStep
<1> QED
  BY <1>1, <1>2, <1>3, AppInitType, AppStepType, Selection, PTL DEF Spec
=============================================================================
