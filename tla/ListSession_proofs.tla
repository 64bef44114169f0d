------------------------- MODULE ListSession_proofs -------------------------
(***************************************************************************)
(* What `ipcprobe list` and `show` print is what was announced, for every  *)
(* set of cameras, sockets, commands of other tools and buffer sizes.      *)
(***************************************************************************)
EXTENDS ListSession, Network_proofs, FiniteSetTheorems

-----------------------------------------------------------------------------
(* Type correctness *)

(* A listing starts well typed. *)
LEMMA ListInitType == Init => ListTypeOK
<1> SUFFICES ASSUME Init
             PROVE  ListTypeOK
  OBVIOUS
<1> USE DEF Init
<1>1. WireTypeOK
  BY DEF WireInit, WireTypeOK
<1>2. CameraTypeOK
  BY CameraAssumption DEF CameraInit, CameraTypeOK
<1>3. ConnTypeOK
  <2>1. devices \in [Mac -> Cfg \cup {None}] /\ acks \in Seq(Acknowledgement)
    BY DEF ConnInit, NoDevices
  <2>2. /\ held \in [Sock -> ToolDatagram \cup {None}]
        /\ wk \in [Sock -> {"idle", "read", "merge", "returned"}]
        /\ \A s \in Sock : wk[s] = "merge" => held[s] \in ToolDatagram
    BY DEF ConnInit
  <2>3. todo \subseteq Sock /\ now \in Nat /\ until \in Nat /\ sendErr \in BOOLEAN
    BY DEF ConnInit
  <2> QED
    BY <2>1, <2>2, <2>3 DEF ConnTypeOK
<1> QED
  BY <1>1, <1>2, <1>3 DEF ListTypeOK

(* What the command itself does keeps the types. *)
LEMMA ListSessionType ==
    ASSUME ListTypeOK, SessionStep
    PROVE  /\ WireTypeOK' /\ ConnTypeOK'
           /\ pc' \in {"start", "probe", "discover", "print", "exit"}
           /\ target' = target
           /\ code' \in {0, 1, 2, None}
<1> DEFINE Typed ==
      /\ WireTypeOK' /\ ConnTypeOK'
      /\ pc' \in {"start", "probe", "discover", "print", "exit"}
      /\ target' = target
      /\ code' \in {0, 1, 2, None}
<1> USE DEF ListTypeOK, sessionVars
<1>1. ASSUME Fail \/ PrintResult
      PROVE  Typed
  <2>1. PICK n \in {0, 1, 2} : Return(n)
    BY <1>1 DEF Fail, PrintResult
  <2>2. WireTypeOK'
    BY <2>1 DEF Return, Close, WireTypeOK
  <2>3. ConnTypeOK'
    BY <2>1 DEF Return, ConnTypeOK, connVars, sendVars, collectVars, resultVars
  <2> QED
    BY <2>1, <2>2, <2>3 DEF Return
<1>2. ASSUME OpenConn
      PROVE  Typed
  <2>1. PICK J \in SUBSET Sock : Open(J) /\ todo' = J
    BY <1>2 DEF OpenConn
  <2>2. WireTypeOK'
    BY <1>2, <2>1 DEF OpenConn, Open, WireTypeOK
  <2>3. ConnTypeOK'
    BY <1>2, <2>1 DEF OpenConn, ConnTypeOK, collectVars, resultVars
  <2> QED
    BY <1>2, <2>2, <2>3 DEF OpenConn
<1>3. ASSUME NEW s \in Sock, SendProbe(s)
      PROVE  Typed
  <2>1. SendOn(s, Search) /\ Search \in CameraDatagram
    BY <1>3 DEF SendProbe, CameraDatagram
  <2> QED
    BY <1>3, <2>1, SendOnType DEF SendProbe
<1>4. ASSUME Discover
      PROVE  Typed
  <2>1. ConnTypeOK'
    BY <1>4, CollectStartType, ListAssumption DEF Discover, sendVars
  <2> QED
    BY <1>4, <2>1 DEF Discover, wireVars, WireTypeOK
<1>5. ASSUME ProbeFails
      PROVE  Typed
  <2>1. ConnTypeOK'
    BY <1>5 DEF ProbeFails, ConnTypeOK, connVars, sendVars, collectVars, resultVars
  <2> QED
    BY <1>5, <2>1 DEF ProbeFails, wireVars, WireTypeOK
<1>6. ASSUME Discovered
      PROVE  Typed
  <2>1. ConnTypeOK'
    BY <1>6, CollectEndType DEF Discovered, sendVars
  <2> QED
    BY <1>6, <2>1 DEF Discovered, wireVars, WireTypeOK
<1> QED
  BY <1>1, <1>2, <1>3, <1>4, <1>5, <1>6 DEF SessionStep

(* Whatever is read beside Collect's own steps, it is a step of Conn. *)
LEMMA CollectIsCollectStep == Collect => CollectStep
BY DEF Collect, CollectStep

(* Reading adds only configurations to what was heard. *)
LEMMA HeardType ==
    ASSUME ListTypeOK, Collect
    PROVE  heard' \in [Mac -> SUBSET Cfg]
<1>1. CASE heard' = heard
  BY <1>1 DEF ListTypeOK
<1>2. ASSUME NEW s \in Sock, CollectRead(s), HeardStep(s)
      PROVE  heard' \in [Mac -> SUBSET Cfg]
  <2>1. rx[s] # << >> /\ rx[s] \in Seq(ToolDatagram)
    BY <1>2 DEF CollectRead, ListTypeOK, WireTypeOK
  <2>2. Head(rx[s]) \in ToolDatagram
    BY <2>1, TailElements
  <2>3. CASE Head(rx[s]).type = "announce"
    <3>1. Head(rx[s]).mac \in Mac /\ Head(rx[s]).cfg \in Cfg
      BY <2>2, <2>3, WireAssumption DEF ToolDatagram, Announcement, Acknowledgement
    <3>2. heard' = [heard EXCEPT ![Head(rx[s]).mac] =
                        heard[Head(rx[s]).mac] \cup {Head(rx[s]).cfg}]
      BY <1>2, <2>3 DEF HeardStep
    <3> QED
      BY <3>1, <3>2 DEF ListTypeOK
  <2>4. CASE Head(rx[s]).type # "announce"
    BY <1>1, <1>2, <2>4 DEF HeardStep
  <2> QED
    BY <2>3, <2>4
<1> QED
  BY <1>1, <1>2 DEF Collect

(* Every step of the command, of Collect, of a camera or of another tool
   keeps the types. *)
LEMMA ListStepType == ListTypeOK /\ [Next]_vars => ListTypeOK'
<1> SUFFICES ASSUME ListTypeOK, [Next]_vars
             PROVE  ListTypeOK'
  OBVIOUS
<1> USE DEF ListTypeOK
<1>1. CASE Session
  <2>1. CameraTypeOK'
    BY <1>1 DEF Session, CameraTypeOK, cameraVars, deviceVars, announceVars, commandVars
  <2> QED
    BY <1>1, <2>1, ListSessionType DEF Session
<1>2. CASE Collect
  <2>1. WireTypeOK' /\ ConnTypeOK'
    BY <1>2, CollectIsCollectStep, CollectStepType, WireAssumption
  <2>2. CameraTypeOK'
    BY <1>2 DEF Collect, CameraTypeOK, cameraVars, deviceVars, announceVars, commandVars
  <2> QED
    BY <1>2, <2>1, <2>2, HeardType DEF Collect, sessionVars
<1>3. CASE Cameras
  <2>1. WireTypeOK' /\ CameraTypeOK'
    BY <1>3, CameraStepType DEF Cameras
  <2>2. ConnTypeOK'
    BY <1>3 DEF Cameras, ConnTypeOK, connVars, sendVars, collectVars, resultVars
  <2> QED
    BY <1>3, <2>1, <2>2 DEF Cameras, sessionVars
<1>4. CASE OtherTool
  <2>1. PICK m \in others : ToCameras(m) /\ others' = others \ {m}
    BY <1>4 DEF OtherTool
  <2>2. m \in CameraDatagram
    BY ListAssumption DEF CameraDatagram
  <2>3. WireTypeOK'
    BY <1>4, <2>1, <2>2, ToCamerasEffect DEF OtherTool, WireTypeOK
  <2>4. CameraTypeOK' /\ ConnTypeOK'
    BY <1>4 DEF OtherTool, CameraTypeOK, cameraVars, deviceVars, announceVars,
                commandVars, ConnTypeOK, connVars, sendVars, collectVars, resultVars
  <2> QED
    BY <1>4, <2>1, <2>3, <2>4 DEF OtherTool, sessionVars
<1>5. CASE UNCHANGED vars
  BY <1>5 DEF vars, WireTypeOK, wireVars, CameraTypeOK, cameraVars, deviceVars,
              announceVars, commandVars, ConnTypeOK, connVars, sendVars, collectVars,
              resultVars, sessionVars
<1> QED
  BY <1>1, <1>2, <1>3, <1>4, <1>5 DEF Next

(* Every variable of a listing keeps its type. *)
THEOREM ListTypeCorrect == Spec => []ListTypeOK
BY ListInitType, ListStepType, PTL DEF Spec

-----------------------------------------------------------------------------
(* What is listed was a camera's configuration *)

(* d is, or was, the configuration of the camera c. *)
Had(c, d) ==
    /\ c \in Camera
    /\ d = factory[c] \/ \E i \in DOMAIN log[c] : log[c][i] = d

HadDatagram(m) == m.type = "announce" => Had(m.mac, m.cfg)

(* The strengthening of ListedIsReal: an announcement speaks of what its camera
   had, from the moment it is built until it is listed.                      *)
AnnouncedIsReal ==
    /\ \A c \in Camera : Had(c, dev[c])
    /\ \A c \in Camera : annPc[c] = "send" => Had(c, snap[c])
    /\ \A s \in Sock : \A i \in DOMAIN rx[s] : HadDatagram(rx[s][i])
    /\ \A s \in Sock : wk[s] = "merge" => HadDatagram(held[s])
    /\ \A m \in Mac : devices[m] # None => Had(m, devices[m])

(* The command itself empties the sockets or leaves them, and starts Collect
   from nothing. *)
LEMMA ListSessionEffect ==
    ASSUME SessionStep
    PROVE  /\ rx' = rx \/ rx' = [s \in Sock |-> << >>]
           /\ held' = held /\ \A s \in Sock : wk'[s] = "merge" => wk[s] = "merge"
           /\ devices' = devices \/ devices' = NoDevices
BY DEF SessionStep, Fail, OpenConn, SendProbe, Discover, ProbeFails, Discovered,
       PrintResult, Return, Open, Close, SendOn, CollectStart, CollectEnd, wireVars,
       connVars, sendVars, collectVars, resultVars

(* Only a camera's own step changes a camera's record. *)
LEMMA ListRecordsElsewhere ==
    ASSUME Session \/ Collect \/ OtherTool \/ UNCHANGED vars
    PROVE  UNCHANGED <<dev, log, annPc, snap>>
BY DEF Session, Collect, OtherTool, vars, cameraVars, deviceVars, announceVars

(* Had(c, d) in the next state. *)
StillHad(c, d) ==
    /\ c \in Camera
    /\ d = factory[c] \/ \E i \in DOMAIN log'[c] : log'[c][i] = d

StillHadDatagram(m) == m.type = "announce" => StillHad(m.mac, m.cfg)

(* What a camera had, it has had ever since. *)
LEMMA HadStays ==
    ASSUME ListTypeOK, [Next]_vars, NEW c \in Camera, NEW d, Had(c, d)
    PROVE  StillHad(c, d)
<1>1. CASE log' = log
  BY <1>1 DEF Had, StillHad
<1>2. CASE log' # log
  <2>1. PICK e \in Camera : CameraStep(e)
    BY <1>2, ListRecordsElsewhere DEF Next, Cameras
  <2>2. log' = [log EXCEPT ![e] = Append(log[e], pkt[e].cfg)]
    BY <1>2, <2>1, CameraEffect DEF ListTypeOK
  <2>3. log[c] \in Seq(Cfg) /\ log \in [Camera -> Seq(Cfg)]
    BY DEF ListTypeOK, CameraTypeOK
  <2>4. log'[c] = log[c] \/ log'[c] = Append(log[c], pkt[e].cfg)
    BY <2>2, <2>3
  <2>5. \A i \in DOMAIN log[c] : i \in DOMAIN log'[c] /\ log'[c][i] = log[c][i]
    <3>1. CASE log'[c] = log[c]
      BY ONLY <3>1
    <3>2. CASE log'[c] = Append(log[c], pkt[e].cfg)
      BY ONLY <2>3, <3>2
    <3> QED
      BY <2>4, <3>1, <3>2
  <2> QED
    BY <2>5 DEF Had, StillHad
<1> QED
  BY <1>1, <1>2

(* So a true datagram remains true. *)
LEMMA HadDatagramStays ==
    ASSUME ListTypeOK, [Next]_vars, NEW m \in ToolDatagram, HadDatagram(m)
    PROVE  StillHadDatagram(m)
BY HadStays DEF HadDatagram, StillHadDatagram, ToolDatagram, Announcement, Acknowledgement

(* The record a command leaves is in the log. *)
LEMMA DevHadStep ==
    ASSUME ListTypeOK, AnnouncedIsReal, [Next]_vars
    PROVE  \A c \in Camera : StillHad(c, dev'[c])
<1>1. TAKE c \in Camera
<1>2. CASE dev' = dev
  BY <1>2, HadStays DEF AnnouncedIsReal
<1>3. CASE dev' # dev
  <2>1. PICK e \in Camera : CameraStep(e)
    BY <1>3, ListRecordsElsewhere DEF Next, Cameras
  <2>2. /\ dev' = [dev EXCEPT ![e] = pkt[e].cfg]
        /\ log' = [log EXCEPT ![e] = Append(log[e], pkt[e].cfg)]
        /\ cmdPc[e] = "apply"
    BY <1>3, <2>1, CameraEffect DEF ListTypeOK
  <2>3. CASE c = e
    <3>1. log[c] \in Seq(Cfg) /\ pkt[c].cfg \in Cfg /\ dev'[c] = pkt[c].cfg
      BY <2>2, <2>3 DEF ListTypeOK, CameraTypeOK, Command
    <3>2. log'[c] = Append(log[c], pkt[c].cfg)
      BY <2>2, <2>3 DEF ListTypeOK, CameraTypeOK
    <3>3. /\ Len(log[c]) + 1 \in DOMAIN log'[c]
          /\ log'[c][Len(log[c]) + 1] = pkt[c].cfg
      BY <3>1, <3>2
    <3> QED
      BY <3>1, <3>3 DEF StillHad
  <2>4. CASE c # e
    <3>1. dev'[c] = dev[c]
      BY <2>2, <2>4 DEF ListTypeOK, CameraTypeOK
    <3> QED
      BY <3>1, HadStays DEF AnnouncedIsReal
  <2> QED
    BY <2>3, <2>4
<1> QED
  BY <1>2, <1>3

(* An announcement is built from the record as it is. *)
LEMMA SnapHadStep ==
    ASSUME ListTypeOK, AnnouncedIsReal, [Next]_vars
    PROVE  \A c \in Camera : annPc'[c] = "send" => StillHad(c, snap'[c])
<1> SUFFICES ASSUME NEW c \in Camera, annPc'[c] = "send"
             PROVE  StillHad(c, snap'[c])
  OBVIOUS
<1>1. CASE annPc[c] = "send" /\ snap'[c] = snap[c]
  BY <1>1, HadStays DEF AnnouncedIsReal
<1>2. CASE snap'[c] = dev[c]
  BY <1>2, HadStays DEF AnnouncedIsReal
<1>3. CASE Cameras
  BY <1>1, <1>2, <1>3, CameraEffect DEF Cameras, ListTypeOK
<1> QED
  BY <1>1, <1>3, ListRecordsElsewhere DEF Next

(* A socket hears only what was announced. *)
LEMMA RxHadStep ==
    ASSUME ListTypeOK, AnnouncedIsReal, [Next]_vars
    PROVE  \A s \in Sock : \A i \in DOMAIN rx'[s] : StillHadDatagram(rx'[s][i])
<1> SUFFICES ASSUME NEW s \in Sock, NEW i \in DOMAIN rx'[s]
             PROVE  StillHadDatagram(rx'[s][i])
  OBVIOUS
<1>1. ASSUME NEW j \in DOMAIN rx[s], rx'[s][i] = rx[s][j]
      PROVE  StillHadDatagram(rx'[s][i])
  <2>1. rx[s][j] \in ToolDatagram
    BY DEF ListTypeOK, WireTypeOK
  <2>2. StillHadDatagram(rx[s][j])
    BY <2>1, HadDatagramStays DEF AnnouncedIsReal
  <2> QED
    BY <1>1, <2>2
<1>2. CASE Session
  BY <1>1, <1>2, ListSessionEffect DEF Session
<1>3. CASE Collect
  BY <1>1, <1>3, CollectIsCollectStep, CollectEffect DEF ListTypeOK
<1>4. CASE Cameras
  <2>1. PICK c \in Camera : CameraStep(c)
    BY <1>4 DEF Cameras
  <2>2. CASE rx' = rx
    BY <1>1, <2>2
  <2>3. CASE annPc[c] = "send" /\ ToTools(Announce(c, snap[c]))
    <3>1. Announce(c, snap[c]) \in ToolDatagram
      BY <2>3 DEF Announce, ToolDatagram, Announcement, ListTypeOK, CameraTypeOK
    <3>2. HadDatagram(Announce(c, snap[c]))
      BY <2>3 DEF HadDatagram, Announce, AnnouncedIsReal
    <3>3. StillHadDatagram(Announce(c, snap[c]))
      BY <3>1, <3>2, HadDatagramStays
    <3> QED
      BY <1>1, <2>3, <3>1, <3>3, ToToolsEffect DEF ListTypeOK, WireTypeOK
  <2>4. CASE cmdPc[c] = "ack" /\ ToTools(SetAck(c, pkt[c].from))
    <3>1. SetAck(c, pkt[c].from) \in ToolDatagram
      BY <2>4 DEF SetAck, ToolDatagram, Acknowledgement, Command, ListTypeOK, CameraTypeOK
    <3>2. StillHadDatagram(SetAck(c, pkt[c].from))
      BY DEF StillHadDatagram, SetAck
    <3> QED
      BY <1>1, <2>4, <3>1, <3>2, ToToolsEffect DEF ListTypeOK, WireTypeOK
  <2> QED
    BY <2>1, <2>2, <2>3, <2>4, CameraEffect DEF ListTypeOK
<1>5. CASE OtherTool \/ UNCHANGED vars
  BY <1>1, <1>5 DEF OtherTool, vars, wireVars
<1> QED
  BY <1>2, <1>3, <1>4, <1>5 DEF Next

(* A goroutine of Collect holds only what its socket heard. *)
LEMMA HeldHadStep ==
    ASSUME ListTypeOK, AnnouncedIsReal, [Next]_vars
    PROVE  \A s \in Sock : wk'[s] = "merge" => StillHadDatagram(held'[s])
<1> SUFFICES ASSUME NEW s \in Sock, wk'[s] = "merge"
             PROVE  StillHadDatagram(held'[s])
  OBVIOUS
<1>1. ASSUME wk[s] = "merge", held'[s] = held[s]
      PROVE  StillHadDatagram(held'[s])
  <2>1. held[s] \in ToolDatagram
    BY <1>1 DEF ListTypeOK, ConnTypeOK
  <2> QED
    BY <1>1, <2>1, HadDatagramStays DEF AnnouncedIsReal
<1>2. CASE Session
  BY <1>1, <1>2, ListSessionEffect DEF Session
<1>3. CASE Collect
  <2>1. ASSUME NEW j \in DOMAIN rx[s], held'[s] = rx[s][j]
        PROVE  StillHadDatagram(held'[s])
    <3>1. rx[s][j] \in ToolDatagram
      BY DEF ListTypeOK, WireTypeOK
    <3> QED
      BY <2>1, <3>1, HadDatagramStays DEF AnnouncedIsReal
  <2> QED
    BY <1>1, <1>3, <2>1, CollectIsCollectStep, CollectEffect DEF ListTypeOK
<1>4. CASE Cameras \/ OtherTool \/ UNCHANGED vars
  BY <1>1, <1>4 DEF Cameras, OtherTool, vars, connVars, collectVars
<1> QED
  BY <1>2, <1>3, <1>4 DEF Next

(* Collect's result holds only what its goroutines held. *)
LEMMA DevicesHadStep ==
    ASSUME ListTypeOK, AnnouncedIsReal, [Next]_vars
    PROVE  \A m \in Mac : devices'[m] # None => StillHad(m, devices'[m])
<1> SUFFICES ASSUME NEW m \in Mac, devices'[m] # None
             PROVE  StillHad(m, devices'[m])
  OBVIOUS
<1>1. devices[m] # None => StillHad(m, devices[m])
  BY HadStays DEF AnnouncedIsReal, Had
<1>2. CASE Session
  BY <1>1, <1>2, ListSessionEffect DEF Session, NoDevices
<1>3. CASE Collect
  <2>1. ASSUME NEW s \in Sock, wk[s] = "merge", held[s] \in Announcement,
               devices' = [devices EXCEPT ![held[s].mac] = held[s].cfg]
        PROVE  StillHad(m, devices'[m])
    <3>1. CASE m = held[s].mac
      <4>1. m \in Camera /\ held[s].type = "announce" /\ devices'[m] = held[s].cfg
        BY <2>1, <3>1 DEF Announcement, ListTypeOK, ConnTypeOK
      <4> QED
        BY <2>1, <3>1, <4>1, HadStays DEF AnnouncedIsReal, HadDatagram
    <3>2. CASE m # held[s].mac
      <4>1. devices'[m] = devices[m]
        BY <2>1, <3>2 DEF ListTypeOK, ConnTypeOK
      <4> QED
        BY <1>1, <4>1
    <3> QED
      BY <3>1, <3>2
  <2> QED
    BY <1>1, <1>3, <2>1, CollectIsCollectStep, CollectEffect DEF ListTypeOK
<1>4. CASE Cameras \/ OtherTool \/ UNCHANGED vars
  BY <1>1, <1>4 DEF Cameras, OtherTool, vars, connVars, collectVars, resultVars
<1> QED
  BY <1>2, <1>3, <1>4 DEF Next

(* Every step keeps announcements true. *)
LEMMA AnnouncedIsRealStep ==
    ListTypeOK /\ AnnouncedIsReal /\ [Next]_vars => AnnouncedIsReal'
BY DevHadStep, SnapHadStep, RxHadStep, HeldHadStep, DevicesHadStep
   DEF AnnouncedIsReal, Had, StillHad, HadDatagram, StillHadDatagram

(* Nothing on the way from a camera's record to the list makes a device up. *)
THEOREM Reality == Spec => []ListedIsReal
<1>1. Init => AnnouncedIsReal
  BY DEF Init, WireInit, CameraInit, ConnInit, NoDevices, AnnouncedIsReal, Had
<1>2. AnnouncedIsReal => ListedIsReal
  BY DEF AnnouncedIsReal, Had, ListedIsReal
<1> QED
  BY <1>1, <1>2, AnnouncedIsRealStep, ListTypeCorrect, PTL DEF Spec

-----------------------------------------------------------------------------
(* What a socket has read is listed *)

(* Goroutine s is about to merge an announcement of m. *)
Merging(s, m) == wk[s] = "merge" /\ held[s].type = "announce" /\ held[s].mac = m

(* The strengthening of HeardIsListed: what has been read is in the result or
   in the hands of a goroutine, which wg.Wait waits for.                     *)
ReadIsKept ==
    /\ pc \in {"start", "probe"} => \A m \in Mac : heard[m] = {}
    /\ pc # "discover" => \A s \in Sock : wk[s] = "idle"
    /\ \A s \in Sock : wk[s] # "idle" => s \in joined
    /\ \A s \in Sock : \A m \in Mac : Merging(s, m) => held[s].cfg \in heard[m]
    /\ \A m \in Mac : devices[m] # None => devices[m] \in heard[m]
    /\ \A m \in Mac : heard[m] # {} =>
            devices[m] # None \/ \E s \in Sock : Merging(s, m)

(* The command starts Collect before anything was read, and leaves it when
   no goroutine has anything left. *)
LEMMA KeptBySession ==
    ASSUME ListTypeOK, ReadIsKept, Session
    PROVE  ReadIsKept'
<1> USE DEF ReadIsKept, Merging, Session, sessionVars, wireVars, connVars, sendVars,
            collectVars, resultVars
<1>1. CASE Fail \/ PrintResult
  BY <1>1 DEF Fail, PrintResult, Return
<1>2. CASE OpenConn
  BY <1>2 DEF OpenConn
<1>3. CASE \E s \in Sock : SendProbe(s)
  BY <1>3 DEF SendProbe, SendOn
<1>4. CASE Discover
  <2>1. /\ pc = "probe" /\ pc' = "discover" /\ heard' = heard /\ joined' = joined
        /\ wk' = [s \in Sock |-> IF s \in joined THEN "read" ELSE "idle"]
        /\ devices' = NoDevices
    BY <1>4 DEF Discover, CollectStart
  <2>2. \A s \in Sock : wk'[s] # "merge" /\ (wk'[s] # "idle" => s \in joined')
    BY <2>1
  <2>3. \A m \in Mac : heard'[m] = {} /\ devices'[m] = None
    BY <2>1 DEF NoDevices
  <2> QED
    BY <2>1, <2>2, <2>3
<1>5. CASE ProbeFails
  BY <1>5 DEF ProbeFails
<1>6. CASE Discovered
  <2>1. \A s \in Sock : wk[s] # "merge"
    BY <1>6 DEF Discovered, Collected
  <2>2. /\ UNCHANGED <<heard, devices, joined>> /\ pc' = "print"
        /\ \A s \in Sock : wk'[s] = "idle"
    BY <1>6 DEF Discovered, CollectEnd
  <2> QED
    BY <2>1, <2>2
<1> QED
  BY <1>1, <1>2, <1>3, <1>4, <1>5, <1>6 DEF SessionStep

(* What a goroutine reads, it holds. *)
LEMMA KeptByRead ==
    ASSUME ListTypeOK, ReadIsKept, NEW s \in Sock, CollectRead(s), HeardStep(s),
           pc' = pc
    PROVE  ReadIsKept'
<1>1. rx[s] # << >> /\ rx[s] \in Seq(ToolDatagram) /\ wk[s] = "read"
  BY DEF CollectRead, ListTypeOK, WireTypeOK
<1>2. Head(rx[s]) \in ToolDatagram
  BY <1>1, TailElements
<1>3. /\ wk' = [wk EXCEPT ![s] = "merge"] /\ held' = [held EXCEPT ![s] = Head(rx[s])]
      /\ UNCHANGED <<joined, devices>>
  BY DEF CollectRead, resultVars
<1>4. /\ \A t \in Sock \ {s} : wk'[t] = wk[t] /\ held'[t] = held[t]
      /\ wk'[s] = "merge" /\ held'[s] = Head(rx[s])
  BY <1>3 DEF ListTypeOK, ConnTypeOK
<1>5. pc = "discover" /\ s \in joined
  BY <1>1 DEF ReadIsKept
<1>6. ASSUME NEW m \in Mac
      PROVE  /\ heard[m] \subseteq heard'[m]
             /\ Merging(s, m)' => held'[s].cfg \in heard'[m]
             /\ heard'[m] # heard[m] => Merging(s, m)'
  <2>1. CASE Head(rx[s]).type = "announce"
    <3>1. heard' = [heard EXCEPT ![Head(rx[s]).mac] =
                        heard[Head(rx[s]).mac] \cup {Head(rx[s]).cfg}]
      BY <2>1 DEF HeardStep
    <3>2. heard'[m] = IF m = Head(rx[s]).mac THEN heard[m] \cup {Head(rx[s]).cfg}
                                             ELSE heard[m]
      BY <3>1 DEF ListTypeOK
    <3> QED
      BY <1>4, <2>1, <3>2 DEF Merging
  <2>2. CASE Head(rx[s]).type # "announce"
    BY <1>4, <2>2 DEF HeardStep, Merging
  <2> QED
    BY <2>1, <2>2
<1>7. \A t \in Sock : \A m \in Mac : Merging(t, m) => t # s /\ Merging(t, m)'
  BY <1>1, <1>4 DEF Merging
<1>8. ASSUME NEW t \in Sock, NEW m \in Mac, Merging(t, m)'
      PROVE  held'[t].cfg \in heard'[m]
  <2>1. CASE t = s
    BY <1>6, <1>8, <2>1
  <2>2. CASE t # s
    <3>1. Merging(t, m) /\ held'[t] = held[t]
      BY <1>4, <1>8, <2>2 DEF Merging
    <3> QED
      BY <1>6, <3>1 DEF ReadIsKept
  <2> QED
    BY <2>1, <2>2
<1>9. \A m \in Mac : devices'[m] # None => devices'[m] \in heard'[m]
  BY <1>3, <1>6 DEF ReadIsKept
<1>10. \A m \in Mac : heard'[m] # {} =>
            devices'[m] # None \/ \E t \in Sock : Merging(t, m)'
  BY <1>3, <1>6, <1>7 DEF ReadIsKept
<1>11. \A t \in Sock : wk'[t] # "idle" => t \in joined'
  BY <1>3, <1>4, <1>5 DEF ReadIsKept
<1> QED
  BY <1>5, <1>8, <1>9, <1>10, <1>11 DEF ReadIsKept

(* What it holds, it merges. *)
LEMMA KeptByMerge ==
    ASSUME ListTypeOK, ReadIsKept, NEW s \in Sock, CollectMerge(s),
           pc' = pc, heard' = heard
    PROVE  ReadIsKept'
<1>1. wk[s] = "merge" /\ held[s] \in ToolDatagram
  BY DEF CollectMerge, ListTypeOK, ConnTypeOK
<1>2. /\ \A t \in Sock \ {s} : wk'[t] = wk[t] /\ held'[t] = held[t]
      /\ wk'[s] = "read" /\ joined' = joined
  BY DEF CollectMerge, ListTypeOK, ConnTypeOK, wireVars
<1>3. pc = "discover" /\ s \in joined
  BY <1>1 DEF ReadIsKept
<1>4. \A t \in Sock : \A m \in Mac :
        Merging(t, m)' <=> t # s /\ Merging(t, m)
  BY <1>2 DEF Merging
<1>5. ASSUME NEW m \in Mac
      PROVE  /\ devices'[m] # None => devices'[m] \in heard[m]
             /\ devices[m] # None => devices'[m] # None
             /\ Merging(s, m) => devices'[m] # None
  <2>1. CASE held[s].type = "announce"
    <3>1. held[s].mac \in Mac /\ held[s].cfg \in Cfg
      BY <1>1, <2>1, WireAssumption DEF ToolDatagram, Announcement, Acknowledgement
    <3>2. devices' = [devices EXCEPT ![held[s].mac] = held[s].cfg]
      BY <2>1 DEF CollectMerge, MergeDevice
    <3>3. devices'[m] = IF m = held[s].mac THEN held[s].cfg ELSE devices[m]
      BY <3>2 DEF ListTypeOK, ConnTypeOK
    <3>4. Merging(s, held[s].mac)
      BY <1>1, <2>1 DEF Merging
    <3>5. held[s].cfg # None
      BY <3>1, WireAssumption
    <3> QED
      BY <3>1, <3>3, <3>4, <3>5 DEF ReadIsKept, Merging
  <2>2. CASE held[s].type # "announce"
    BY <2>2 DEF CollectMerge, ReadIsKept, Merging
  <2> QED
    BY <2>1, <2>2
<1>6. \A m \in Mac : heard'[m] # {} =>
            devices'[m] # None \/ \E t \in Sock : Merging(t, m)'
  BY <1>4, <1>5 DEF ReadIsKept
<1>7. \A t \in Sock : \A m \in Mac : Merging(t, m)' => held'[t].cfg \in heard'[m]
  BY <1>2, <1>4 DEF ReadIsKept
<1> QED
  BY <1>2, <1>3, <1>5, <1>6, <1>7 DEF ReadIsKept

(* Every step keeps what was read. *)
LEMMA ReadIsKeptStep == ListTypeOK /\ ReadIsKept /\ [Next]_vars => ReadIsKept'
<1> SUFFICES ASSUME ListTypeOK, ReadIsKept, [Next]_vars
             PROVE  ReadIsKept'
  OBVIOUS
<1>1. CASE Session
  BY <1>1, KeptBySession
<1>2. CASE Collect
  <2>1. pc' = pc
    BY <1>2 DEF Collect, sessionVars
  <2>2. ASSUME NEW s \in Sock, CollectTimeout(s), heard' = heard
        PROVE  ReadIsKept'
    <3>1. wk[s] = "read" /\ wk' = [wk EXCEPT ![s] = "returned"]
      BY <2>2 DEF CollectTimeout
    <3>2. UNCHANGED <<joined, held, devices>>
      BY <2>2 DEF CollectTimeout, wireVars, resultVars
    <3>3. /\ \A t \in Sock \ {s} : wk'[t] = wk[t]
          /\ wk'[s] = "returned" /\ pc = "discover" /\ s \in joined
      BY <3>1 DEF ReadIsKept, ListTypeOK, ConnTypeOK
    <3>4. \A t \in Sock : \A m \in Mac : Merging(t, m)' <=> Merging(t, m)
      BY <3>1, <3>2, <3>3 DEF Merging
    <3> QED
      BY <2>1, <2>2, <3>2, <3>3, <3>4 DEF ReadIsKept
  <2>3. ASSUME Tick, heard' = heard
        PROVE  ReadIsKept'
    BY <2>1, <2>3 DEF Tick, wireVars, resultVars, ReadIsKept, Merging
  <2> QED
    BY <1>2, <2>1, <2>2, <2>3, KeptByRead, KeptByMerge DEF Collect
<1>3. CASE Cameras
  <2>1. UNCHANGED <<pc, heard, wk, held, devices>>
    BY <1>3 DEF Cameras, sessionVars, connVars, collectVars, resultVars
  <2>2. joined' = joined
    BY <1>3 DEF Cameras, CameraStep, AnnounceRead, AnnounceSend, AnnounceTick,
                AnnounceReturn, CommandReceive, CommandAck, CommandApply,
                CommandReturn, wireVars
  <2> QED
    BY <2>1, <2>2 DEF ReadIsKept, Merging
<1>4. CASE OtherTool \/ UNCHANGED vars
  BY <1>4 DEF OtherTool, vars, sessionVars, wireVars, connVars, collectVars, resultVars,
              ReadIsKept, Merging
<1> QED
  BY <1>1, <1>2, <1>3, <1>4 DEF Next

(* However many goroutines merge into one result, none of them is lost: what a
   listing prints is exactly the cameras its sockets have read.              *)
THEOREM NothingLost == Spec => []HeardIsListed
<1>1. Init => ReadIsKept
  BY DEF Init, WireInit, ConnInit, NoDevices, ReadIsKept, Merging
<1>2. ReadIsKept => HeardIsListed
  BY DEF ReadIsKept, Merging, HeardIsListed
<1> QED
  BY <1>1, <1>2, ReadIsKeptStep, ListTypeCorrect, PTL DEF Spec

-----------------------------------------------------------------------------
(* On one socket the newest wins *)

(* Configurations are told apart by their history: no command of another tool
   gives a camera the one it started with, or one that another command gives
   it.                                                                       *)
ConfigsDiffer ==
    /\ \A m \in OtherSets : m.mac \in Camera => m.cfg # factory[m.mac]
    /\ \A m, n \in OtherSets : m.mac = n.mac /\ m.cfg = n.cfg => m = n

(* Camera c has the command m before it: in its buffer or in its hands. *)
Pending(c, m) ==
    \/ \E i \in DOMAIN inbox[c] : inbox[c][i] = m
    \/ cmdPc[c] \in {"ack", "apply"} /\ pkt[c] = m

(* A command reaches camera c once: it is still to be sent, in the buffer, in
   hand or in the log, and in only one of these.                             *)
OnceAt(c) ==
    /\ \A m \in Command : Pending(c, m) => m \in OtherSets \ others
    /\ \A i, j \in DOMAIN inbox[c] :
            inbox[c][i] = inbox[c][j] /\ inbox[c][i] \in Command => i = j
    /\ cmdPc[c] \in {"ack", "apply"} =>
            pkt[c].mac = c /\ \A i \in DOMAIN inbox[c] : inbox[c][i] # pkt[c]
    /\ \A i \in DOMAIN log[c] :
            \E m \in OtherSets \ others :
                m.mac = c /\ m.cfg = log[c][i] /\ ~ Pending(c, m)
    /\ \A i, j \in DOMAIN log[c] : log[c][i] = log[c][j] => i = j

Once == \A c \in Camera : OnceAt(c)

(* What a step can do to the commands before camera c: nothing, ... *)
Apart(c) ==
    /\ UNCHANGED <<cmdPc[c], pkt[c], log[c]>>
    /\ \/ inbox'[c] = inbox[c]
       \/ inbox'[c] = Append(inbox[c], Search)

(* ... or put one into its buffer, ... *)
Arrives(c, m) ==
    /\ UNCHANGED <<cmdPc[c], pkt[c], log[c]>>
    /\ inbox'[c] = Append(inbox[c], m)

(* ... or drop the oldest or take it in hand, ... *)
Taken(c) ==
    /\ cmdPc[c] = "recv" /\ inbox[c] # << >> /\ inbox'[c] = Tail(inbox[c])
    /\ log'[c] = log[c]
    /\ \/ cmdPc'[c] = "recv"
       \/ /\ cmdPc'[c] = "ack" /\ pkt'[c] = Head(inbox[c])
          /\ Head(inbox[c]).type = "setnet" /\ Head(inbox[c]).mac = c

(* ... or acknowledge what is in hand, or return without any, ... *)
Onward(c) ==
    /\ UNCHANGED <<inbox[c], pkt[c], log[c]>>
    /\ \/ cmdPc[c] = "ack" /\ cmdPc'[c] = "apply"
       \/ cmdPc'[c] = "returned"

(* ... or work off what is in hand. *)
Applied(c) ==
    /\ cmdPc[c] = "apply" /\ cmdPc'[c] = "recv" /\ inbox'[c] = inbox[c]
    /\ log'[c] = log[c] \/ log'[c] = Append(log[c], pkt[c].cfg)

(* A datagram sent to the cameras is appended or it is not. *)
LEMMA DeliveredOrNot ==
    ASSUME NEW m, ToCameras(m), NEW c \in Camera
    PROVE  inbox'[c] = inbox[c] \/ inbox'[c] = Append(inbox[c], m)
BY DEF ToCameras, Deliver

(* Those are all that a step can do. *)
LEMMA CommandSteps ==
    ASSUME ListTypeOK, [Next]_vars, NEW c \in Camera
    PROVE  \/ Apart(c) /\ others' = others
           \/ \E m \in others : Apart(c) /\ others' = others \ {m}
           \/ \E m \in others : Arrives(c, m) /\ others' = others \ {m}
           \/ (Taken(c) \/ Onward(c) \/ Applied(c)) /\ others' = others
<1> DEFINE Goal ==
      \/ Apart(c) /\ others' = others
      \/ \E m \in others : Apart(c) /\ others' = others \ {m}
      \/ \E m \in others : Arrives(c, m) /\ others' = others \ {m}
      \/ (Taken(c) \/ Onward(c) \/ Applied(c)) /\ others' = others
<1>1. CASE Session
  <2>1. UNCHANGED <<cmdPc, pkt, log, others>>
    BY <1>1 DEF Session, cameraVars, commandVars, deviceVars
  <2>2. ASSUME inbox' = inbox
        PROVE  Goal
    BY <2>1, <2>2 DEF Apart
  <2>3. ASSUME NEW s \in Sock, SendProbe(s)
        PROVE  Goal
    <3>1. inbox' = inbox \/ ToCameras(Search)
      BY <2>3 DEF SendProbe, SendOn
    <3>2. inbox'[c] = inbox[c] \/ inbox'[c] = Append(inbox[c], Search)
      BY <3>1, DeliveredOrNot
    <3> QED
      BY <2>1, <3>2 DEF Apart
  <2>4. Fail \/ OpenConn \/ Discover \/ ProbeFails \/ Discovered \/ PrintResult
            => inbox' = inbox
    BY DEF Fail, OpenConn, Discover, ProbeFails, Discovered, PrintResult, Return, wireVars
  <2> QED
    BY <1>1, <2>2, <2>3, <2>4 DEF Session, SessionStep
<1>2. CASE Collect
  <2>1. UNCHANGED <<cmdPc, pkt, log, others>>
    BY <1>2 DEF Collect, cameraVars, commandVars, deviceVars
  <2>2. inbox' = inbox
    BY <1>2, CollectIsCollectStep, CollectEffect DEF ListTypeOK
  <2> QED
    BY <2>1, <2>2 DEF Apart
<1>3. CASE Cameras
  <2>1. PICK e \in Camera : CameraStep(e)
    BY <1>3 DEF Cameras
  <2>2. others' = others
    BY <1>3 DEF Cameras
  <2>3. CASE AnnounceRead(e) \/ AnnounceSend(e) \/ AnnounceTick(e) \/ AnnounceReturn(e)
    <3>1. UNCHANGED <<cmdPc, pkt, log, inbox>>
      BY <2>3 DEF AnnounceRead, AnnounceSend, AnnounceTick, AnnounceReturn, wireVars,
                  commandVars, deviceVars
    <3> QED
      BY <2>2, <3>1 DEF Apart
  <2>4. CASE CommandReceive(e)
    <3>1. /\ cmdPc[e] = "recv" /\ inbox[e] # << >>
          /\ inbox' = [inbox EXCEPT ![e] = Tail(inbox[e])]
          /\ log' = log
          /\ \/ UNCHANGED <<cmdPc, pkt>>
             \/ /\ Head(inbox[e]).type = "setnet" /\ Head(inbox[e]).mac = e
                /\ pkt' = [pkt EXCEPT ![e] = Head(inbox[e])]
                /\ cmdPc' = [cmdPc EXCEPT ![e] = "ack"]
      BY <2>4 DEF CommandReceive, deviceVars, commandVars, ForMe
    <3>2. CASE c = e
      <4>1. Taken(c)
        BY <3>1, <3>2 DEF Taken, ListTypeOK, WireTypeOK, CameraTypeOK
      <4> QED
        BY <2>2, <4>1
    <3>3. CASE c # e
      <4>1. Apart(c)
        BY <3>1, <3>3 DEF Apart, ListTypeOK, WireTypeOK, CameraTypeOK
      <4> QED
        BY <2>2, <4>1
    <3> QED
      BY <3>2, <3>3
  <2>5. CASE CommandAck(e)
    <3>1. /\ UNCHANGED <<inbox, pkt, log>> /\ cmdPc[e] = "ack"
          /\ cmdPc' = [cmdPc EXCEPT ![e] = "apply"]
      BY <2>5 DEF CommandAck, deviceVars
    <3>2. Onward(c) \/ Apart(c)
      BY <3>1 DEF Onward, Apart, ListTypeOK, CameraTypeOK
    <3> QED
      BY <2>2, <3>2
  <2>6. CASE CommandApply(e)
    <3>1. /\ inbox' = inbox /\ cmdPc[e] = "apply"
          /\ cmdPc' = [cmdPc EXCEPT ![e] = "recv"]
          /\ pkt' = [pkt EXCEPT ![e] = None]
          /\ \/ log' = log
             \/ log' = [log EXCEPT ![e] = Append(log[e], pkt[e].cfg)]
      BY <2>6 DEF CommandApply, wireVars
    <3>2. Applied(c) \/ Apart(c)
      BY <3>1 DEF Applied, Apart, ListTypeOK, CameraTypeOK
    <3> QED
      BY <2>2, <3>2
  <2>7. CASE CommandReturn(e)
    <3>1. /\ UNCHANGED <<inbox, pkt, log>>
          /\ cmdPc' = [cmdPc EXCEPT ![e] = "returned"]
      BY <2>7 DEF CommandReturn, wireVars, deviceVars
    <3>2. Onward(c) \/ Apart(c)
      BY <3>1 DEF Onward, Apart, ListTypeOK, CameraTypeOK
    <3> QED
      BY <2>2, <3>2
  <2> QED
    BY <2>1, <2>3, <2>4, <2>5, <2>6, <2>7 DEF CameraStep
<1>4. CASE OtherTool
  <2>1. PICK m \in others : ToCameras(m) /\ others' = others \ {m}
    BY <1>4 DEF OtherTool
  <2>2. UNCHANGED <<cmdPc, pkt, log>>
    BY <1>4 DEF OtherTool, cameraVars, commandVars, deviceVars
  <2>3. inbox'[c] = inbox[c] \/ inbox'[c] = Append(inbox[c], m)
    BY <2>1, DeliveredOrNot
  <2>4. Apart(c) \/ Arrives(c, m)
    BY <2>2, <2>3 DEF Apart, Arrives
  <2> QED
    BY <2>1, <2>4
<1>5. CASE UNCHANGED vars
  BY <1>5 DEF vars, wireVars, cameraVars, commandVars, deviceVars, Apart
<1> QED
  BY <1>1, <1>2, <1>3, <1>4, <1>5 DEF Next

(* The elements of a buffer with one more, and of one without its first. *)
LEMMA AppendElements ==
    ASSUME NEW S, NEW q \in Seq(S), NEW m \in S
    PROVE  /\ DOMAIN Append(q, m) = DOMAIN q \cup {Len(q) + 1}
           /\ Len(q) + 1 \notin DOMAIN q
           /\ Append(q, m)[Len(q) + 1] = m
           /\ \A i \in DOMAIN q : Append(q, m)[i] = q[i]
OBVIOUS

(* A search says nothing of commands. *)
LEMMA OnceApart ==
    ASSUME ListTypeOK, NEW c \in Camera, OnceAt(c), Apart(c), others' \subseteq others
    PROVE  OnceAt(c)'
<1>1. inbox[c] \in Seq(CameraDatagram) /\ Search \in CameraDatagram
  BY DEF ListTypeOK, WireTypeOK, CameraDatagram
<1>2. Search \notin Command
  BY DEF Search, Command
<1>3. /\ DOMAIN inbox[c] \subseteq DOMAIN inbox'[c]
      /\ \A i \in DOMAIN inbox[c] : inbox'[c][i] = inbox[c][i]
      /\ \A i \in DOMAIN inbox'[c] \ DOMAIN inbox[c] : inbox'[c][i] = Search
  BY <1>1, AppendElements DEF Apart
<1>4. \A m \in Command : Pending(c, m)' <=> Pending(c, m)
  BY <1>2, <1>3 DEF Pending, Apart
<1>5. cmdPc[c] \in {"ack", "apply"} => pkt[c] \in Command
  BY DEF ListTypeOK, CameraTypeOK
<1>6. OtherSets \subseteq Command
  BY ListAssumption
<1>7. \A m \in Command : Pending(c, m)' => m \in OtherSets \ others'
  BY <1>4 DEF OnceAt
<1>8. \A i, j \in DOMAIN inbox'[c] :
          inbox'[c][i] = inbox'[c][j] /\ inbox'[c][i] \in Command => i = j
  BY <1>2, <1>3 DEF OnceAt
<1>9. cmdPc'[c] \in {"ack", "apply"} =>
          pkt'[c].mac = c /\ \A i \in DOMAIN inbox'[c] : inbox'[c][i] # pkt'[c]
  BY <1>2, <1>3, <1>5 DEF OnceAt, Apart
<1>10. \A i \in DOMAIN log'[c] :
          \E m \in OtherSets \ others' :
              m.mac = c /\ m.cfg = log'[c][i] /\ ~ Pending(c, m)'
  BY <1>4, <1>6 DEF OnceAt, Apart
<1>11. \A i, j \in DOMAIN log'[c] : log'[c][i] = log'[c][j] => i = j
  BY DEF OnceAt, Apart
<1> QED
  BY <1>7, <1>8, <1>9, <1>10, <1>11 DEF OnceAt

(* A command that arrives was not before the camera, nor has it been. *)
LEMMA OnceArrives ==
    ASSUME ListTypeOK, NEW c \in Camera, OnceAt(c), NEW m \in others, Arrives(c, m),
           others' = others \ {m}
    PROVE  OnceAt(c)'
<1>1. m \in OtherSets /\ OtherSets \subseteq Command
  BY ListAssumption DEF ListTypeOK
<1>2. inbox[c] \in Seq(CameraDatagram) /\ m \in CameraDatagram
  BY <1>1 DEF ListTypeOK, WireTypeOK, CameraDatagram
<1>3. /\ DOMAIN inbox'[c] = DOMAIN inbox[c] \cup {Len(inbox[c]) + 1}
      /\ \A i \in DOMAIN inbox[c] : inbox'[c][i] = inbox[c][i]
      /\ inbox'[c][Len(inbox[c]) + 1] = m
  BY <1>2, AppendElements DEF Arrives
<1>4. \A n \in Command : Pending(c, n)' <=> Pending(c, n) \/ n = m
  BY <1>3 DEF Pending, Arrives
<1>5. cmdPc[c] \in {"ack", "apply"} => pkt[c] \in Command
  BY DEF ListTypeOK, CameraTypeOK
<1>6. ~ Pending(c, m)
  BY <1>1 DEF OnceAt
<1>7. \A n \in Command : Pending(c, n)' => n \in OtherSets \ others'
  BY <1>1, <1>4 DEF OnceAt
<1>8. \A i \in DOMAIN inbox[c] : inbox[c][i] # m
  BY <1>6 DEF Pending
<1>9. \A i, j \in DOMAIN inbox'[c] :
          inbox'[c][i] = inbox'[c][j] /\ inbox'[c][i] \in Command => i = j
  BY <1>3, <1>8 DEF OnceAt
<1>10. cmdPc'[c] \in {"ack", "apply"} =>
          pkt'[c].mac = c /\ \A i \in DOMAIN inbox'[c] : inbox'[c][i] # pkt'[c]
  BY <1>3, <1>6 DEF OnceAt, Arrives, Pending
<1>11. \A i \in DOMAIN log'[c] :
          \E n \in OtherSets \ others' :
              n.mac = c /\ n.cfg = log'[c][i] /\ ~ Pending(c, n)'
  BY <1>1, <1>4 DEF OnceAt, Arrives
<1>12. \A i, j \in DOMAIN log'[c] : log'[c][i] = log'[c][j] => i = j
  BY DEF OnceAt, Arrives
<1> QED
  BY <1>7, <1>9, <1>10, <1>11, <1>12 DEF OnceAt

(* What is taken in hand is no longer in the buffer. *)
LEMMA OnceTaken ==
    ASSUME ListTypeOK, NEW c \in Camera, OnceAt(c), Taken(c), others' = others
    PROVE  OnceAt(c)'
<1>1. inbox[c] \in Seq(CameraDatagram) /\ inbox[c] # << >>
  BY DEF ListTypeOK, WireTypeOK, Taken
<1>2. /\ 1 \in DOMAIN inbox[c] /\ Head(inbox[c]) = inbox[c][1]
      /\ \A i \in DOMAIN inbox'[c] : /\ i \in Nat \ {0}
                                     /\ i + 1 \in DOMAIN inbox[c]
                                     /\ inbox'[c][i] = inbox[c][i + 1]
  BY <1>1, TailElements DEF Taken
<1>3. OtherSets \subseteq Command
  BY ListAssumption
<1>4. Head(inbox[c]) \in CameraDatagram
  BY <1>1, TailElements
<1>5. cmdPc'[c] = "ack" => pkt'[c] \in Command
  BY <1>4 DEF Taken, CameraDatagram, Search
<1>6. \A m \in Command : Pending(c, m)' => Pending(c, m)
  BY <1>2 DEF Pending, Taken
<1>7. \A m \in Command : Pending(c, m)' => m \in OtherSets \ others'
  BY <1>6 DEF OnceAt
<1>8. ASSUME NEW i \in DOMAIN inbox'[c], NEW j \in DOMAIN inbox'[c],
             inbox'[c][i] = inbox'[c][j], inbox'[c][i] \in Command
      PROVE  i = j
  <2>1. i + 1 = j + 1
    BY <1>2, <1>8 DEF OnceAt
  <2> QED
    BY <1>2, <2>1
<1>9. cmdPc'[c] \in {"ack", "apply"} =>
          pkt'[c].mac = c /\ \A i \in DOMAIN inbox'[c] : inbox'[c][i] # pkt'[c]
  <2> SUFFICES ASSUME cmdPc'[c] \in {"ack", "apply"}
               PROVE  pkt'[c].mac = c /\ \A i \in DOMAIN inbox'[c] : inbox'[c][i] # pkt'[c]
    OBVIOUS
  <2>1. /\ pkt'[c] = inbox[c][1] /\ pkt'[c] \in Command /\ pkt'[c].mac = c
    BY <1>2, <1>5 DEF Taken
  <2>2. ASSUME NEW i \in DOMAIN inbox'[c]
        PROVE  inbox'[c][i] # pkt'[c]
    <3>1. i + 1 # 1
      BY <1>2
    <3> QED
      BY <1>2, <2>1, <3>1 DEF OnceAt
  <2> QED
    BY <2>1, <2>2
<1>10. \A i \in DOMAIN log'[c] :
          \E m \in OtherSets \ others' :
              m.mac = c /\ m.cfg = log'[c][i] /\ ~ Pending(c, m)'
  BY <1>3, <1>6 DEF OnceAt, Taken
<1>11. \A i, j \in DOMAIN log'[c] : log'[c][i] = log'[c][j] => i = j
  BY DEF OnceAt, Taken
<1> QED
  BY <1>7, <1>8, <1>9, <1>10, <1>11 DEF OnceAt

(* Only a loop that has nothing in hand returns. *)
LEMMA OnceOnward ==
    ASSUME ListTypeOK, NEW c \in Camera, OnceAt(c), Onward(c), others' = others
    PROVE  OnceAt(c)'
<1>1. \A m \in Command : Pending(c, m)' => Pending(c, m)
  BY DEF Pending, Onward
<1> QED
  BY <1>1, ListAssumption DEF OnceAt, Onward

(* What camera c has in hand, it has neither had nor started with. *)
LEMMA InHandIsNew ==
    ASSUME ListTypeOK, ConfigsDiffer, NEW c \in Camera, OnceAt(c), cmdPc[c] = "apply"
    PROVE  /\ pkt[c] \in OtherSets \ others /\ pkt[c].mac = c
           /\ pkt[c].cfg # factory[c]
           /\ \A i \in DOMAIN log[c] : log[c][i] # pkt[c].cfg
<1>1. pkt[c] \in Command /\ pkt[c].mac = c /\ Pending(c, pkt[c])
  BY DEF ListTypeOK, CameraTypeOK, OnceAt, Pending
<1>2. pkt[c] \in OtherSets \ others
  BY <1>1 DEF OnceAt
<1>3. ASSUME NEW i \in DOMAIN log[c]
      PROVE  log[c][i] # pkt[c].cfg
  <2>1. PICK m \in OtherSets \ others :
            m.mac = c /\ m.cfg = log[c][i] /\ ~ Pending(c, m)
    BY <1>3 DEF OnceAt
  <2> QED
    BY <1>1, <1>2, <2>1 DEF ConfigsDiffer
<1> QED
  BY <1>1, <1>2, <1>3 DEF ConfigsDiffer

(* So the log has no configuration twice. *)
LEMMA OnceApplied ==
    ASSUME ListTypeOK, ConfigsDiffer, NEW c \in Camera, OnceAt(c), Applied(c),
           others' = others
    PROVE  OnceAt(c)'
<1>1. /\ pkt[c] \in OtherSets \ others /\ pkt[c].mac = c
      /\ \A i \in DOMAIN log[c] : log[c][i] # pkt[c].cfg
  BY InHandIsNew DEF Applied
<1>2. OtherSets \subseteq Command
  BY ListAssumption
<1>3. log[c] \in Seq(Cfg) /\ pkt[c].cfg \in Cfg
  BY <1>1, <1>2 DEF ListTypeOK, CameraTypeOK, Command
<1>4. \A i \in DOMAIN inbox[c] : inbox[c][i] # pkt[c]
  BY DEF OnceAt, Applied
<1>5. \A m \in Command : Pending(c, m)' => Pending(c, m) /\ m # pkt[c]
  BY <1>4 DEF Pending, Applied
<1>6. /\ DOMAIN log[c] \subseteq DOMAIN log'[c]
      /\ \A i \in DOMAIN log[c] : log'[c][i] = log[c][i]
      /\ \A i \in DOMAIN log'[c] \ DOMAIN log[c] :
            i = Len(log[c]) + 1 /\ log'[c][i] = pkt[c].cfg
  BY <1>3, AppendElements DEF Applied
<1>7. \A m \in Command : Pending(c, m)' => m \in OtherSets \ others'
  BY <1>5 DEF OnceAt
<1>8. ASSUME NEW i \in DOMAIN log'[c]
      PROVE  \E m \in OtherSets \ others' :
                m.mac = c /\ m.cfg = log'[c][i] /\ ~ Pending(c, m)'
  <2>1. CASE i \in DOMAIN log[c]
    BY <1>2, <1>5, <1>6, <2>1 DEF OnceAt
  <2>2. CASE i \notin DOMAIN log[c]
    BY <1>1, <1>2, <1>5, <1>6, <1>8, <2>2
  <2> QED
    BY <2>1, <2>2
<1>9. \A i, j \in DOMAIN log'[c] : log'[c][i] = log'[c][j] => i = j
  BY <1>1, <1>6 DEF OnceAt
<1>10. \A i, j \in DOMAIN inbox'[c] :
          inbox'[c][i] = inbox'[c][j] /\ inbox'[c][i] \in Command => i = j
  BY DEF OnceAt, Applied
<1> QED
  BY <1>7, <1>8, <1>9, <1>10 DEF OnceAt, Applied

(* Every step leaves every command where it is, once. *)
LEMMA OnceStep ==
    ASSUME ConfigsDiffer, ListTypeOK, Once, [Next]_vars
    PROVE  Once'
<1> SUFFICES ASSUME NEW c \in Camera
             PROVE  OnceAt(c)'
  BY DEF Once
<1>1. OnceAt(c)
  BY DEF Once
<1> QED
  BY <1>1, CommandSteps, OnceApart, OnceArrives, OnceTaken, OnceOnward, OnceApplied

(* d is the configuration that camera c took as its n-th, the one it started
   with for 0.                                                               *)
IsAt(c, d, n) ==
    \/ n = 0 /\ d = factory[c]
    \/ n \in DOMAIN log[c] /\ log[c][n] = d

(* The places word of a configuration passes on its way from the camera's
   record to the list, nearest to the list first: the result, a goroutine's
   hands, the socket's buffer, the announcement to be sent, the record.      *)
Place == 0 .. RxCap + 3

Told(c, p, d) ==
    \/ p = 0 /\ devices[c] = d
    \/ p = 1 /\ \E s \in joined : wk[s] = "merge" /\ held[s] = Announce(c, d)
    \/ \E s \in joined : \E i \in DOMAIN rx[s] : p = i + 1 /\ rx[s][i] = Announce(c, d)
    \/ p = RxCap + 2 /\ annPc[c] = "send" /\ snap[c] = d
    \/ p = RxCap + 3 /\ dev[c] = d

(* Nearer to the camera, word is not older. *)
InOrderOf(c) ==
    \A p, q \in Place : \A d, e \in Cfg : \A a, b \in 0 .. Len(log[c]) :
        /\ Told(c, p, d) /\ Told(c, q, e) /\ p <= q
        /\ IsAt(c, d, a) /\ IsAt(c, e, b)
        => a <= b

OneSocket == \A s, t \in joined : s = t

(* The sockets that are open hold what fits, the others nothing. *)
Buffered ==
    /\ pc = "start" => joined = {}
    /\ \A s \in Sock : Len(rx[s]) <= RxCap /\ (s \notin joined => rx[s] = << >>)

(* The strengthening of NewestWinsOnOneSocket, until the sockets are closed. *)
ToldInOrder ==
    /\ Buffered
    /\ pc # "exit" /\ OneSocket => \A c \in Camera : InOrderOf(c)

(* A configuration has one place in a camera's history. *)
LEMMA OnePlaceInHistory ==
    ASSUME ConfigsDiffer, ListTypeOK, Once, NEW c \in Camera, NEW d,
           NEW a, NEW b, IsAt(c, d, a), IsAt(c, d, b)
    PROVE  a = b
<1>1. OnceAt(c)
  BY DEF Once
<1>2. \A i \in DOMAIN log[c] : log[c][i] # factory[c]
  BY <1>1 DEF OnceAt, ConfigsDiffer
<1> QED
  BY <1>1, <1>2 DEF IsAt, OnceAt

(* It is what Position says. *)
LEMMA PositionIsAt ==
    ASSUME ConfigsDiffer, ListTypeOK, Once, NEW c \in Camera, NEW d, Had(c, d)
    PROVE  /\ Position(c, d) \in 0 .. Len(log[c])
           /\ IsAt(c, d, Position(c, d))
<1>1. log[c] \in Seq(Cfg)
  BY DEF ListTypeOK, CameraTypeOK
<1>2. CASE d = factory[c]
  BY <1>1, <1>2 DEF Position, IsAt
<1>3. CASE d # factory[c]
  <2>1. \E i \in DOMAIN log[c] : log[c][i] = d
    BY <1>3 DEF Had
  <2>2. Position(c, d) \in DOMAIN log[c] /\ log[c][Position(c, d)] = d
    BY <1>3, <2>1 DEF Position
  <2> QED
    BY <1>1, <2>2 DEF IsAt
<1> QED
  BY <1>2, <1>3

(* What is told of a camera, it had. *)
LEMMA ToldIsHad ==
    ASSUME ListTypeOK, AnnouncedIsReal, NEW c \in Camera, NEW p, NEW d \in Cfg,
           Told(c, p, d)
    PROVE  Had(c, d)
<1>1. Announce(c, d).type = "announce" /\ Announce(c, d).mac = c /\ Announce(c, d).cfg = d
  BY DEF Announce
<1>2. c \in Mac /\ d # None
  BY WireAssumption
<1>3. joined \subseteq Sock
  BY DEF ListTypeOK, WireTypeOK
<1> QED
  BY <1>1, <1>2, <1>3 DEF Told, AnnouncedIsReal, HadDatagram

(* Word that is passed on towards the list without overtaking stays in
   order: F says where what is told at a place was told before.              *)
LEMMA PassedOn ==
    ASSUME ListTypeOK, NEW c \in Camera, InOrderOf(c), log'[c] = log[c],
           NEW F \in [Place -> Place],
           \A p, q \in Place : p <= q => F[p] <= F[q],
           \A p \in Place : \A d \in Cfg : Told(c, p, d)' => Told(c, F[p], d)
    PROVE  InOrderOf(c)'
<1> SUFFICES ASSUME NEW p \in Place, NEW q \in Place, NEW d \in Cfg, NEW e \in Cfg,
                    NEW a \in 0 .. Len(log'[c]), NEW b \in 0 .. Len(log'[c]),
                    Told(c, p, d)', Told(c, q, e)', p <= q,
                    IsAt(c, d, a)', IsAt(c, e, b)'
             PROVE  a <= b
  BY DEF InOrderOf, Place
<1>1. Told(c, F[p], d) /\ Told(c, F[q], e) /\ F[p] <= F[q]
  OBVIOUS
<1>2. IsAt(c, d, a) /\ IsAt(c, e, b)
  BY DEF IsAt
<1>3. F[p] \in Place /\ F[q] \in Place /\ a \in 0 .. Len(log[c]) /\ b \in 0 .. Len(log[c])
  OBVIOUS
<1> QED
  BY <1>1, <1>2, <1>3 DEF InOrderOf

(* In particular when nothing new is told at any place. *)
LEMMA NothingNewTold ==
    ASSUME ListTypeOK, NEW c \in Camera, InOrderOf(c), log'[c] = log[c],
           \A p \in Place : \A d \in Cfg : Told(c, p, d)' => Told(c, p, d)
    PROVE  InOrderOf(c)'
<1> DEFINE F == [p \in Place |-> p]
<1>1. F \in [Place -> Place] /\ \A p \in Place : F[p] = p
  OBVIOUS
<1>2. \A p, q \in Place : p <= q => F[p] <= F[q]
  BY <1>1
<1>3. \A p \in Place : \A d \in Cfg : Told(c, p, d)' => Told(c, F[p], d)
  BY <1>1
<1> HIDE DEF F
<1> QED
  BY <1>1, <1>2, <1>3, PassedOn

(* What a camera sends is appended to a socket's buffer or it is not. *)
LEMMA HeardOrNot ==
    ASSUME ListTypeOK, Buffered, NEW m \in ToolDatagram, ToTools(m), NEW s \in Sock
    PROVE  /\ s \notin joined => rx'[s] = rx[s]
           /\ \/ rx'[s] = rx[s]
              \/ /\ rx'[s] = Append(rx[s], m) /\ Len(rx'[s]) <= RxCap
                 /\ DOMAIN rx'[s] = DOMAIN rx[s] \cup {Len(rx[s]) + 1}
                 /\ rx'[s][Len(rx[s]) + 1] = m
                 /\ \A i \in DOMAIN rx[s] : rx'[s][i] = rx[s][i]
<1>1. PICK h \in SUBSET joined :
          rx' = [t \in Sock |-> IF t \in h THEN Deliver(rx[t], m, RxCap) ELSE rx[t]]
  BY DEF ToTools
<1>2. rx[s] \in Seq(ToolDatagram) /\ RxCap \in Nat
  BY WireAssumption DEF ListTypeOK, WireTypeOK
<1>3. rx'[s] = rx[s] \/ (Len(rx[s]) < RxCap /\ rx'[s] = Append(rx[s], m) /\ s \in joined)
  BY <1>1 DEF Deliver
<1>4. rx'[s] = Append(rx[s], m) =>
        /\ DOMAIN rx'[s] = DOMAIN rx[s] \cup {Len(rx[s]) + 1}
        /\ rx'[s][Len(rx[s]) + 1] = m
        /\ \A i \in DOMAIN rx[s] : rx'[s][i] = rx[s][i]
        /\ Len(rx'[s]) = Len(rx[s]) + 1
  BY <1>2, AppendElements
<1> QED
  BY <1>2, <1>3, <1>4

(* A camera's step adds one datagram to the sockets at most. *)
LEMMA OneDatagram ==
    ASSUME ListTypeOK, NEW e \in Camera, CameraStep(e)
    PROVE  /\ joined' = joined
           /\ \/ rx' = rx
              \/ AnnounceSend(e) /\ Announce(e, snap[e]) \in ToolDatagram
              \/ /\ CommandAck(e) /\ SetAck(e, pkt[e].from) \in ToolDatagram
                 /\ ToTools(SetAck(e, pkt[e].from))
<1>1. joined' = joined
  BY DEF CameraStep, AnnounceRead, AnnounceSend, AnnounceTick, AnnounceReturn,
         CommandReceive, CommandAck, CommandApply, CommandReturn, wireVars
<1>2. CASE AnnounceSend(e)
  BY <1>1, <1>2 DEF AnnounceSend, Announce, ToolDatagram, Announcement, ListTypeOK,
                    CameraTypeOK
<1>3. CASE CommandAck(e)
  BY <1>1, <1>3 DEF CommandAck, SetAck, ToolDatagram, Acknowledgement, Command,
                    ListTypeOK, CameraTypeOK
<1>4. ~ AnnounceSend(e) /\ ~ CommandAck(e) => rx' = rx
  BY DEF CameraStep, AnnounceRead, AnnounceTick, AnnounceReturn,
         CommandReceive, CommandApply, CommandReturn, wireVars
<1> QED
  BY <1>1, <1>2, <1>3, <1>4

(* The sockets keep within their buffers, and are there from Open to Close. *)
LEMMA BufferedStep ==
    ASSUME ListTypeOK, ReadIsKept, Buffered, [Next]_vars
    PROVE  Buffered'
<1>1. CASE Session
  <2>1. CASE rx' = rx /\ joined' = joined /\ pc' # "start"
    BY <2>1 DEF Buffered
  <2>2. CASE Fail \/ PrintResult
    <3>1. /\ pc' = "exit" /\ rx' = [s \in Sock |-> << >>]
      BY <2>2 DEF Fail, PrintResult, Return, Close
    <3> QED
      BY <3>1, WireAssumption DEF Buffered
  <2>3. CASE OpenConn
    <3>1. pc = "start" /\ pc' = "probe" /\ rx' = rx
      BY <2>3 DEF OpenConn, Open
    <3> QED
      BY <3>1 DEF Buffered
  <2>4. CASE \E s \in Sock : SendProbe(s)
    BY <2>1, <2>4 DEF SendProbe, SendOn, sessionVars
  <2>5. CASE Discover \/ ProbeFails \/ Discovered
    BY <2>1, <2>5 DEF Discover, ProbeFails, Discovered, wireVars
  <2> QED
    BY <1>1, <2>2, <2>3, <2>4, <2>5 DEF Session, SessionStep
<1>2. CASE Collect
  <2>1. joined' = joined /\ pc' = pc
    BY <1>2 DEF Collect, sessionVars, CollectRead, CollectMerge, CollectTimeout, Tick,
                wireVars
  <2>2. CASE rx' = rx
    BY <2>1, <2>2 DEF Buffered
  <2>3. ASSUME NEW s \in Sock, CollectRead(s)
        PROVE  Buffered'
    <3>1. rx' = [rx EXCEPT ![s] = Tail(rx[s])] /\ rx[s] # << >>
      BY <2>3 DEF CollectRead
    <3>2. \A t \in Sock : rx'[t] = IF t = s THEN Tail(rx[t]) ELSE rx[t]
      BY <3>1 DEF ListTypeOK, WireTypeOK
    <3>3. Len(Tail(rx[s])) <= RxCap
      BY <3>1, WireAssumption DEF ListTypeOK, WireTypeOK, Buffered
    <3> QED
      BY <2>1, <3>1, <3>2, <3>3 DEF Buffered
  <2> QED
    BY <1>2, <2>2, <2>3 DEF Collect, CollectMerge, CollectTimeout, Tick, wireVars
<1>3. CASE Cameras
  <2>1. PICK e \in Camera : CameraStep(e)
    BY <1>3 DEF Cameras
  <2>2. joined' = joined /\ pc' = pc
    BY <1>3, <2>1, OneDatagram DEF Cameras, sessionVars
  <2>3. rx' = rx \/ \E m \in ToolDatagram : ToTools(m)
    BY <2>1, OneDatagram DEF AnnounceSend
  <2>4. CASE rx' = rx
    BY <2>2, <2>4 DEF Buffered
  <2>5. ASSUME NEW m \in ToolDatagram, ToTools(m)
        PROVE  Buffered'
    BY <2>2, <2>5, HeardOrNot DEF Buffered
  <2> QED
    BY <2>3, <2>4, <2>5
<1>4. CASE OtherTool \/ UNCHANGED vars
  BY <1>4 DEF OtherTool, vars, sessionVars, wireVars, Buffered
<1> QED
  BY <1>1, <1>2, <1>3, <1>4 DEF Next

(* The command opens its sockets before anything is told, and starts Collect
   from nothing. *)
LEMMA InOrderBySession ==
    ASSUME ListTypeOK, ReadIsKept, ToldInOrder, Session, pc' # "exit",
           joined' = joined => OneSocket, NEW c \in Camera
    PROVE  InOrderOf(c)'
<1>1. UNCHANGED <<dev, log, annPc, snap>>
  BY DEF Session, cameraVars, deviceVars, announceVars
<1>2. pc # "exit"
  BY DEF Session, SessionStep, Fail, OpenConn, SendProbe, Discover, ProbeFails,
         Discovered, PrintResult
<1>3. c \in Mac /\ None \notin Cfg
  BY WireAssumption
<1>4. ASSUME UNCHANGED <<joined, rx, held>>, devices'[c] \in {devices[c], None},
             \A s \in Sock : wk'[s] = "merge" => wk[s] = "merge"
      PROVE  InOrderOf(c)'
  <2>1. InOrderOf(c)
    BY <1>2, <1>4 DEF ToldInOrder
  <2>2. joined \subseteq Sock
    BY DEF ListTypeOK, WireTypeOK
  <2>3. \A p \in Place : \A d \in Cfg : Told(c, p, d)' => Told(c, p, d)
    BY <1>1, <1>3, <1>4, <2>2 DEF Told
  <2> QED
    BY <1>1, <2>1, <2>3, NothingNewTold
<1>5. CASE OpenConn
  <2>1. /\ pc = "start" /\ UNCHANGED <<rx, wk, held, devices>>
    BY <1>5 DEF OpenConn, Open, collectVars, resultVars
  <2>2. /\ joined = {} /\ \A s \in Sock : rx[s] = << >> /\ wk[s] = "idle"
        /\ joined' \subseteq Sock
    BY <1>5, <2>1 DEF ToldInOrder, Buffered, ReadIsKept, OpenConn, Open
  <2>3. InOrderOf(c)
    BY <1>2, <2>2 DEF ToldInOrder, OneSocket
  <2>4. \A p \in Place : \A d \in Cfg : Told(c, p, d)' => Told(c, p, d)
    BY <1>1, <2>1, <2>2 DEF Told
  <2> QED
    BY <1>1, <2>3, <2>4, NothingNewTold
<1>6. CASE \E s \in Sock : SendProbe(s)
  BY <1>4, <1>6 DEF SendProbe, SendOn, collectVars, resultVars
<1>7. CASE Discover
  <2>1. /\ UNCHANGED <<joined, rx, held>> /\ devices' = NoDevices
        /\ \A s \in Sock : wk'[s] # "merge"
    BY <1>7 DEF Discover, CollectStart, wireVars
  <2> QED
    BY <1>3, <1>4, <2>1 DEF NoDevices
<1>8. CASE ProbeFails
  BY <1>4, <1>8 DEF ProbeFails, wireVars, connVars, collectVars, resultVars
<1>9. CASE Discovered
  BY <1>4, <1>9 DEF Discovered, CollectEnd, wireVars, resultVars
<1>10. ~ Fail /\ ~ PrintResult
  BY DEF Fail, PrintResult, Return
<1> QED
  BY <1>5, <1>6, <1>7, <1>8, <1>9, <1>10 DEF Session, SessionStep

(* The socket's only goroutine takes the oldest word from its buffer, ... *)
LEMMA InOrderByRead ==
    ASSUME ListTypeOK, Buffered, OneSocket, NEW s \in joined, CollectRead(s),
           NEW c \in Camera, InOrderOf(c), UNCHANGED cameraVars
    PROVE  InOrderOf(c)'
<1> DEFINE F == [p \in Place |-> IF p \in 1 .. RxCap THEN p + 1 ELSE p]
<1>1. s \in Sock /\ RxCap \in Nat /\ \A t \in joined : t = s
  BY WireAssumption DEF OneSocket, ListTypeOK, WireTypeOK
<1>2. UNCHANGED <<dev, log, annPc, snap, joined, devices>>
  BY DEF cameraVars, deviceVars, announceVars, CollectRead, resultVars
<1>3. rx[s] \in Seq(ToolDatagram) /\ rx[s] # << >> /\ Len(rx[s]) <= RxCap
  BY <1>1 DEF CollectRead, ListTypeOK, WireTypeOK, Buffered
<1>4. rx'[s] = Tail(rx[s]) /\ held'[s] = Head(rx[s]) /\ wk[s] # "merge"
  BY <1>1 DEF CollectRead, ListTypeOK, WireTypeOK, ConnTypeOK
<1>5. /\ 1 \in DOMAIN rx[s] /\ held'[s] = rx[s][1] /\ 1 <= RxCap
      /\ \A i \in DOMAIN rx'[s] : /\ i \in Nat /\ i + 1 \in DOMAIN rx[s]
                                  /\ i + 1 \in 1 .. RxCap
                                  /\ rx'[s][i] = rx[s][i + 1]
  <2>1. \A i \in DOMAIN Tail(rx[s]) : i \in Nat /\ i + 1 \in 1 .. Len(rx[s])
    BY <1>3
  <2>2. \A i \in 1 .. Len(rx[s]) : i \in 1 .. RxCap
    BY <1>1, <1>3
  <2> QED
    BY <1>3, <1>4, <2>1, <2>2, TailElements
<1>6. /\ F \in [Place -> Place]
      /\ \A p \in Place : F[p] = IF p \in 1 .. RxCap THEN p + 1 ELSE p
  BY <1>1 DEF Place
<1>7. \A p, q \in Place : p <= q => F[p] <= F[q]
  BY <1>1, <1>6 DEF Place
<1> HIDE DEF F
<1>8. ASSUME NEW p \in Place, NEW d \in Cfg, Told(c, p, d)'
      PROVE  Told(c, F[p], d)
  <2>1. CASE p = 0 /\ devices'[c] = d
    BY <1>2, <1>6, <2>1 DEF Told
  <2>2. CASE p = 1 /\ held'[s] = Announce(c, d)
    <3>1. F[p] = 2
      BY <1>1, <1>5, <1>6, <2>2
    <3>2. 1 \in DOMAIN rx[s] /\ F[p] = 1 + 1 /\ rx[s][1] = Announce(c, d)
      BY <1>5, <2>2, <3>1
    <3> QED
      BY <3>2 DEF Told
  <2>3. ASSUME NEW i \in DOMAIN rx'[s], p = i + 1, rx'[s][i] = Announce(c, d)
        PROVE  Told(c, F[p], d)
    <3>1. F[p] = (i + 1) + 1
      BY <1>5, <1>6, <2>3
    <3> QED
      BY <1>5, <2>3, <3>1 DEF Told
  <2>4. CASE p \in {RxCap + 2, RxCap + 3}
    <3>1. F[p] = p
      BY <1>1, <1>6, <2>4
    <3>2. p # 0 /\ p # 1 /\ \A i \in DOMAIN rx'[s] : p # i + 1
      BY <1>1, <1>5, <2>4
    <3> QED
      BY <1>1, <1>2, <1>8, <3>1, <3>2 DEF Told
  <2> QED
    BY <1>1, <1>2, <1>8, <2>1, <2>2, <2>3, <2>4 DEF Told
<1> QED
  BY <1>2, <1>6, <1>7, <1>8, PassedOn

(* ... and puts it into the result before it takes the next. *)
LEMMA InOrderByMerge ==
    ASSUME ListTypeOK, OneSocket, NEW s \in joined, CollectMerge(s),
           NEW c \in Camera, InOrderOf(c), UNCHANGED cameraVars
    PROVE  InOrderOf(c)'
<1>1. s \in Sock /\ RxCap \in Nat /\ \A t \in joined : t = s
  BY WireAssumption DEF OneSocket, ListTypeOK, WireTypeOK
<1>2. UNCHANGED <<dev, log, annPc, snap, joined, rx>>
  BY DEF cameraVars, deviceVars, announceVars, CollectMerge, wireVars
<1>3. wk[s] = "merge" /\ wk'[s] = "read" /\ held[s] \in ToolDatagram
  BY <1>1 DEF CollectMerge, ListTypeOK, ConnTypeOK
<1>4. CASE devices'[c] = devices[c]
  <2>1. \A p \in Place : \A d \in Cfg : Told(c, p, d)' => Told(c, p, d)
    BY <1>1, <1>2, <1>3, <1>4 DEF Told
  <2> QED
    BY <1>2, <2>1, NothingNewTold
<1>5. CASE held[s] = Announce(c, devices'[c])
  <2> DEFINE F == [p \in Place |-> IF p = 0 THEN 1 ELSE p]
  <2>1. /\ F \in [Place -> Place]
        /\ \A p \in Place : F[p] = IF p = 0 THEN 1 ELSE p
    BY <1>1 DEF Place
  <2>2. \A p, q \in Place : p <= q => F[p] <= F[q]
    BY <1>1, <2>1 DEF Place
  <2> HIDE DEF F
  <2>3. ASSUME NEW p \in Place, NEW d \in Cfg, Told(c, p, d)'
        PROVE  Told(c, F[p], d)
    <3>1. CASE p = 0
      <4>1. F[p] = 1
        BY <2>1, <3>1
      <4>2. devices'[c] = d
        <5>1. p # 1 /\ p # RxCap + 2 /\ p # RxCap + 3
          BY <1>1, <3>1
        <5>2. \A i \in DOMAIN rx'[s] : p # i + 1
          BY <1>1, <1>2, <3>1 DEF ListTypeOK, WireTypeOK
        <5> QED
          BY <1>1, <1>2, <2>3, <5>1, <5>2 DEF Told
      <4> QED
        BY <1>3, <1>5, <4>1, <4>2 DEF Told
    <3>2. CASE p # 0
      <4>1. F[p] = p
        BY <2>1, <3>2
      <4> QED
        BY <1>1, <1>2, <1>3, <2>3, <3>2, <4>1 DEF Told
    <3> QED
      BY <3>1, <3>2
  <2> QED
    BY <1>2, <2>1, <2>2, <2>3, PassedOn
<1>6. devices'[c] = devices[c] \/ held[s] = Announce(c, devices'[c])
  <2>1. CASE held[s].type = "announce"
    <3>1. held[s] = Announce(held[s].mac, held[s].cfg) /\ held[s].mac \in Camera
      BY <1>3, <2>1 DEF ToolDatagram, Announcement, Acknowledgement, Announce
    <3>2. devices' = [devices EXCEPT ![held[s].mac] = held[s].cfg] /\ c \in Mac
      BY <2>1, WireAssumption DEF CollectMerge, MergeDevice
    <3>3. devices'[c] = IF c = held[s].mac THEN held[s].cfg ELSE devices[c]
      BY <3>2 DEF ListTypeOK, ConnTypeOK
    <3> QED
      BY <3>1, <3>3
  <2>2. CASE held[s].type # "announce"
    BY <2>2 DEF CollectMerge
  <2> QED
    BY <2>1, <2>2
<1> QED
  BY <1>4, <1>5, <1>6

(* Collect keeps the order. *)
LEMMA InOrderByCollect ==
    ASSUME ListTypeOK, ReadIsKept, Buffered, OneSocket, Collect,
           NEW c \in Camera, InOrderOf(c)
    PROVE  InOrderOf(c)'
<1>1. UNCHANGED cameraVars
  BY DEF Collect
<1>2. \A s \in Sock : CollectRead(s) \/ CollectMerge(s) => s \in joined
  BY DEF ReadIsKept, CollectRead, CollectMerge
<1>3. ASSUME Tick \/ \E s \in Sock : CollectTimeout(s)
      PROVE  InOrderOf(c)'
  <2>1. /\ UNCHANGED <<dev, log, annPc, snap, joined, rx, held, devices>>
        /\ \A s \in Sock : wk'[s] = "merge" => wk[s] = "merge"
    BY <1>1, <1>3 DEF cameraVars, deviceVars, announceVars, Tick, CollectTimeout,
                      wireVars, resultVars, ListTypeOK, ConnTypeOK
  <2>2. joined \subseteq Sock
    BY DEF ListTypeOK, WireTypeOK
  <2>3. \A p \in Place : \A d \in Cfg : Told(c, p, d)' => Told(c, p, d)
    BY <2>1, <2>2 DEF Told
  <2> QED
    BY <2>1, <2>3, NothingNewTold
<1> QED
  BY <1>1, <1>2, <1>3, InOrderByRead, InOrderByMerge DEF Collect

(* The announcement is built from the record. *)
LEMMA InOrderByAnnounceRead ==
    ASSUME ListTypeOK, Buffered, NEW c \in Camera, InOrderOf(c), AnnounceRead(c),
           UNCHANGED connVars
    PROVE  InOrderOf(c)'
<1> DEFINE F == [p \in Place |-> IF p = RxCap + 2 THEN RxCap + 3 ELSE p]
<1>1. RxCap \in Nat
  BY WireAssumption
<1>2. UNCHANGED <<dev, log, joined, rx, wk, held, devices>> /\ snap'[c] = dev[c]
  BY DEF AnnounceRead, wireVars, deviceVars, connVars, collectVars, resultVars,
         ListTypeOK, CameraTypeOK
<1>3. /\ F \in [Place -> Place]
      /\ \A p \in Place : F[p] = IF p = RxCap + 2 THEN RxCap + 3 ELSE p
  BY <1>1 DEF Place
<1>4. \A p, q \in Place : p <= q => F[p] <= F[q]
  BY <1>1, <1>3 DEF Place
<1> HIDE DEF F
<1>5. ASSUME NEW p \in Place, NEW d \in Cfg, Told(c, p, d)'
      PROVE  Told(c, F[p], d)
  <2>1. CASE p = RxCap + 2
    <3>1. F[p] = RxCap + 3
      BY <1>3, <2>1
    <3>2. \A s \in joined : \A i \in DOMAIN rx[s] : p # i + 1
      BY <1>1, <2>1 DEF Buffered, ListTypeOK, WireTypeOK
    <3>3. p # 0 /\ p # 1 /\ p # RxCap + 3
      BY <1>1, <2>1
    <3>4. snap'[c] = d
      BY <1>2, <1>5, <3>2, <3>3 DEF Told
    <3> QED
      BY <1>2, <2>1, <3>1, <3>4 DEF Told
  <2>2. CASE p # RxCap + 2
    <3>1. F[p] = p
      BY <1>3, <2>2
    <3> QED
      BY <1>2, <1>5, <2>2, <3>1 DEF Told
  <2> QED
    BY <2>1, <2>2
<1> QED
  BY <1>2, <1>3, <1>4, <1>5, PassedOn

(* The announcement goes to the end of the buffer, if it goes there. *)
LEMMA InOrderByAnnounceSend ==
    ASSUME ListTypeOK, Buffered, OneSocket, NEW c \in Camera, InOrderOf(c),
           AnnounceSend(c), UNCHANGED connVars
    PROVE  InOrderOf(c)'
<1> DEFINE m == Announce(c, snap[c])
<1>1. RxCap \in Nat /\ joined \subseteq Sock /\ \A s, t \in joined : s = t
  BY WireAssumption DEF ListTypeOK, WireTypeOK, OneSocket
<1>2. /\ UNCHANGED <<dev, log, joined, wk, held, devices>>
      /\ annPc[c] = "send" /\ annPc'[c] = "wait"
  BY DEF AnnounceSend, deviceVars, connVars, collectVars, resultVars, ListTypeOK,
         CameraTypeOK
<1>3. m \in ToolDatagram /\ ToTools(m)
  BY <1>2 DEF AnnounceSend, Announce, ToolDatagram, Announcement, ListTypeOK, CameraTypeOK
<1> HIDE DEF m
<1>4. CASE \A s \in joined : rx'[s] = rx[s]
  <2>1. \A p \in Place : \A d \in Cfg : Told(c, p, d)' => Told(c, p, d)
    BY <1>2, <1>4 DEF Told
  <2> QED
    BY <1>2, <2>1, NothingNewTold
<1>5. ASSUME NEW s \in joined, rx'[s] # rx[s]
      PROVE  InOrderOf(c)'
  <2> DEFINE L == Len(rx[s])
             F == [p \in Place |-> IF p \in L + 2 .. RxCap + 2 THEN RxCap + 2 ELSE p]
  <2>1. /\ L \in Nat /\ DOMAIN rx[s] = 1 .. L
        /\ DOMAIN rx'[s] = DOMAIN rx[s] \cup {L + 1}
        /\ rx'[s][L + 1] = m
        /\ \A i \in DOMAIN rx[s] : rx'[s][i] = rx[s][i]
        /\ L <= RxCap
    BY <1>1, <1>3, <1>5, HeardOrNot DEF ListTypeOK, WireTypeOK, Buffered
  <2>2. /\ F \in [Place -> Place]
        /\ \A p \in Place : F[p] = IF p \in L + 2 .. RxCap + 2 THEN RxCap + 2 ELSE p
    BY <1>1, <2>1 DEF Place
  <2> HIDE DEF F, L
  <2>3. ASSUME NEW p \in Place, NEW q \in Place, p <= q
        PROVE  F[p] <= F[q]
    <3>1. p \in Int /\ q \in Int /\ L \in Int /\ RxCap \in Int /\ q <= RxCap + 3
      BY <1>1, <2>1 DEF Place
    <3>2. F[p] = IF p >= L + 2 /\ p <= RxCap + 2 THEN RxCap + 2 ELSE p
      BY <2>2, <3>1
    <3>3. F[q] = IF q >= L + 2 /\ q <= RxCap + 2 THEN RxCap + 2 ELSE q
      BY <2>2, <3>1
    <3> QED
      BY <2>1, <2>3, <3>1, <3>2, <3>3
  <2>4. ASSUME NEW p \in Place, NEW d \in Cfg, Told(c, p, d)'
        PROVE  Told(c, F[p], d)
    <3>1. CASE p \in {0, 1, RxCap + 3}
      <4>1. F[p] = p
        BY <1>1, <2>1, <2>2, <3>1
      <4>2. p # RxCap + 2 /\ \A i \in DOMAIN rx'[s] : p # i + 1
        BY <1>1, <2>1, <3>1
      <4> QED
        BY <1>1, <1>2, <1>5, <2>4, <3>1, <4>1, <4>2 DEF Told
    <3>2. ASSUME NEW i \in DOMAIN rx[s], p = i + 1, rx'[s][i] = Announce(c, d)
          PROVE  Told(c, F[p], d)
      <4>1. F[p] = i + 1
        BY <1>1, <2>1, <2>2, <3>2
      <4> QED
        BY <2>1, <3>2, <4>1 DEF Told
    <3>3. CASE p = (L + 1) + 1 /\ rx'[s][L + 1] = Announce(c, d)
      <4>1. F[p] = RxCap + 2
        BY <1>1, <2>1, <2>2, <3>3
      <4>2. snap[c] = d
        BY <2>1, <3>3 DEF m, Announce
      <4> QED
        BY <1>2, <4>1, <4>2 DEF Told
    <3>4. p \in {0, 1, RxCap + 3} \/ \E i \in DOMAIN rx'[s] :
              p = i + 1 /\ rx'[s][i] = Announce(c, d)
      BY <1>1, <1>2, <1>5, <2>4 DEF Told
    <3> QED
      BY <2>1, <3>1, <3>2, <3>3, <3>4
  <2> QED
    BY <1>2, <2>2, <2>3, <2>4, PassedOn
<1> QED
  BY <1>4, <1>5

(* What a command leaves is newer than all that is told. *)
LEMMA InOrderByApply ==
    ASSUME ConfigsDiffer, ListTypeOK, AnnouncedIsReal, Once, Buffered,
           NEW c \in Camera, InOrderOf(c), CommandApply(c), UNCHANGED connVars
    PROVE  InOrderOf(c)'
<1>1. UNCHANGED <<joined, rx, annPc, snap, wk, held, devices>>
  BY DEF CommandApply, wireVars, announceVars, connVars, collectVars, resultVars
<1>2. RxCap \in Nat /\ log[c] \in Seq(Cfg)
  BY WireAssumption DEF ListTypeOK, CameraTypeOK
<1>3. CASE dev' = dev /\ log' = log
  <2>1. \A p \in Place : \A d \in Cfg : Told(c, p, d)' => Told(c, p, d)
    BY <1>1, <1>3 DEF Told
  <2> QED
    BY <1>3, <2>1, NothingNewTold
<1>4. CASE /\ dev' = [dev EXCEPT ![c] = pkt[c].cfg]
           /\ log' = [log EXCEPT ![c] = Append(log[c], pkt[c].cfg)]
  <2>1. /\ pkt[c].cfg # factory[c] /\ \A i \in DOMAIN log[c] : log[c][i] # pkt[c].cfg
        /\ pkt[c] \in OtherSets \ others
    BY InHandIsNew DEF Once, CommandApply
  <2>2. pkt[c].cfg \in Cfg
    BY <2>1, ListAssumption DEF Command
  <2>3. dev'[c] = pkt[c].cfg /\ log'[c] = Append(log[c], pkt[c].cfg)
    BY <1>4 DEF ListTypeOK, CameraTypeOK
  <2>4. /\ Len(log'[c]) = Len(log[c]) + 1 /\ Len(log[c]) \in Nat
        /\ DOMAIN log[c] = 1 .. Len(log[c])
        /\ DOMAIN log'[c] = DOMAIN log[c] \cup {Len(log[c]) + 1}
        /\ log'[c][Len(log[c]) + 1] = pkt[c].cfg
        /\ \A i \in DOMAIN log[c] : log'[c][i] = log[c][i]
    BY <1>2, <2>2, <2>3, AppendElements
  <2>5. ASSUME NEW p \in Place, NEW d \in Cfg, Told(c, p, d)', p # RxCap + 3
        PROVE  Told(c, p, d) /\ d # pkt[c].cfg
    <3>1. Told(c, p, d)
      BY <1>1, <2>5 DEF Told
    <3> QED
      BY <2>1, <3>1, ToldIsHad DEF Had
  <2>6. \A d \in Cfg : \A n : IsAt(c, d, n)' =>
            \/ IsAt(c, d, n) /\ n \in 0 .. Len(log[c])
            \/ d = pkt[c].cfg /\ n = Len(log'[c])
    BY <2>4 DEF IsAt
  <2>7. \A p \in Place : p <= RxCap + 3
    BY <1>2 DEF Place
  <2> SUFFICES ASSUME NEW p \in Place, NEW q \in Place, NEW d \in Cfg, NEW e \in Cfg,
                      NEW a \in 0 .. Len(log'[c]), NEW b \in 0 .. Len(log'[c]),
                      Told(c, p, d)', Told(c, q, e)', p <= q,
                      IsAt(c, d, a)', IsAt(c, e, b)'
               PROVE  a <= b
    BY DEF InOrderOf, Place
  <2>8. CASE q = RxCap + 3
    <3>1. e = pkt[c].cfg
      <4>1. q # 0 /\ q # 1 /\ q # RxCap + 2
        BY <1>2, <2>8
      <4>2. \A s \in joined : \A i \in DOMAIN rx[s] : q # i + 1
        BY <1>2, <2>8 DEF Buffered, ListTypeOK, WireTypeOK
      <4> QED
        BY <1>1, <2>3, <4>1, <4>2 DEF Told
    <3>2. b = Len(log'[c])
      BY <2>1, <2>6, <3>1 DEF IsAt
    <3> QED
      BY <2>4, <3>2
  <2>9. CASE q # RxCap + 3
    <3>1. p # RxCap + 3
      BY <1>2, <2>7, <2>9 DEF Place
    <3>2. Told(c, p, d) /\ d # pkt[c].cfg /\ Told(c, q, e) /\ e # pkt[c].cfg
      BY <2>5, <2>9, <3>1
    <3>3. /\ IsAt(c, d, a) /\ a \in 0 .. Len(log[c])
          /\ IsAt(c, e, b) /\ b \in 0 .. Len(log[c])
      BY <2>6, <3>2
    <3> QED
      BY <3>2, <3>3 DEF InOrderOf
  <2> QED
    BY <2>8, <2>9
<1>5. \/ dev' = dev /\ log' = log
      \/ /\ dev' = [dev EXCEPT ![c] = pkt[c].cfg]
         /\ log' = [log EXCEPT ![c] = Append(log[c], pkt[c].cfg)]
  BY DEF CommandApply
<1> QED
  BY <1>3, <1>4, <1>5

(* The cameras keep the order. *)
LEMMA InOrderByCameras ==
    ASSUME ConfigsDiffer, ListTypeOK, AnnouncedIsReal, Once, Buffered, OneSocket,
           Cameras, NEW c \in Camera, InOrderOf(c)
    PROVE  InOrderOf(c)'
<1>1. PICK e \in Camera : CameraStep(e)
  BY DEF Cameras
<1>2. UNCHANGED connVars /\ joined' = joined
  BY <1>1, OneDatagram DEF Cameras
<1>3. CASE AnnounceRead(c) \/ AnnounceSend(c) \/ CommandApply(c)
  BY <1>2, <1>3, InOrderByAnnounceRead, InOrderByAnnounceSend, InOrderByApply
<1>4. ASSUME ~ AnnounceRead(c), ~ AnnounceSend(c), ~ CommandApply(c)
      PROVE  InOrderOf(c)'
  <2>1. /\ dev'[c] = dev[c] /\ log'[c] = log[c]
        /\ annPc'[c] = "send" => annPc[c] = "send" /\ snap'[c] = snap[c]
    <3>1. CASE e = c
      BY <1>1, <1>4, <3>1 DEF CameraStep, AnnounceTick, AnnounceReturn, CommandReceive,
            CommandAck, CommandReturn, deviceVars, announceVars, ListTypeOK, CameraTypeOK
    <3>2. CASE e # c
      <4>1. /\ \A f : dev' = [dev EXCEPT ![e] = f] => dev'[c] = dev[c]
            /\ \A f : log' = [log EXCEPT ![e] = f] => log'[c] = log[c]
            /\ \A f : annPc' = [annPc EXCEPT ![e] = f] => annPc'[c] = annPc[c]
            /\ \A f : snap' = [snap EXCEPT ![e] = f] => snap'[c] = snap[c]
        BY <3>2 DEF ListTypeOK, CameraTypeOK
      <4> QED
        BY <1>1, <4>1 DEF CameraStep, AnnounceRead, AnnounceSend, AnnounceTick,
              AnnounceReturn, CommandReceive, CommandAck, CommandApply, CommandReturn,
              deviceVars, announceVars
    <3> QED
      BY <3>1, <3>2
  <2>2. ASSUME NEW s \in joined, NEW i \in DOMAIN rx'[s], NEW d \in Cfg,
               rx'[s][i] = Announce(c, d)
        PROVE  i \in DOMAIN rx[s] /\ rx[s][i] = Announce(c, d)
    <3>1. s \in Sock
      BY DEF ListTypeOK, WireTypeOK
    <3>2. ASSUME NEW m \in ToolDatagram, ToTools(m), m # Announce(c, d)
          PROVE  i \in DOMAIN rx[s] /\ rx[s][i] = Announce(c, d)
      BY <2>2, <3>1, <3>2, HeardOrNot
    <3>3. CASE rx' = rx
      BY <2>2, <3>3
    <3>4. CASE AnnounceSend(e) /\ Announce(e, snap[e]) \in ToolDatagram
      <4>1. Announce(e, snap[e]) # Announce(c, d)
        BY <1>4, <3>4 DEF Announce
      <4> QED
        BY <3>2, <3>4, <4>1 DEF AnnounceSend
    <3>5. CASE /\ SetAck(e, pkt[e].from) \in ToolDatagram
               /\ ToTools(SetAck(e, pkt[e].from))
      <4>1. SetAck(e, pkt[e].from) # Announce(c, d)
        BY DEF Announce, SetAck
      <4> QED
        BY <3>2, <3>5, <4>1
    <3> QED
      BY <1>1, <3>3, <3>4, <3>5, OneDatagram
  <2>3. UNCHANGED <<wk, held, devices>>
    BY <1>2 DEF connVars, collectVars, resultVars
  <2>4. \A p \in Place : \A d \in Cfg : Told(c, p, d)' => Told(c, p, d)
    BY <1>2, <2>1, <2>2, <2>3 DEF Told
  <2> QED
    BY <2>1, <2>4, NothingNewTold
<1> QED
  BY <1>3, <1>4

(* Every step keeps the order. *)
LEMMA ToldInOrderStep ==
    ASSUME ConfigsDiffer, ListTypeOK, AnnouncedIsReal, ReadIsKept, Once, ToldInOrder,
           [Next]_vars
    PROVE  ToldInOrder'
<1>1. Buffered /\ Buffered'
  BY BufferedStep DEF ToldInOrder
<1> SUFFICES ASSUME pc' # "exit", OneSocket', NEW c \in Camera
             PROVE  InOrderOf(c)'
  BY <1>1 DEF ToldInOrder
<1>2. CASE Session
  BY <1>2, InOrderBySession DEF OneSocket
<1>3. CASE Collect \/ Cameras \/ OtherTool \/ UNCHANGED vars
  <2>1. pc' = pc
    BY <1>3 DEF Collect, Cameras, OtherTool, vars, sessionVars
  <2>2. joined' = joined
    BY <1>3, OneDatagram DEF Collect, CollectRead, CollectMerge, CollectTimeout, Tick,
                Cameras, OtherTool, vars, wireVars
  <2>3. OneSocket /\ InOrderOf(c)
    BY <2>1, <2>2 DEF ToldInOrder, OneSocket
  <2>4. CASE OtherTool \/ UNCHANGED vars
    <3>1. /\ UNCHANGED <<dev, log, annPc, snap, rx, wk, held, devices>>
      BY <2>4 DEF OtherTool, vars, wireVars, cameraVars, deviceVars, announceVars,
                  connVars, collectVars, resultVars
    <3>2. \A p \in Place : \A d \in Cfg : Told(c, p, d)' => Told(c, p, d)
      BY <2>2, <3>1 DEF Told
    <3> QED
      BY <2>3, <3>1, <3>2, NothingNewTold
  <2> QED
    BY <1>1, <1>3, <2>3, <2>4, InOrderByCollect, InOrderByCameras
<1> QED
  BY <1>2, <1>3 DEF Next

(* A result that is replaced is replaced by what its camera took later. *)
LEMMA NewerReplaces ==
    ASSUME ConfigsDiffer, ListTypeOK, AnnouncedIsReal, ReadIsKept, Once, ToldInOrder,
           [Next]_vars, OneSocket
    PROVE  NeverOlder
<1> SUFFICES ASSUME NEW m \in Mac, devices[m] # None, devices'[m] # None,
                    devices'[m] # devices[m]
             PROVE  Position(m, devices'[m]) > Position(m, devices[m])
  BY DEF NeverOlder
<1>1. Collect
  <2>1. ~ Session
    BY ListSessionEffect DEF Session, NoDevices
  <2> QED
    BY <2>1 DEF Next, Cameras, OtherTool, vars, connVars, collectVars, resultVars
<1>2. PICK s \in Sock : CollectMerge(s) /\ held[s].type = "announce"
  BY <1>1 DEF Collect, CollectRead, CollectMerge, CollectTimeout, Tick, resultVars
<1>3. wk[s] = "merge" /\ held[s] \in Announcement
  BY <1>2 DEF CollectMerge, ListTypeOK, ConnTypeOK, ToolDatagram, Acknowledgement
<1>4. held[s].mac \in Camera /\ held[s].cfg \in Cfg
  BY <1>3 DEF Announcement
<1>5. devices'[m] = IF m = held[s].mac THEN held[s].cfg ELSE devices[m]
  BY <1>2, <1>4 DEF CollectMerge, MergeDevice, ListTypeOK, ConnTypeOK
<1>6. /\ m \in Camera /\ devices'[m] \in Cfg
      /\ held[s] = Announce(m, devices'[m])
  BY <1>3, <1>4, <1>5 DEF Announcement, Announce
<1>7. s \in joined /\ pc # "exit"
  BY <1>3 DEF ReadIsKept
<1>8. devices[m] \in Cfg
  BY DEF ListTypeOK, ConnTypeOK
<1>9. Told(m, 0, devices[m]) /\ Told(m, 1, devices'[m])
  BY <1>3, <1>6, <1>7 DEF Told
<1>10. /\ Position(m, devices[m]) \in 0 .. Len(log[m])
       /\ IsAt(m, devices[m], Position(m, devices[m]))
       /\ Position(m, devices'[m]) \in 0 .. Len(log[m])
       /\ IsAt(m, devices'[m], Position(m, devices'[m]))
  BY <1>6, <1>8, <1>9, ToldIsHad, PositionIsAt
<1>11. 0 \in Place /\ 1 \in Place /\ 0 <= 1 /\ log[m] \in Seq(Cfg)
  BY <1>6, WireAssumption DEF Place, ListTypeOK, CameraTypeOK
<1>12. Position(m, devices[m]) <= Position(m, devices'[m])
  BY <1>6, <1>7, <1>8, <1>9, <1>10, <1>11 DEF ToldInOrder, InOrderOf
<1>13. Position(m, devices[m]) # Position(m, devices'[m])
  BY <1>10, <1>11 DEF IsAt
<1> QED
  BY <1>10, <1>11, <1>12, <1>13

(* A tool that listens on one interface never goes back to an older
   configuration of a camera, whatever the cameras are sent meanwhile: each of
   the places word passes keeps the order it came in.                        *)
THEOREM NewestFirst ==
    ASSUME ConfigsDiffer, IsFiniteSet(Sock)
    PROVE  Spec => NewestWinsOnOneSocket
<1>1. Init => Once
  <2> SUFFICES ASSUME Init, NEW c \in Camera
               PROVE  OnceAt(c)
    BY DEF Once
  <2>1. inbox[c] = << >> /\ log[c] = << >> /\ cmdPc[c] = "recv"
    BY DEF Init, WireInit, CameraInit
  <2> QED
    BY <2>1 DEF OnceAt, Pending
<1>2. Init => ToldInOrder
  <2> SUFFICES ASSUME Init
               PROVE  ToldInOrder
    OBVIOUS
  <2>1. joined = {} /\ rx = [s \in Sock |-> << >>] /\ log = [c \in Camera |-> << >>]
    BY DEF Init, WireInit, CameraInit
  <2>2. Buffered
    BY <2>1, WireAssumption DEF Buffered
  <2>3. \A c \in Camera : InOrderOf(c)
    BY <2>1 DEF InOrderOf
  <2> QED
    BY <2>2, <2>3 DEF ToldInOrder
<1>3. ASSUME ListTypeOK, Cardinality(joined) = 1
      PROVE  OneSocket
  <2>1. IsFiniteSet(joined)
    BY <1>3, FS_Subset DEF ListTypeOK, WireTypeOK
  <2> QED
    BY <1>3, <2>1, FS_Singleton DEF OneSocket
<1>4. ListTypeOK /\ AnnouncedIsReal /\ ReadIsKept /\ Once /\ ToldInOrder
      /\ [Next]_vars => Once' /\ ToldInOrder'
  BY OnceStep, ToldInOrderStep
<1>5. ListTypeOK /\ AnnouncedIsReal /\ ReadIsKept /\ Once /\ ToldInOrder
      /\ [Next]_vars => (Cardinality(joined) = 1 => NeverOlder)
  BY <1>3, NewerReplaces
<1>6. Init => AnnouncedIsReal /\ ReadIsKept
  BY DEF Init, WireInit, CameraInit, ConnInit, NoDevices, AnnouncedIsReal, Had,
         ReadIsKept, Merging
<1> QED
  BY <1>1, <1>2, <1>4, <1>5, <1>6, AnnouncedIsRealStep, ReadIsKeptStep, ListTypeCorrect, PTL
     DEF Spec, NewestWinsOnOneSocket
=============================================================================
