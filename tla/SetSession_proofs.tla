-------------------------- MODULE SetSession_proofs --------------------------
(***************************************************************************)
(* What `ipcprobe set` guarantees, and what its outcome is worth, for      *)
(* every set of cameras, MACs, configurations, interfaces, requests,       *)
(* time-outs and buffer sizes.                                             *)
(***************************************************************************)
EXTENDS SetInvariant, Network_proofs

-----------------------------------------------------------------------------
(* Type correctness *)

(* A session starts well typed. *)
LEMMA InitType == Init => SetTypeOK
<1> SUFFICES ASSUME Init
             PROVE  SetTypeOK
  OBVIOUS
<1> USE DEF Init
<1>1. WireTypeOK
  BY DEF WireInit, WireTypeOK
<1>2. CameraTypeOK
  BY CameraAssumption DEF CameraInit, CameraTypeOK
<1>3. ConnTypeOK
  <2>1. devices \in [Mac -> Cfg \cup {None}]
    BY DEF ConnInit, NoDevices
  <2>2. held \in [Sock -> ToolDatagram \cup {None}]
    BY DEF ConnInit
  <2>3. wk \in [Sock -> {"idle", "read", "merge", "returned"}]
    BY DEF ConnInit
  <2>4. \A s \in Sock : wk[s] = "merge" => held[s] \in ToolDatagram
    BY DEF ConnInit
  <2>5. acks \in Seq(Acknowledgement) /\ todo \subseteq Sock /\ now \in Nat
    BY DEF ConnInit
  <2>6. until \in Nat /\ sendErr \in BOOLEAN
    BY DEF ConnInit
  <2> QED
    BY <2>1, <2>2, <2>3, <2>4, <2>5, <2>6 DEF ConnTypeOK
<1> QED
  BY <1>1, <1>2, <1>3 DEF SetTypeOK

(* Whichever return cmdSet takes, the deferred Close leaves it well typed. *)
LEMMA ReturnType ==
    ASSUME SetTypeOK, NEW o \in Outcomes, Return(o)
    PROVE  WireTypeOK' /\ ConnTypeOK' /\ pc' = "exit" /\ outcome' = o
           /\ UNCHANGED <<req, deadline, acked>>
<1>1. WireTypeOK'
  BY DEF SetTypeOK, Return, Close, WireTypeOK
<1>2. ConnTypeOK'
  BY DEF SetTypeOK, Return, ConnTypeOK, connVars, sendVars, collectVars, resultVars
<1> QED
  BY <1>1, <1>2 DEF Return

(* The confirmation window is a length of time. *)
LEMMA ConfirmWindowType ==
    ASSUME deadline \in Nat, now \in Nat
    PROVE  ConfirmWindow \in Nat
BY SetAssumption DEF ConfirmWindow

(* The command cmdSet sends is a command. *)
LEMMA SetCommandType ==
    ASSUME req \in Requests
    PROVE  SetCommand \in Command
BY SetAssumption DEF SetCommand, SetNetwork, Command, Request

(* Everything cmdSet itself does. *)
LEMMA SessionType ==
    ASSUME SetTypeOK, SessionStep
    PROVE  /\ WireTypeOK' /\ ConnTypeOK'
           /\ pc' \in {"start", "probe", "discover", "check", "send", "loop",
                       "reprobe", "confirm", "exit"}
           /\ req' = req
           /\ deadline' \in Nat
           /\ acked' \in BOOLEAN
           /\ outcome' \in Outcomes \cup {None}
<1> DEFINE Typed ==
      /\ WireTypeOK' /\ ConnTypeOK'
      /\ pc' \in {"start", "probe", "discover", "check", "send", "loop",
                  "reprobe", "confirm", "exit"}
      /\ req' = req
      /\ deadline' \in Nat
      /\ acked' \in BOOLEAN
      /\ outcome' \in Outcomes \cup {None}
<1> USE SetAssumption DEF SetTypeOK, answer, sessionVars
<1>1. ASSUME Usage \/ NoInterface \/ Refuse \/ BadAddress \/ SendFails \/ GiveUp
      PROVE  Typed
  <2>1. PICK o \in Outcomes : Return(o)
    BY <1>1 DEF Usage, NoInterface, Refuse, BadAddress, SendFails, GiveUp, Outcomes
  <2> QED
    BY <2>1, ReturnType
<1>2. ASSUME OpenConn
      PROVE  Typed
  <2>1. PICK J \in SUBSET Sock : Open(J) /\ todo' = J
    BY <1>2 DEF OpenConn
  <2>2. WireTypeOK'
    BY <1>2, <2>1 DEF OpenConn, Open, WireTypeOK
  <2>3. ConnTypeOK'
    BY <1>2, <2>1 DEF OpenConn, ConnTypeOK, collectVars, resultVars
  <2> QED
    BY <1>2, <2>2, <2>3 DEF OpenConn
<1>3. ASSUME NEW s \in Sock, SendProbe(s)
      PROVE  Typed
  <2>1. SendOn(s, Search) /\ Search \in CameraDatagram
    BY <1>3 DEF SendProbe, CameraDatagram
  <2> QED
    BY <1>3, <2>1, SendOnType DEF SendProbe
<1>4. ASSUME Discover
      PROVE  Typed
  <2>1. ConnTypeOK'
    BY <1>4, CollectStartType DEF Discover, sendVars
  <2> QED
    BY <1>4, <2>1 DEF Discover, wireVars, WireTypeOK
<1>5. ASSUME ProbeFails
      PROVE  Typed
  <2>1. ConnTypeOK'
    BY <1>5 DEF ProbeFails, ConnTypeOK, connVars, sendVars, collectVars, resultVars
  <2> QED
    BY <1>5, <2>1 DEF ProbeFails, wireVars, WireTypeOK
<1>6. ASSUME Discovered
      PROVE  Typed
  <2>1. ConnTypeOK'
    BY <1>6, CollectEndType DEF Discovered, sendVars
  <2> QED
    BY <1>6, <2>1 DEF Discovered, wireVars, WireTypeOK
<1>7. ASSUME StartSet \/ Reprobe
      PROVE  Typed
  <2>1. SendStart /\ UNCHANGED wireVars /\ UNCHANGED collectVars
    BY <1>7 DEF StartSet, Reprobe
  <2>2. WireTypeOK' /\ ConnTypeOK'
    BY <2>1 DEF SendStart, WireTypeOK, ConnTypeOK, wireVars, collectVars, resultVars
  <2> QED
    BY <1>7, <2>2 DEF StartSet, Reprobe
<1>8. ASSUME NEW s \in Sock, SendSet(s)
      PROVE  Typed
  <2>1. SendOn(s, SetCommand) /\ SetCommand \in CameraDatagram
    BY <1>8, SetCommandType DEF SendSet, CameraDatagram
  <2> QED
    BY <1>8, <2>1, SendOnType DEF SendSet
<1>9. ASSUME Sent
      PROVE  Typed
  <2>1. WireTypeOK' /\ ConnTypeOK'
    BY <1>9 DEF Sent, WireTypeOK, wireVars, ConnTypeOK, connVars, sendVars,
                collectVars, resultVars
  <2>2. now + ConfirmTimeout \in Nat
    BY DEF ConnTypeOK
  <2> QED
    BY <1>9, <2>1, <2>2 DEF Sent
<1>10. ASSUME OpenWindow
       PROVE  Typed
  <2>1. ConfirmWindow \in Nat
    BY ConfirmWindowType DEF ConnTypeOK
  <2>2. ConnTypeOK'
    BY <1>10, <2>1, CollectStartType DEF OpenWindow, sendVars
  <2> QED
    BY <1>10, <2>2 DEF OpenWindow, wireVars, WireTypeOK
<1>11. ASSUME Confirmed
       PROVE  Typed
  <2>1. ConnTypeOK'
    BY <1>11, CollectEndType DEF Confirmed, sendVars
  <2>2. WireTypeOK'
    BY <1>11 DEF Confirmed, Close, WireTypeOK
  <2> QED
    BY <1>11, <2>1, <2>2 DEF Confirmed, Heard, Outcomes
<1>12. ASSUME Again
       PROVE  Typed
  <2>1. ConnTypeOK'
    BY <1>12, CollectEndType DEF Again, sendVars
  <2> QED
    BY <1>12, <2>1 DEF Again, Heard, wireVars, WireTypeOK
<1> QED
  BY <1>1, <1>2, <1>3, <1>4, <1>5, <1>6, <1>7, <1>8, <1>9, <1>10, <1>11, <1>12
     DEF SessionStep

(* Every step of the session, of Collect, of a camera or of another tool
   keeps the types. *)
LEMMA StepType == SetTypeOK /\ [Next]_vars => SetTypeOK'
<1> SUFFICES ASSUME SetTypeOK, [Next]_vars
             PROVE  SetTypeOK'
  OBVIOUS
<1> USE DEF SetTypeOK
<1>1. CASE Session
  <2>1. CameraTypeOK' /\ others' \subseteq OtherSets
    BY <1>1 DEF Session, CameraTypeOK, cameraVars, deviceVars, announceVars, commandVars
  <2> QED
    BY <1>1, <2>1, SessionType DEF Session
<1>2. CASE Collect
  <2>1. WireTypeOK' /\ ConnTypeOK'
    BY <1>2, CollectStepType, WireAssumption DEF Collect
  <2>2. CameraTypeOK'
    BY <1>2 DEF Collect, CameraTypeOK, cameraVars, deviceVars, announceVars, commandVars
  <2> QED
    BY <1>2, <2>1, <2>2 DEF Collect, sessionVars, answer
<1>3. CASE Cameras
  <2>1. WireTypeOK' /\ CameraTypeOK'
    BY <1>3, CameraStepType DEF Cameras
  <2>2. ConnTypeOK'
    BY <1>3 DEF Cameras, ConnTypeOK, connVars, sendVars, collectVars, resultVars
  <2> QED
    BY <1>3, <2>1, <2>2 DEF Cameras, sessionVars, answer
<1>4. CASE OtherTool
  <2>1. PICK m \in others : ToCameras(m) /\ others' = others \ {m}
    BY <1>4 DEF OtherTool
  <2>2. m \in CameraDatagram
    BY SetAssumption DEF CameraDatagram
  <2>3. WireTypeOK'
    BY <1>4, <2>1, <2>2, ToCamerasEffect DEF OtherTool, WireTypeOK
  <2>4. CameraTypeOK' /\ ConnTypeOK'
    BY <1>4 DEF OtherTool, CameraTypeOK, cameraVars, deviceVars, announceVars,
                commandVars, ConnTypeOK, connVars, sendVars, collectVars, resultVars
  <2> QED
    BY <1>4, <2>1, <2>3, <2>4 DEF OtherTool, sessionVars, answer
<1>5. CASE UNCHANGED vars
  BY <1>5 DEF vars, WireTypeOK, wireVars, CameraTypeOK, cameraVars, deviceVars,
              announceVars, commandVars, ConnTypeOK, connVars, sendVars, collectVars,
              resultVars, sessionVars, answer
<1> QED
  BY <1>1, <1>2, <1>3, <1>4, <1>5 DEF Next

(* Every variable of a session keeps its type: buffers hold datagrams of
   their group, cameras' records configurations, the clock a number.         *)
THEOREM TypeCorrect == Spec => []SetTypeOK
BY InitType, StepType, PTL DEF Spec

-----------------------------------------------------------------------------
(* What each part may do to the state the invariant is about *)

(* cmdSet: it puts only searches and its own command on the wire, empties the
   sockets or leaves them, and starts every Collect from nothing.            *)
LEMMA SessionEffect ==
    ASSUME SetTypeOK, SessionStep
    PROVE  /\ req' = req
           /\ rx' = rx \/ rx' = [s \in Sock |-> << >>]
           /\ held' = held /\ \A s \in Sock : wk'[s] = "merge" => wk[s] = "merge"
           /\ devices' = devices \/ devices' = NoDevices
           /\ \A c \in Camera : \A i \in DOMAIN inbox'[c] :
                \/ inbox'[c][i] = Search
                \/ pc = "send" /\ inbox'[c][i] = SetCommand
                \/ i \in DOMAIN inbox[c] /\ inbox'[c][i] = inbox[c][i]
<1> DEFINE Effect ==
           /\ req' = req
           /\ rx' = rx \/ rx' = [s \in Sock |-> << >>]
           /\ held' = held /\ \A s \in Sock : wk'[s] = "merge" => wk[s] = "merge"
           /\ devices' = devices \/ devices' = NoDevices
           /\ \A c \in Camera : \A i \in DOMAIN inbox'[c] :
                \/ inbox'[c][i] = Search
                \/ pc = "send" /\ inbox'[c][i] = SetCommand
                \/ i \in DOMAIN inbox[c] /\ inbox'[c][i] = inbox[c][i]
<1> USE DEF wireVars, collectVars, resultVars, connVars, sendVars, answer, sessionVars
<1>1. ASSUME Usage \/ NoInterface \/ Refuse \/ BadAddress \/ SendFails \/ GiveUp
      PROVE  Effect
  <2>1. PICK o : Return(o)
    BY <1>1 DEF Usage, NoInterface, Refuse, BadAddress, SendFails, GiveUp
  <2> QED
    BY <2>1 DEF Return, Close
<1>2. CASE OpenConn
  BY <1>2 DEF OpenConn, Open
<1>3. ASSUME NEW s \in Sock, SendProbe(s)
      PROVE  Effect
  <2>1. SendOn(s, Search) /\ req' = req
    BY <1>3 DEF SendProbe
  <2>2. CASE ToCameras(Search)
    <3>1. Search \in CameraDatagram /\ inbox \in [Camera -> Seq(CameraDatagram)]
      BY DEF CameraDatagram, SetTypeOK, WireTypeOK
    <3> QED
      BY <2>1, <2>2, <3>1, ToCamerasEffect DEF SendOn
  <2>3. CASE UNCHANGED inbox
    BY <2>1, <2>3 DEF SendOn
  <2> QED
    BY <2>1, <2>2, <2>3 DEF SendOn
<1>4. ASSUME NEW s \in Sock, SendSet(s)
      PROVE  Effect
  <2>1. SendOn(s, SetCommand) /\ req' = req /\ pc = "send"
    BY <1>4 DEF SendSet
  <2>2. CASE ToCameras(SetCommand)
    <3>1. SetCommand \in CameraDatagram /\ inbox \in [Camera -> Seq(CameraDatagram)]
      BY SetCommandType DEF CameraDatagram, SetTypeOK, WireTypeOK
    <3> QED
      BY <2>1, <2>2, <3>1, ToCamerasEffect DEF SendOn
  <2>3. CASE UNCHANGED inbox
    BY <2>1, <2>3 DEF SendOn
  <2> QED
    BY <2>1, <2>2, <2>3 DEF SendOn
<1>5. CASE Discover
  BY <1>5 DEF Discover, CollectStart
<1>6. CASE OpenWindow
  BY <1>6 DEF OpenWindow, CollectStart
<1>7. CASE ProbeFails \/ StartSet \/ Sent \/ Reprobe
  BY <1>7 DEF ProbeFails, StartSet, Sent, Reprobe
<1>8. CASE Discovered \/ Again
  BY <1>8 DEF Discovered, Again, CollectEnd
<1>9. CASE Confirmed
  BY <1>9 DEF Confirmed, CollectEnd, Close
<1> QED
  BY <1>1, <1>2, <1>3, <1>4, <1>5, <1>6, <1>7, <1>8, <1>9 DEF SessionStep

-----------------------------------------------------------------------------
(* The inductive invariant, conjunct by conjunct *)

(* The operator asks for one thing per session. *)
LEMMA ReqConstant ==
    ASSUME SetTypeOK, [Next]_vars
    PROVE  req' = req
<1>1. CASE Session
  BY <1>1, SessionEffect DEF Session
<1> QED
  BY <1>1 DEF Next, Collect, Cameras, OtherTool, vars, sessionVars, answer

(* A command a camera works on is ours, or another tool's for another one. *)
LEMMA WhoseCommand ==
    ASSUME SetTypeOK, CommandsKnown, NEW c \in Camera, cmdPc[c] \in {"ack", "apply"}
    PROVE  \/ pkt[c] = SetCommand /\ c = Target
           \/ pkt[c] \in OtherSets /\ pkt[c].mac = c /\ pkt[c].from # Me /\ c # Target
<1>1. pkt[c] \in Command
  BY DEF SetTypeOK, CameraTypeOK
<1>2. pkt[c].type = "setnet" /\ pkt[c].mac = c
  BY <1>1 DEF Command, CommandsKnown
<1>3. CASE pkt[c] = SetCommand
  BY <1>2, <1>3 DEF SetCommand, SetNetwork, Target
<1>4. CASE pkt[c] \in OtherSets
  BY <1>2, <1>4, OneOperator DEF Target, SetTypeOK
<1> QED
  BY <1>2, <1>3, <1>4 DEF CommandsKnown, KnownCommand

(* Nobody makes up a command: what is on its way to a camera, or being
   worked on by one, is ours or one of the other tools'. *)
LEMMA CommandsKnownStep ==
    ASSUME SetTypeOK, CommandsKnown, [Next]_vars
    PROVE  CommandsKnown'
<1>1. req' = req
  BY ReqConstant
<1>2. CASE Session
  <2>1. UNCHANGED <<cmdPc, pkt>>
    BY <1>2 DEF Session, cameraVars, commandVars
  <2>2. ASSUME NEW c \in Camera, NEW i \in DOMAIN inbox'[c]
        PROVE  KnownCommand(inbox'[c][i])
    BY <1>2, SessionEffect DEF Session, CommandsKnown, KnownCommand, Search
  <2> QED
    BY <1>1, <2>1, <2>2 DEF CommandsKnown, KnownCommand, SetCommand
<1>3. CASE Collect
  BY <1>1, <1>3, CollectEffect
     DEF SetTypeOK, Collect, cameraVars, commandVars, CommandsKnown, KnownCommand,
         SetCommand
<1>4. CASE Cameras
  <2>1. PICK c \in Camera : CameraStep(c)
    BY <1>4 DEF Cameras
  <2>2. ASSUME NEW e \in Camera, NEW i \in DOMAIN inbox'[e]
        PROVE  KnownCommand(inbox'[e][i])
    BY <2>1, CameraEffect DEF SetTypeOK, CommandsKnown
  <2>3. ASSUME NEW e \in Camera, cmdPc'[e] \in {"ack", "apply"}
        PROVE  KnownCommand(pkt'[e]) /\ pkt'[e].mac = e
    BY <2>1, <2>3, CameraEffect DEF SetTypeOK, CommandsKnown
  <2> QED
    BY <1>1, <2>2, <2>3 DEF CommandsKnown, KnownCommand, SetCommand
<1>5. CASE OtherTool
  <2>1. PICK m \in others : ToCameras(m)
    BY <1>5 DEF OtherTool
  <2>2. m \in OtherSets /\ m \in CameraDatagram
    BY SetAssumption DEF SetTypeOK, CameraDatagram
  <2>3. UNCHANGED <<cmdPc, pkt>>
    BY <1>5 DEF OtherTool, cameraVars, commandVars
  <2>4. ASSUME NEW c \in Camera, NEW i \in DOMAIN inbox'[c]
        PROVE  KnownCommand(inbox'[c][i])
    <3>1. inbox \in [Camera -> Seq(CameraDatagram)]
      BY DEF SetTypeOK, WireTypeOK
    <3>2. \/ inbox'[c][i] = m
          \/ i \in DOMAIN inbox[c] /\ inbox'[c][i] = inbox[c][i]
      BY ONLY <2>1, <2>2, <2>4, <3>1, ToCamerasEffect
    <3> QED
      BY <2>2, <3>2 DEF CommandsKnown, KnownCommand
  <2> QED
    BY <1>1, <2>3, <2>4 DEF CommandsKnown, KnownCommand, SetCommand
<1>6. CASE UNCHANGED vars
  BY <1>1, <1>6 DEF vars, wireVars, cameraVars, commandVars, CommandsKnown,
                    KnownCommand, SetCommand
<1> QED
  BY <1>2, <1>3, <1>4, <1>5, <1>6 DEF Next

(* Only a camera's own step changes a camera's record. *)
LEMMA RecordsElsewhere ==
    ASSUME Session \/ Collect \/ OtherTool \/ UNCHANGED vars
    PROVE  UNCHANGED <<dev, log, annPc, snap, cmdPc, pkt>>
BY DEF Session, Collect, OtherTool, vars, cameraVars, deviceVars, announceVars, commandVars

(* The camera that was asked for is changed by our command only, and only
   if that carries its password. *)
LEMMA TargetIsOursStep ==
    ASSUME SetTypeOK, CommandsKnown, TargetIsOurs, [Next]_vars
    PROVE  TargetIsOurs'
<1>1. req' = req
  BY ReqConstant
<1>2. CASE Session \/ Collect \/ OtherTool \/ UNCHANGED vars
  BY <1>1, <1>2, RecordsElsewhere DEF TargetIsOurs, Target
<1>3. CASE Cameras
  <2>1. PICK c \in Camera : CameraStep(c)
    BY <1>3 DEF Cameras
  <2>2. CASE dev' = dev /\ log' = log
    BY <1>1, <2>2 DEF TargetIsOurs, Target
  <2>3. CASE /\ cmdPc[c] = "apply" /\ Accepts(c, pkt[c])
             /\ dev' = [dev EXCEPT ![c] = pkt[c].cfg]
             /\ log' = [log EXCEPT ![c] = Append(@, pkt[c].cfg)]
    <3>1. CASE c = Target
      <4>1. pkt[c] = SetCommand
        BY <2>3, <3>1, WhoseCommand
      <4>2. pkt[c].cfg = req.cfg /\ pkt[c].pw = req.pw
        BY <4>1 DEF SetCommand, SetNetwork
      <4>3. log[c] \in Seq(Cfg) /\ log'[c] # << >>
        BY <2>3 DEF SetTypeOK, CameraTypeOK
      <4>4. dev'[c] = req.cfg /\ req.pw = password[c]
        BY <2>3, <4>2 DEF Accepts, SetTypeOK, CameraTypeOK
      <4> QED
        BY <1>1, <3>1, <4>3, <4>4 DEF TargetIsOurs, Target
    <3>2. CASE c # Target
      BY <1>1, <2>3, <3>2 DEF TargetIsOurs, Target, SetTypeOK, CameraTypeOK
    <3> QED
      BY <3>1, <3>2
  <2> QED
    BY <2>1, <2>2, <2>3, CameraEffect DEF SetTypeOK
<1> QED
  BY <1>2, <1>3 DEF Next

(* Once the camera is at the requested address, it stays there. *)
LEMMA GoalStays ==
    ASSUME SetTypeOK, CommandsKnown, [Next]_vars,
           Target \in Camera, AtGoal(dev[Target])
    PROVE  AtGoal(dev'[Target])
<1>1. CASE Session \/ Collect \/ OtherTool \/ UNCHANGED vars
  BY <1>1, RecordsElsewhere DEF AtGoal, Target
<1>2. CASE Cameras
  <2>1. PICK c \in Camera : CameraStep(c)
    BY <1>2 DEF Cameras
  <2>2. CASE dev' = dev
    BY <2>2
  <2>3. CASE /\ cmdPc[c] = "apply"
             /\ dev' = [dev EXCEPT ![c] = pkt[c].cfg]
    <3>1. CASE c = Target
      <4>1. pkt[c] = SetCommand
        BY <2>3, <3>1, WhoseCommand
      <4> QED
        BY <2>3, <3>1, <4>1 DEF SetCommand, SetNetwork, AtGoal, SetTypeOK, CameraTypeOK
    <3>2. CASE c # Target
      BY <2>3, <3>2 DEF SetTypeOK, CameraTypeOK
    <3> QED
      BY <3>1, <3>2
  <2> QED
    BY <2>1, <2>2, <2>3, CameraEffect DEF SetTypeOK
<1> QED
  BY <1>1, <1>2 DEF Next

(* Honest(c, d) in the next state, of a request that does not change. *)
StillHonest(c, d) == c = Target /\ AtGoal(d) => AtGoal(dev'[Target])

(* Word that the camera is at the goal stays true when it was true: no
   step takes the camera away from the goal. *)
LEMMA HonestStays ==
    ASSUME SetTypeOK, CommandsKnown, [Next]_vars,
           NEW c \in Camera, NEW d, Honest(c, d)
    PROVE  StillHonest(c, d)
BY GoalStays DEF Honest, StillHonest

(* An announcement is built from the record as it is. *)
LEMMA SnapsHonestStep ==
    ASSUME SetTypeOK, CommandsKnown, SnapsHonest, [Next]_vars
    PROVE  SnapsHonest'
<1>1. req' = req
  BY ReqConstant
<1>2. CASE Session \/ Collect \/ OtherTool \/ UNCHANGED vars
  BY <1>1, <1>2, RecordsElsewhere DEF SnapsHonest, Honest, AtGoal, Target
<1>3. CASE Cameras
  <2>1. PICK c \in Camera : CameraStep(c)
    BY <1>3 DEF Cameras
  <2>2. ASSUME NEW e \in Camera, annPc'[e] = "send"
        PROVE  StillHonest(e, snap'[e])
    <3>1. CASE annPc[e] = "send" /\ snap'[e] = snap[e]
      BY <3>1, HonestStays DEF SnapsHonest
    <3>2. CASE snap'[e] = dev[e] /\ dev' = dev
      BY <3>2 DEF StillHonest
    <3> QED
      BY <2>1, <2>2, <3>1, <3>2, CameraEffect DEF SetTypeOK
  <2> QED
    BY <1>1, <2>2 DEF SnapsHonest, Honest, StillHonest, AtGoal, Target
<1> QED
  BY <1>2, <1>3 DEF Next

StillHonestDatagram(m) == m.type = "announce" => StillHonest(m.mac, m.cfg)

(* The same of an announcement, wherever it is. *)
LEMMA HonestDatagramStays ==
    ASSUME SetTypeOK, CommandsKnown, [Next]_vars,
           NEW m \in ToolDatagram, HonestDatagram(m)
    PROVE  StillHonestDatagram(m)
<1>1. CASE m.type = "announce"
  <2>1. m.mac \in Camera
    BY <1>1 DEF ToolDatagram, Announcement, Acknowledgement
  <2> QED
    BY <1>1, <2>1, HonestStays DEF HonestDatagram, StillHonestDatagram
<1>2. CASE m.type # "announce"
  BY <1>2 DEF StillHonestDatagram
<1> QED
  BY <1>1, <1>2

(* What is in a socket's buffer was announced by a camera. *)
LEMMA BuffersHonestStep ==
    ASSUME SetTypeOK, CommandsKnown, SnapsHonest, BuffersHonest, [Next]_vars
    PROVE  BuffersHonest'
<1>1. rx \in [Sock -> Seq(ToolDatagram)]
  BY DEF SetTypeOK, WireTypeOK
<1>2. ASSUME NEW s \in Sock, NEW j \in DOMAIN rx[s]
      PROVE  StillHonestDatagram(rx[s][j])
  <2>1. rx[s][j] \in ToolDatagram
    BY <1>1, <1>2
  <2> QED
    BY <1>2, <2>1, HonestDatagramStays DEF BuffersHonest
<1>3. SUFFICES ASSUME NEW s \in Sock, NEW i \in DOMAIN rx'[s]
               PROVE  StillHonestDatagram(rx'[s][i])
  <2>1. req' = req
    BY ReqConstant
  <2> QED
    BY <1>3, <2>1 DEF BuffersHonest, HonestDatagram, Honest, StillHonestDatagram,
                      StillHonest, AtGoal, Target
<1>4. CASE Session
  BY <1>2, <1>3, <1>4, SessionEffect DEF Session
<1>5. CASE Collect
  BY <1>2, <1>3, <1>5, CollectEffect DEF SetTypeOK, Collect
<1>6. CASE Cameras
  <2>1. PICK c \in Camera : CameraStep(c)
    BY <1>6 DEF Cameras
  <2>2. CASE rx' = rx
    BY <1>2, <1>3, <2>2
  <2>3. CASE annPc[c] = "send" /\ ToTools(Announce(c, snap[c]))
    <3>1. Announce(c, snap[c]) \in ToolDatagram
      BY <2>3 DEF Announce, ToolDatagram, Announcement, SetTypeOK, CameraTypeOK
    <3>2. HonestDatagram(Announce(c, snap[c]))
      BY <2>3 DEF SnapsHonest, HonestDatagram, Announce
    <3> QED
      BY <1>1, <1>2, <1>3, <2>3, <3>1, <3>2, ToToolsEffect, HonestDatagramStays
  <2>4. CASE cmdPc[c] = "ack" /\ ToTools(SetAck(c, pkt[c].from))
    <3>1. SetAck(c, pkt[c].from) \in ToolDatagram
      BY <2>4 DEF SetAck, ToolDatagram, Acknowledgement, Command, SetTypeOK, CameraTypeOK
    <3>2. StillHonestDatagram(SetAck(c, pkt[c].from))
      BY DEF StillHonestDatagram, SetAck
    <3> QED
      BY <1>1, <1>2, <1>3, <2>4, <3>1, <3>2, ToToolsEffect
  <2> QED
    BY <2>1, <2>2, <2>3, <2>4, CameraEffect DEF SetTypeOK
<1>7. CASE OtherTool \/ UNCHANGED vars
  BY <1>2, <1>3, <1>7 DEF OtherTool, vars, wireVars
<1> QED
  BY <1>4, <1>5, <1>6, <1>7 DEF Next

(* A goroutine of Collect holds only what its socket's buffer held. *)
LEMMA HeldHonestStep ==
    ASSUME SetTypeOK, CommandsKnown, BuffersHonest, HeldHonest, [Next]_vars
    PROVE  HeldHonest'
<1>1. SUFFICES ASSUME NEW s \in Sock, wk'[s] = "merge"
               PROVE  StillHonestDatagram(held'[s])
  <2>1. req' = req
    BY ReqConstant
  <2> QED
    BY <1>1, <2>1 DEF HeldHonest, HonestDatagram, Honest, StillHonestDatagram,
                      StillHonest, AtGoal, Target
<1>2. wk[s] = "merge" => StillHonestDatagram(held[s])
  BY HonestDatagramStays DEF HeldHonest, SetTypeOK, ConnTypeOK
<1>3. CASE Session
  BY <1>1, <1>2, <1>3, SessionEffect DEF Session
<1>4. CASE Collect
  <2>1. CASE wk[s] = "merge" /\ held'[s] = held[s]
    BY <1>2, <2>1
  <2>2. ASSUME NEW j \in DOMAIN rx[s], held'[s] = rx[s][j]
        PROVE  StillHonestDatagram(held'[s])
    <3>1. rx[s][j] \in ToolDatagram
      BY DEF SetTypeOK, WireTypeOK
    <3> QED
      BY <2>2, <3>1, HonestDatagramStays DEF BuffersHonest
  <2> QED
    BY <1>1, <1>4, <2>1, <2>2, CollectEffect DEF SetTypeOK, Collect
<1>5. CASE Cameras \/ OtherTool \/ UNCHANGED vars
  BY <1>1, <1>2, <1>5 DEF Cameras, OtherTool, vars, connVars, collectVars
<1> QED
  BY <1>3, <1>4, <1>5 DEF Next

(* Collect's result holds only what its goroutines held. *)
LEMMA DevicesHonestStep ==
    ASSUME SetTypeOK, CommandsKnown, HeldHonest, DevicesHonest, [Next]_vars
    PROVE  DevicesHonest'
<1>1. SUFFICES ASSUME NEW m \in Mac, devices'[m] # None
               PROVE  m \in Camera /\ StillHonest(m, devices'[m])
  <2>1. req' = req
    BY ReqConstant
  <2> QED
    BY <1>1, <2>1 DEF DevicesHonest, Honest, StillHonest, AtGoal, Target
<1>2. devices[m] # None => m \in Camera /\ StillHonest(m, devices[m])
  BY HonestStays DEF DevicesHonest
<1>3. CASE Session
  BY <1>1, <1>2, <1>3, SessionEffect DEF Session, NoDevices
<1>4. CASE Collect
  <2>1. CASE devices' = devices
    BY <1>1, <1>2, <2>1
  <2>2. ASSUME NEW s \in Sock, wk[s] = "merge", held[s] \in Announcement,
               devices' = [devices EXCEPT ![held[s].mac] = held[s].cfg]
        PROVE  m \in Camera /\ StillHonest(m, devices'[m])
    <3>1. CASE m = held[s].mac
      <4>1. m \in Camera /\ held[s].type = "announce" /\ held[s] \in ToolDatagram
        BY <2>2, <3>1 DEF Announcement, ToolDatagram
      <4>2. StillHonest(m, held[s].cfg)
        BY <2>2, <3>1, <4>1, HonestStays DEF HeldHonest, HonestDatagram
      <4>3. devices'[m] = held[s].cfg
        BY <2>2, <3>1 DEF SetTypeOK, ConnTypeOK
      <4> QED
        BY <4>1, <4>2, <4>3
    <3>2. CASE m # held[s].mac
      <4>1. devices'[m] = devices[m]
        BY <2>2, <3>2 DEF SetTypeOK, ConnTypeOK
      <4> QED
        BY <1>1, <1>2, <4>1
    <3> QED
      BY <3>1, <3>2
  <2> QED
    BY <1>4, <2>1, <2>2, CollectEffect DEF SetTypeOK, Collect
<1>5. CASE Cameras \/ OtherTool \/ UNCHANGED vars
  BY <1>1, <1>2, <1>5 DEF Cameras, OtherTool, vars, connVars, collectVars, resultVars
<1> QED
  BY <1>3, <1>4, <1>5 DEF Next

(* cmdSet confirms only on its result's word, which is true, and remains so. *)
LEMMA ConfirmedThereStep ==
    ASSUME SetTypeOK, CommandsKnown, DevicesHonest, ConfirmedThere, [Next]_vars
    PROVE  ConfirmedThere'
<1>1. req' = req
  BY ReqConstant
<1>2. CASE outcome' = outcome
  BY <1>1, <1>2, GoalStays DEF ConfirmedThere, AtGoal, Target
<1>3. CASE Session /\ outcome' # outcome
  <2>1. CASE Confirmed
    <3>1. AnnouncedThere /\ Target \in Mac
      BY <2>1, SetAssumption DEF Confirmed, Target, SetTypeOK, Request
    <3>2. Target \in Camera /\ AtGoal(dev[Target])
      BY <3>1 DEF AnnouncedThere, DevicesHonest, Honest, AtGoal, Target
    <3>3. dev' = dev
      BY <1>3 DEF Session, cameraVars, deviceVars
    <3> QED
      BY <1>1, <3>2, <3>3 DEF ConfirmedThere, AtGoal, Target
  <2>2. CASE Usage \/ NoInterface \/ Refuse \/ BadAddress \/ SendFails \/ GiveUp
    BY <2>2 DEF Usage, NoInterface, Refuse, BadAddress, SendFails, GiveUp, Return,
                ConfirmedThere
  <2> QED
    BY <1>3, <2>1, <2>2
       DEF Session, SessionStep, OpenConn, Discover, ProbeFails, Discovered, StartSet,
           Sent, Reprobe, OpenWindow, Again, SendProbe, SendSet, answer, sessionVars
<1> QED
  BY <1>2, <1>3 DEF Next, Collect, Cameras, OtherTool, vars, sessionVars, answer

(* A command leaves only after StartSet, which made every check. *)
LEMMA FiredStep ==
    ASSUME SetTypeOK, DevicesHonest, Phases, SessionStep
    PROVE  /\ pc' = "exit" <=> outcome' \in Outcomes
           /\ pc' \in {"probe", "discover", "check"} => ~ req.usage
           /\ Fired' => Allowed
           /\ Fired => Fired'
<1> USE SetAssumption DEF Phases, Fired, Outcomes, answer, sessionVars, SetTypeOK
<1>1. CASE Usage \/ NoInterface \/ Refuse \/ BadAddress \/ SendFails \/ GiveUp
  BY <1>1 DEF Usage, NoInterface, Refuse, BadAddress, SendFails, GiveUp, Return
<1>2. CASE OpenConn \/ Discover \/ ProbeFails \/ Discovered
  BY <1>2 DEF OpenConn, Discover, ProbeFails, Discovered
<1>3. CASE StartSet
  <2>1. Target \in Mac
    BY DEF Target, Request
  <2>2. Allowed
    BY <1>3, <2>1 DEF StartSet, MaySend, DevicesHonest, Allowed, Target
  <2> QED
    BY <1>3, <2>2 DEF StartSet
<1>4. CASE Sent \/ Reprobe \/ OpenWindow \/ Confirmed \/ Again
  BY <1>4 DEF Sent, Reprobe, OpenWindow, Confirmed, Again
<1>5. CASE \E s \in Sock : SendProbe(s) \/ SendSet(s)
  BY <1>5 DEF SendProbe, SendSet
<1> QED
  BY <1>1, <1>2, <1>3, <1>4, <1>5 DEF SessionStep

(* Before StartSet, nobody puts a command of ours on the wire, and the camera
   that was asked for takes none.                                            *)
LEMMA NothingUnderWay ==
    ASSUME SetTypeOK, CommandsKnown, Phases, ~ Fired, [Next]_vars
    PROVE  /\ \A c \in Camera : ~ OursPending(c)'
           /\ Target \in Camera => log'[Target] = << >>
<1>1. \A c \in Camera : ~ OursPending(c)
  BY DEF Phases
<1>2. CASE Session
  <2>1. pc # "send"
    BY DEF Fired
  <2>2. UNCHANGED <<cmdPc, pkt, log>>
    BY <1>2, RecordsElsewhere
  <2>3. \A c \in Camera : ~ OursPending(c)'
    BY <1>1, <1>2, <2>1, <2>2, SessionEffect DEF Session, OursPending, Search
  <2> QED
    BY <2>2, <2>3 DEF Phases
<1>3. CASE Collect
  BY <1>1, <1>3, CollectEffect, RecordsElsewhere DEF SetTypeOK, Collect, OursPending, Phases
<1>4. CASE Cameras
  <2>1. PICK c \in Camera : CameraStep(c)
    BY <1>4 DEF Cameras
  <2>2. ASSUME NEW e \in Camera, OursPending(e)'
        PROVE  FALSE
    <3>1. \A j \in DOMAIN inbox[e] :
            ~ (inbox[e][j].type = "setnet" /\ inbox[e][j].from = Me)
      BY <1>1 DEF OursPending
    <3>2. cmdPc[e] \in {"ack", "apply"} => pkt[e].from # Me
      BY <1>1 DEF OursPending
    <3>3. \A i \in DOMAIN inbox'[e] :
            ~ (inbox'[e][i].type = "setnet" /\ inbox'[e][i].from = Me)
      BY <2>1, <3>1, CameraEffect DEF SetTypeOK
    <3>4. cmdPc'[e] \in {"ack", "apply"} => pkt'[e].from # Me
      BY <2>1, <3>1, <3>2, CameraEffect DEF SetTypeOK
    <3> QED
      BY <2>2, <3>3, <3>4 DEF OursPending
  <2>3. CASE log' = log
    BY <2>2, <2>3 DEF Phases
  <2>4. CASE cmdPc[c] = "apply" /\ log' = [log EXCEPT ![c] = Append(@, pkt[c].cfg)]
    <3>1. pkt[c] # SetCommand
      BY <1>1, <2>4 DEF OursPending, SetCommand, SetNetwork
    <3>2. c # Target
      BY <2>4, <3>1, WhoseCommand
    <3> QED
      BY <2>2, <2>4, <3>2 DEF Phases, SetTypeOK, CameraTypeOK
  <2> QED
    BY <2>1, <2>3, <2>4, CameraEffect DEF SetTypeOK
<1>5. CASE OtherTool
  <2>1. PICK m \in others : ToCameras(m)
    BY <1>5 DEF OtherTool
  <2>2. m \in CameraDatagram /\ m.from # Me
    BY SetAssumption, OneOperator DEF SetTypeOK, CameraDatagram
  <2>3. UNCHANGED <<cmdPc, pkt, log>>
    BY <1>5, RecordsElsewhere
  <2>4. ASSUME NEW c \in Camera, OursPending(c)'
        PROVE  FALSE
    <3>1. \A i \in DOMAIN inbox'[c] :
            inbox'[c][i] = m \/ (i \in DOMAIN inbox[c] /\ inbox'[c][i] = inbox[c][i])
      BY <2>1, <2>2, ToCamerasEffect DEF SetTypeOK, WireTypeOK
    <3>2. \A i \in DOMAIN inbox'[c] :
            ~ (inbox'[c][i].type = "setnet" /\ inbox'[c][i].from = Me)
      BY <1>1, <2>2, <3>1 DEF OursPending
    <3>3. cmdPc'[c] \in {"ack", "apply"} => pkt'[c].from # Me
      BY <1>1, <2>3 DEF OursPending
    <3> QED
      BY <2>4, <3>2, <3>3 DEF OursPending
  <2> QED
    BY <2>3, <2>4 DEF Phases
<1>6. CASE UNCHANGED vars
  BY <1>1, <1>6 DEF vars, wireVars, cameraVars, commandVars, deviceVars, OursPending,
                    Phases
<1> QED
  BY <1>2, <1>3, <1>4, <1>5, <1>6 DEF Next

(* Nothing leaves before the checks are over, and nothing at all when one
   of them fails. *)
LEMMA PhasesStep ==
    ASSUME SetTypeOK, CommandsKnown, DevicesHonest, Phases, [Next]_vars
    PROVE  Phases'
<1>1. req' = req
  BY ReqConstant
<1>2. /\ pc' = "exit" <=> outcome' \in Outcomes
      /\ pc' \in {"probe", "discover", "check"} => ~ req.usage
      /\ Fired' => Allowed
      /\ Fired => Fired'
  <2>1. CASE Session
    BY <2>1, FiredStep DEF Session
  <2>2. CASE pc' = pc /\ outcome' = outcome
    BY <2>2 DEF Phases, Fired
  <2> QED
    BY <2>1, <2>2 DEF Next, Collect, Cameras, OtherTool, vars, sessionVars, answer
<1>3. ~ Fired' => /\ \A c \in Camera : ~ OursPending(c)'
                  /\ Target \in Camera => log'[Target] = << >>
  BY <1>2, NothingUnderWay
<1> QED
  BY <1>1, <1>2, <1>3 DEF Phases, Allowed, Target

(* A camera that was not asked for applies other tools' commands only. *)
LEMMA OnlyTargetStep ==
    ASSUME SetTypeOK, CommandsKnown, OnlyTargetChanges, [Next]_vars
    PROVE  OnlyTargetChanges'
<1>1. req' = req
  BY ReqConstant
<1>2. CASE Session \/ Collect \/ OtherTool \/ UNCHANGED vars
  BY <1>1, <1>2, RecordsElsewhere DEF OnlyTargetChanges
<1>3. CASE Cameras
  <2>1. PICK c \in Camera : CameraStep(c)
    BY <1>3 DEF Cameras
  <2>2. CASE log' = log
    BY <1>1, <2>2 DEF OnlyTargetChanges
  <2>3. CASE cmdPc[c] = "apply" /\ log' = [log EXCEPT ![c] = Append(@, pkt[c].cfg)]
    <3>1. ASSUME NEW e \in Camera \ {req.mac}, NEW i \in DOMAIN log'[e]
          PROVE  \E m \in OtherSets : m.mac = e /\ m.cfg = log'[e][i]
      <4>1. log \in [Camera -> Seq(Cfg)]
        BY DEF SetTypeOK, CameraTypeOK
      <4>2. CASE i \in DOMAIN log[e]
        <5>1. log'[e][i] = log[e][i]
          BY <2>3, <4>1, <4>2
        <5> QED
          BY <3>1, <4>2, <5>1 DEF OnlyTargetChanges
      <4>3. CASE i \notin DOMAIN log[e]
        <5>1. e = c /\ log'[e] = Append(log[e], pkt[e].cfg)
          BY <2>3, <3>1, <4>1, <4>3
        <5>2. i = Len(log[e]) + 1 /\ log'[e][i] = pkt[e].cfg
          BY <3>1, <4>1, <4>3, <5>1
        <5>3. pkt[e] \in OtherSets /\ pkt[e].mac = e
          BY <2>3, <3>1, <5>1, WhoseCommand DEF Target
        <5> QED
          BY <5>2, <5>3
      <4> QED
        BY <4>2, <4>3
    <3> QED
      BY <1>1, <3>1 DEF OnlyTargetChanges
  <2> QED
    BY <2>1, <2>2, <2>3, CameraEffect DEF SetTypeOK
<1> QED
  BY <1>2, <1>3 DEF Next

-----------------------------------------------------------------------------
(* The theorems *)

(* The inductive invariant holds at the start. *)
LEMMA InductiveInit == Init => Inductive
<1> SUFFICES ASSUME Init
             PROVE  Inductive
  OBVIOUS
<1>1. SetTypeOK
  BY InitType
<1>2. CommandsKnown /\ OnlyTargetChanges
  BY DEF Init, WireInit, CameraInit, CommandsKnown, OnlyTargetChanges
<1>3. TargetIsOurs
  BY DEF Init, CameraInit, TargetIsOurs
<1>4. SnapsHonest /\ BuffersHonest
  BY DEF Init, WireInit, CameraInit, SnapsHonest, BuffersHonest
<1>5. HeldHonest /\ DevicesHonest
  BY DEF Init, ConnInit, HeldHonest, DevicesHonest, NoDevices
<1>6. ConfirmedThere
  BY SetAssumption DEF Init, ConfirmedThere, Outcomes
<1>7. Phases
  BY SetAssumption DEF Init, WireInit, CameraInit, Phases, Fired, OursPending, Outcomes
<1> QED
  BY <1>1, <1>2, <1>3, <1>4, <1>5, <1>6, <1>7 DEF Inductive

(* Every step keeps the inductive invariant. *)
LEMMA InductiveStep == Inductive /\ [Next]_vars => Inductive'
BY StepType, CommandsKnownStep, TargetIsOursStep, SnapsHonestStep, BuffersHonestStep,
   HeldHonestStep, DevicesHonestStep, ConfirmedThereStep, PhasesStep, OnlyTargetStep
   DEF Inductive

(* The inductive invariant holds throughout every session, whatever the
   network loses, duplicates or delays. *)
THEOREM Invariance == Spec => []Inductive
BY InductiveInit, InductiveStep, PTL DEF Spec

(* Exit 0 is true of the camera, for every network and every schedule. *)
THEOREM Confirmation == Spec => []ConfirmedMeansApplied
<1>1. Inductive => ConfirmedMeansApplied
  BY DEF Inductive, ConfirmedThere, TargetIsOurs, ConfirmedMeansApplied, AtGoal, Target
<1> QED
  BY <1>1, Invariance, PTL

(* Without --force no command leaves for a MAC that nobody has. *)
THEOREM Caution == Spec => []NoBlindSend
<1>1. Inductive => NoBlindSend
  BY DEF Inductive, Phases, Allowed, NoBlindSend, Target
<1> QED
  BY <1>1, Invariance, PTL

(* A session that refuses leaves the camera as it was. *)
THEOREM Refusal == Spec => []RefusedMeansUntouched
<1>1. Inductive => RefusedMeansUntouched
  <2> SUFFICES ASSUME Inductive, outcome \in {"usage", "noiface", "unseen", "badaddr"}
               PROVE  /\ \A c \in Camera : ~ OursPending(c)
                      /\ req.mac \in Camera => dev[req.mac] = factory[req.mac]
    BY DEF RefusedMeansUntouched
  <2>1. pc = "exit"
    BY DEF Inductive, Phases, Outcomes
  <2>2. ~ Fired
    BY <2>1 DEF Fired
  <2> QED
    BY <2>2 DEF Inductive, Phases, TargetIsOurs, Target
<1> QED
  BY <1>1, Invariance, PTL

(* No camera but the one asked for is reconfigured by us. *)
THEOREM Isolation == Spec => []OnlyTargetChanges
<1>1. Inductive => OnlyTargetChanges
  BY DEF Inductive
<1> QED
  BY <1>1, Invariance, PTL

-----------------------------------------------------------------------------
(* The deadline *)

(* The clock is only moved by a tick, inside a window that is still open. *)
LEMMA ClockEffect ==
    ASSUME SetTypeOK, Timely, CollectStep
    PROVE  /\ pc \in {"discover", "confirm"}
           /\ until' = until
           /\ now' = now \/ (now < until /\ now' = now + 1)
<1>1. ASSUME NEW s \in Sock, CollectRead(s) \/ CollectMerge(s) \/ CollectTimeout(s)
      PROVE  wk[s] # "idle" /\ UNCHANGED <<now, until>>
  BY <1>1 DEF CollectRead, CollectMerge, CollectTimeout
<1>2. ASSUME Tick
      PROVE  /\ \E s \in Sock : wk[s] # "idle"
             /\ until' = until /\ now < until /\ now' = now + 1
  BY <1>2 DEF Tick, Collecting
<1> QED
  BY <1>1, <1>2 DEF CollectStep, Timely, Quiet

(* No window, its floor included, reaches the deadline plus that floor. *)
LEMMA WindowFits ==
    ASSUME now \in Nat, deadline \in Nat, now < deadline
    PROVE  now + ConfirmWindow < deadline + MinWindow
<1> DEFINE rest == deadline - now
           short == IF rest < Window THEN rest ELSE Window
<1>1. /\ rest \in Nat /\ rest > 0 /\ Window \in Nat
      /\ MinWindow \in Nat /\ MinWindow > 0
  BY SetAssumption
<1>2. short \in Nat /\ short <= rest
  BY <1>1
<1>3. ConfirmWindow = IF short < MinWindow THEN MinWindow ELSE short
  BY DEF ConfirmWindow
<1> HIDE DEF short
<1> QED
  BY <1>1, <1>2, <1>3

(* cmdSet keeps within the deadline and the floor of its last window. *)
LEMMA TimelySession ==
    ASSUME SetTypeOK, Timely, SessionStep
    PROVE  Timely'
<1> USE SetAssumption DEF Timely, Quiet, Outcomes, answer, sessionVars, connVars,
                          sendVars, collectVars, resultVars
<1>0. now \in Nat /\ deadline \in Nat /\ until \in Nat
  BY DEF SetTypeOK, ConnTypeOK
<1>1. CASE Usage \/ NoInterface \/ Refuse \/ BadAddress \/ SendFails
  BY <1>0, <1>1 DEF Usage, NoInterface, Refuse, BadAddress, SendFails, Return
<1>2. CASE GiveUp
  BY <1>0, <1>2 DEF GiveUp, Return
<1>3. CASE OpenConn \/ ProbeFails \/ StartSet
  BY <1>0, <1>3 DEF OpenConn, ProbeFails, StartSet
<1>4. CASE Discover
  BY <1>0, <1>4 DEF Discover, CollectStart
<1>5. CASE Discovered
  BY <1>0, <1>5 DEF Discovered, CollectEnd
<1>6. CASE Sent
  BY <1>0, <1>6 DEF Sent
<1>7. CASE Reprobe
  BY <1>0, <1>7 DEF Reprobe
<1>8. CASE OpenWindow
  <2>1. now < deadline /\ until' = now + ConfirmWindow
    BY <1>8 DEF OpenWindow, CollectStart
  <2>2. until' < deadline + MinWindow
    BY <1>0, <2>1, WindowFits
  <2>3. now' = now /\ deadline' = deadline /\ pc' = "confirm" /\ outcome' = outcome
    BY <1>8 DEF OpenWindow, CollectStart
  <2> QED
    BY <1>0, <1>8, <2>1, <2>2, <2>3 DEF OpenWindow
<1>9. CASE Confirmed
  BY <1>0, <1>9 DEF Confirmed, CollectEnd
<1>10. CASE Again
  BY <1>0, <1>10 DEF Again, CollectEnd
<1>11. CASE \E s \in Sock : SendProbe(s) \/ SendSet(s)
  BY <1>0, <1>11 DEF SendProbe, SendSet, SendOn
<1> QED
  BY <1>1, <1>2, <1>3, <1>4, <1>5, <1>6, <1>7, <1>8, <1>9, <1>10, <1>11
     DEF SessionStep

(* So does everything that runs beside it. *)
LEMMA TimelyStep == SetTypeOK /\ Timely /\ [Next]_vars => Timely'
<1> SUFFICES ASSUME SetTypeOK, Timely, [Next]_vars
             PROVE  Timely'
  OBVIOUS
<1>1. CASE Session
  BY <1>1, TimelySession DEF Session
<1>2. CASE Collect
  <2>1. UNCHANGED <<pc, outcome, deadline>>
    BY <1>2 DEF Collect, sessionVars, answer
  <2>2. now \in Nat /\ deadline \in Nat /\ until \in Nat /\ MinWindow \in Nat
    BY SetAssumption DEF SetTypeOK, ConnTypeOK
  <2>3. /\ pc \in {"discover", "confirm"} /\ until' = until
        /\ now' = now \/ (now < until /\ now' = now + 1)
    BY <1>2, ClockEffect DEF Collect
  <2> QED
    BY <2>1, <2>2, <2>3 DEF Timely, Quiet, Outcomes
<1>3. CASE Cameras \/ OtherTool \/ UNCHANGED vars
  <2>1. UNCHANGED <<pc, outcome, deadline, now, until, wk>>
    BY <1>3 DEF Cameras, OtherTool, vars, connVars, collectVars, sessionVars, answer
  <2> QED
    BY <2>1 DEF Timely, Quiet
<1> QED
  BY <1>1, <1>2, <1>3 DEF Next

(* cmdSet never gives up before its deadline, and neither verdict of the
   confirmation loop comes later than the floor of its last window after it. *)
THEOREM Deadline == Spec => []GivesUpInTime
<1>1. Init => Timely
  BY SetAssumption DEF Init, ConnInit, Timely, Quiet, Outcomes
<1>2. Timely => GivesUpInTime
  BY DEF Timely, GivesUpInTime
<1> QED
  BY <1>1, <1>2, TimelyStep, TypeCorrect, PTL DEF Spec

-----------------------------------------------------------------------------
(* The acknowledgement *)

(* What a camera has counted, or is working on, is not undone. *)
LEMMA ReachedStays ==
    ASSUME SetTypeOK, [Next]_vars, Reached
    PROVE  Reached'
<1>1. req' = req
  BY ReqConstant
<1>2. CASE Session \/ Collect \/ OtherTool \/ UNCHANGED vars
  <2>1. UNCHANGED <<seen, cmdPc>>
    BY <1>2 DEF Session, Collect, OtherTool, vars, cameraVars, deviceVars, commandVars
  <2> QED
    BY <1>1, <2>1 DEF Reached, Target
<1>3. CASE Cameras
  <2>1. PICK c \in Camera : CameraStep(c)
    BY <1>3 DEF Cameras
  <2>2. ASSUME NEW e \in Camera, seen[e] > 0 \/ cmdPc[e] = "apply"
        PROVE  seen'[e] > 0 \/ cmdPc'[e] = "apply"
    <3> USE DEF SetTypeOK, CameraTypeOK, deviceVars, commandVars, announceVars
    <3>1. CASE CommandApply(c)
      <4>1. seen' = [seen EXCEPT ![c] = seen[c] + 1] /\ seen \in [Camera -> Nat]
        BY <3>1 DEF CommandApply
      <4>2. cmdPc' = [cmdPc EXCEPT ![c] = "recv"]
        BY <3>1 DEF CommandApply
      <4> QED
        BY <2>2, <4>1, <4>2
    <3>2. CASE CommandReceive(c)
      <4>1. /\ seen' = seen /\ cmdPc[c] = "recv"
            /\ \A x \in Camera \ {c} : cmdPc'[x] = cmdPc[x]
        BY <3>2 DEF CommandReceive
      <4> QED
        BY <2>2, <4>1
    <3>3. CASE CommandReturn(c)
      <4>1. /\ seen' = seen /\ cmdPc[c] = "recv"
            /\ \A x \in Camera \ {c} : cmdPc'[x] = cmdPc[x]
        BY <3>3 DEF CommandReturn
      <4> QED
        BY <2>2, <4>1
    <3>4. CASE CommandAck(c)
      BY <2>2, <3>4 DEF CommandAck
    <3>5. CASE AnnounceRead(c) \/ AnnounceSend(c) \/ AnnounceTick(c) \/ AnnounceReturn(c)
      BY <2>2, <3>5 DEF AnnounceRead, AnnounceSend, AnnounceTick, AnnounceReturn
    <3> QED
      BY <2>1, <3>1, <3>2, <3>3, <3>4, <3>5 DEF CameraStep
  <2> QED
    BY <1>1, <2>2 DEF Reached, Target
<1> QED
  BY <1>2, <1>3 DEF Next

(* The camera that sends an acknowledgement is one that somebody asked for,
   and it has the command in its hands. *)
LEMMA AckIsEarned ==
    ASSUME SetTypeOK, CommandsKnown, [Next]_vars, NEW c \in Camera, CommandAck(c)
    PROVE  Reached'
<1>1. c = Target \/ \E m \in OtherSets : m.mac = c
  BY WhoseCommand DEF CommandAck
<1>2. cmdPc'[c] = "apply"
  BY DEF CommandAck, SetTypeOK, CameraTypeOK
<1>3. req' = req
  BY ReqConstant
<1> QED
  BY <1>1, <1>2, <1>3 DEF Reached, Target

(* An acknowledgement on its way to the operator was sent by such a camera. *)
LEMMA AcksToldStep == SetTypeOK /\ CommandsKnown /\ AcksTold /\ [Next]_vars => AcksTold'
<1> SUFFICES ASSUME SetTypeOK, CommandsKnown, AcksTold, [Next]_vars
             PROVE  AcksTold'
  OBVIOUS
<1>1. SUFFICES ASSUME ~ Reached'
               PROVE  AcksTold'
  BY <1>1 DEF AcksTold
<1>2. ~ Reached
  BY <1>1, ReachedStays
<1>3. /\ \A s \in Sock : \A i \in DOMAIN rx[s] : rx[s][i].type # "setack"
      /\ \A s \in Sock : wk[s] = "merge" => held[s].type # "setack"
      /\ acks = << >> /\ ~ acked
  BY <1>2 DEF AcksTold, SetTypeOK
<1>4. CASE Session
  <2>1. acks' = acks \/ acks' = << >>
    BY <1>4 DEF Session, SessionStep, Usage, NoInterface, OpenConn, Discover,
                ProbeFails, Discovered, Refuse, BadAddress, StartSet, SendFails, Sent,
                Reprobe, OpenWindow, Confirmed, Again, GiveUp, SendProbe, SendSet,
                Return, SendOn, CollectStart, CollectEnd, connVars, collectVars,
                resultVars
  <2>2. ~ acked'
    BY <1>3, <1>4 DEF Session, SessionStep, Usage, NoInterface, OpenConn, Discover,
                ProbeFails, Discovered, Refuse, BadAddress, StartSet, SendFails, Sent,
                Reprobe, OpenWindow, Confirmed, Again, GiveUp, SendProbe, SendSet,
                Return, Heard, answer, sessionVars
  <2> QED
    BY <1>3, <1>4, <2>1, <2>2, SessionEffect DEF Session, AcksTold
<1>5. CASE Collect
  <2>1. acks' = acks
    BY <1>3, <1>5 DEF Collect, CollectStep, CollectRead, CollectMerge, CollectTimeout,
                      Tick, resultVars
  <2>2. acked' = acked
    BY <1>5 DEF Collect, sessionVars, answer
  <2> QED
    BY <1>3, <1>5, <2>1, <2>2, CollectEffect DEF Collect, AcksTold, SetTypeOK
<1>6. CASE Cameras
  <2>1. UNCHANGED <<wk, held, acks, acked>>
    BY <1>6 DEF Cameras, connVars, collectVars, resultVars, sessionVars, answer
  <2>2. PICK c \in Camera : CameraStep(c)
    BY <1>6 DEF Cameras
  <2>3. ASSUME NEW s \in Sock, NEW i \in DOMAIN rx'[s]
        PROVE  rx'[s][i].type # "setack"
    <3> USE DEF wireVars
    <3>1. CASE AnnounceSend(c)
      <4>1. ToTools(Announce(c, snap[c])) /\ Announce(c, snap[c]) \in ToolDatagram
        BY <3>1 DEF AnnounceSend, Announce, ToolDatagram, Announcement, SetTypeOK,
                    CameraTypeOK
      <4>2. Announce(c, snap[c]).type # "setack"
        BY DEF Announce
      <4> QED
        BY <1>3, <2>3, <4>1, <4>2, ToToolsEffect DEF SetTypeOK, WireTypeOK
    <3>2. ~ CommandAck(c)
      BY <1>1, AckIsEarned
    <3>3. CASE AnnounceRead(c) \/ AnnounceTick(c) \/ AnnounceReturn(c)
               \/ CommandReceive(c) \/ CommandApply(c) \/ CommandReturn(c)
      BY <1>3, <2>3, <3>3 DEF AnnounceRead, AnnounceTick, AnnounceReturn,
                              CommandReceive, CommandApply, CommandReturn
    <3> QED
      BY <2>2, <3>1, <3>2, <3>3 DEF CameraStep
  <2> QED
    BY <1>3, <2>1, <2>3 DEF AcksTold
<1>7. CASE OtherTool \/ UNCHANGED vars
  BY <1>3, <1>7 DEF OtherTool, vars, wireVars, connVars, collectVars, resultVars,
                    sessionVars, answer, AcksTold
<1> QED
  BY <1>4, <1>5, <1>6, <1>7 DEF Next

(* "camera received the command" is only said when a camera that somebody asked
   for has received one, however acknowledgements were delayed or doubled.   *)
THEOREM Receipt == Spec => []AckMeansReceived
<1>1. Init => AcksTold
  BY DEF Init, WireInit, ConnInit, AcksTold
<1>2. AcksTold => AckMeansReceived
  BY DEF AcksTold, Reached, AckMeansReceived, Target
<1>3. Inductive => SetTypeOK /\ CommandsKnown
  BY DEF Inductive
<1> QED
  BY <1>1, <1>2, <1>3, AcksToldStep, Invariance, PTL DEF Spec

-----------------------------------------------------------------------------
(* The refinement *)

(* A session starts as a promise does. *)
LEMMA PromiseInit == Init => Promise!Init
BY SetAssumption DEF Init, CameraInit, Promise!Init, Standing, Willing, Fired, Taken,
                     Verdict, Outcomes

(* Whether the camera has the address already, and whether the password is
   its own, is settled before the session starts. *)
LEMMA Settled ==
    ASSUME SetTypeOK, [Next]_vars
    PROVE  UNCHANGED <<Standing, Willing>>
BY ReqConstant DEF Standing, Willing

(* A step that neither moves cmdSet nor the camera's log is a stutter. *)
LEMMA Stutter ==
    ASSUME SetTypeOK, [Next]_vars, log' = log, Fired' = Fired, outcome' = outcome
    PROVE  UNCHANGED Promise!vars
BY Settled, ReqConstant DEF Promise!vars, Taken, Verdict

(* The returns before SendSet are refusals. *)
LEMMA RefusalStep ==
    ASSUME Inductive, [Next]_vars, log' = log, ~ Fired, pc # "exit",
           pc' = "exit", outcome' \in {"usage", "noiface", "unseen", "badaddr"}
    PROVE  Promise!Refuse
<1>1. Verdict = "none"
  BY SetAssumption DEF Inductive, SetTypeOK, Phases, Verdict
<1>2. Verdict' = "refused"
  BY SetAssumption DEF Verdict, Outcomes
<1>3. Fired' = Fired
  BY DEF Fired
<1>4. UNCHANGED <<Standing, Willing, Taken>>
  BY Settled, ReqConstant DEF Inductive, Taken
<1> QED
  BY <1>1, <1>2, <1>3, <1>4 DEF Promise!Refuse, Promise!Conclude

(* The returns after it carry a verdict on a command that has left. *)
LEMMA VerdictStep ==
    ASSUME Inductive, [Next]_vars, log' = log, Fired, pc # "exit",
           outcome' \in {"senderr", "confirmed", "unconfirmed"}
    PROVE  Promise!Conclude(outcome') /\ Fired
<1>1. Verdict = "none"
  BY SetAssumption DEF Inductive, SetTypeOK, Phases, Verdict
<1>2. Verdict' = outcome'
  BY SetAssumption DEF Verdict, Outcomes
<1>3. Fired' = Fired
  BY DEF Fired
<1>4. UNCHANGED <<Standing, Willing, Taken>>
  BY Settled, ReqConstant DEF Inductive, Taken
<1> QED
  BY <1>1, <1>2, <1>3, <1>4 DEF Promise!Conclude

(* cmdSet confirms only a camera that took the command or was there. *)
LEMMA ConfirmStep ==
    ASSUME Inductive, [Next]_vars, Confirmed, log' = log
    PROVE  Promise!Confirm
<1>1. AnnouncedThere /\ Target \in Mac /\ pc = "confirm" /\ outcome' = "confirmed"
  BY SetAssumption DEF Confirmed, Target, Inductive, SetTypeOK, Request
<1>2. Target \in Camera /\ AtGoal(dev[Target])
  BY <1>1 DEF AnnouncedThere, Inductive, DevicesHonest, Honest, AtGoal, Target
<1>3. Taken \/ Standing
  BY <1>2 DEF Inductive, TargetIsOurs, Taken, Standing, AtGoal, Target
<1>4. Fired
  BY <1>1 DEF Fired
<1>5. Promise!Conclude("confirmed")
  BY <1>1, <1>4, VerdictStep
<1> QED
  BY <1>3, <1>4, <1>5 DEF Promise!Confirm

(* cmdSet's own steps: one fires, its returns conclude, the rest stutters. *)
LEMMA PromiseSession ==
    ASSUME Inductive, [Next]_vars, SessionStep, log' = log
    PROVE  [Promise!Next]_Promise!vars
<1> USE DEF Inductive
<1>1. ASSUME Usage \/ NoInterface \/ Refuse \/ BadAddress
      PROVE  Promise!Refuse
  <2>1. /\ pc \in {"start", "check"} /\ pc' = "exit"
        /\ outcome' \in {"usage", "noiface", "unseen", "badaddr"}
    BY <1>1 DEF Usage, NoInterface, Refuse, BadAddress, Return
  <2>2. ~ Fired
    BY <2>1 DEF Fired, Phases, Outcomes
  <2> QED
    BY <2>1, <2>2, RefusalStep
<1>2. ASSUME StartSet
      PROVE  Promise!Fire
  <2>1. pc = "check" /\ pc' = "send" /\ outcome' = outcome
    BY <1>2 DEF StartSet, answer
  <2>2. ~ Fired /\ Fired' /\ Verdict = "none"
    BY <2>1, SetAssumption DEF Fired, Phases, Outcomes, Verdict, SetTypeOK
  <2>3. UNCHANGED <<Standing, Willing, Taken, Verdict>>
    BY <2>1, Settled, ReqConstant DEF Taken, Verdict
  <2> QED
    BY <2>2, <2>3 DEF Promise!Fire, Fired
<1>3. ASSUME SendFails
      PROVE  Promise!Fail
  <2>1. pc = "send" /\ outcome' = "senderr"
    BY <1>3 DEF SendFails, Return
  <2>2. Fired /\ Promise!Conclude("senderr")
    BY <2>1, VerdictStep DEF Fired
  <2> QED
    BY <2>2 DEF Promise!Fail
<1>4. ASSUME GiveUp
      PROVE  Promise!GiveUp
  <2>1. pc = "loop" /\ outcome' = "unconfirmed"
    BY <1>4 DEF GiveUp, Return
  <2>2. Fired /\ Promise!Conclude("unconfirmed")
    BY <2>1, VerdictStep DEF Fired
  <2> QED
    BY <2>2 DEF Promise!GiveUp
<1>5. CASE Confirmed
  BY <1>5, ConfirmStep DEF Promise!Next
<1>6. ASSUME \/ OpenConn \/ Discover \/ ProbeFails \/ Discovered
             \/ Sent \/ Reprobe \/ OpenWindow \/ Again
             \/ \E s \in Sock : SendProbe(s) \/ SendSet(s)
      PROVE  UNCHANGED Promise!vars
  <2>1. outcome' = outcome /\ Fired' = Fired
    BY <1>6 DEF OpenConn, Discover, ProbeFails, Discovered, Sent, Reprobe, OpenWindow,
                Again, SendProbe, SendSet, Fired, answer, sessionVars
  <2> QED
    BY <2>1, Stutter
<1> QED
  BY <1>1, <1>2, <1>3, <1>4, <1>5, <1>6 DEF SessionStep, Promise!Next

(* A camera's step: it takes our command only once that has left and only with
   the right password. *)
LEMMA PromiseCamera ==
    ASSUME Inductive, [Next]_vars, NEW c \in Camera, CameraStep(c),
           UNCHANGED <<pc, outcome>>
    PROVE  [Promise!Next]_Promise!vars
<1> USE DEF Inductive
<1>1. Fired' = Fired
  BY DEF Fired
<1>2. CASE log' = log
  BY <1>1, <1>2, Stutter
<1>3. CASE /\ cmdPc[c] = "apply" /\ Accepts(c, pkt[c])
           /\ log' = [log EXCEPT ![c] = Append(@, pkt[c].cfg)]
  <2>1. log \in [Camera -> Seq(Cfg)] /\ req' = req
    BY ReqConstant DEF SetTypeOK, CameraTypeOK
  <2>2. CASE c = Target
    <3>1. pkt[c] = SetCommand
      BY <1>3, <2>2, WhoseCommand
    <3>2. Willing
      BY <1>3, <2>2, <3>1 DEF Accepts, SetCommand, SetNetwork, Willing, Target
    <3>3. Fired
      BY <1>3, <3>1 DEF Phases, OursPending, SetCommand, SetNetwork
    <3>4. Taken'
      <4>1. log'[c] = Append(log[c], pkt[c].cfg)
        BY <1>3, <2>1
      <4>2. log'[c] # << >>
        BY <2>1, <4>1
      <4> QED
        BY <2>1, <2>2, <4>2 DEF Taken, Target
    <3>5. UNCHANGED <<Standing, Willing, Fired, Verdict>>
      BY <1>1, Settled DEF Verdict
    <3> QED
      BY <3>2, <3>3, <3>4, <3>5 DEF Promise!Take, Promise!Next, Taken
  <2>3. CASE c # Target
    <3>1. Taken' = Taken
      BY <1>3, <2>1, <2>3 DEF Taken, Target
    <3> QED
      BY <1>1, <3>1, Settled DEF Promise!vars, Verdict
  <2> QED
    BY <2>2, <2>3
<1> QED
  BY <1>2, <1>3, CameraEffect DEF SetTypeOK

(* Every step of a session is a step of its promise, or none. *)
LEMMA PromiseStep == Inductive /\ [Next]_vars => [Promise!Next]_Promise!vars
<1> SUFFICES ASSUME Inductive, [Next]_vars
             PROVE  [Promise!Next]_Promise!vars
  OBVIOUS
<1>1. CASE Session
  BY <1>1, RecordsElsewhere, PromiseSession DEF Session
<1>2. CASE Cameras
  <2>1. PICK c \in Camera : CameraStep(c)
    BY <1>2 DEF Cameras
  <2>2. UNCHANGED <<pc, outcome>>
    BY <1>2 DEF Cameras, sessionVars, answer
  <2> QED
    BY <2>1, <2>2, PromiseCamera
<1>3. CASE Collect \/ OtherTool \/ UNCHANGED vars
  <2>1. UNCHANGED <<pc, outcome, log>>
    BY <1>3, RecordsElsewhere DEF Collect, OtherTool, vars, sessionVars, answer
  <2> QED
    BY <2>1, Stutter DEF Inductive, Fired
<1> QED
  BY <1>1, <1>2, <1>3 DEF Next

(* cmdSet, among any cameras, sockets and other tools, implements SetPromise:
   what it sends, what the camera takes and what it reports come in that order,
   and the report is about that camera.                                      *)
THEOREM Refinement == Spec => KeepsPromise
BY PromiseInit, PromiseStep, Invariance, PTL DEF Spec, KeepsPromise, Promise!Spec
=============================================================================
