---------------------------- MODULE Network_proofs ----------------------------
(***************************************************************************)
(* The parts every program is composed of: what a delivery may do to a     *)
(* buffer, and that the steps of the camera and the operations of          *)
(* discovery.Conn keep their types, whatever program they are part of.     *)
(***************************************************************************)
EXTENDS Camera, Conn, TLAPS

-----------------------------------------------------------------------------
(* The wire *)

(* A delivery adds nothing but the datagram delivered. *)
LEMMA DeliverType ==
    ASSUME NEW S, NEW q \in Seq(S), NEW m \in S, NEW cap \in Nat
    PROVE  Deliver(q, m, cap) \in Seq(S)
BY DEF Deliver

(* What is in the buffer afterwards was there before, or is the datagram. *)
LEMMA DeliverElements ==
    ASSUME NEW S, NEW q \in Seq(S), NEW m \in S, NEW cap \in Nat,
           NEW i \in DOMAIN Deliver(q, m, cap)
    PROVE  \/ Deliver(q, m, cap)[i] = m
           \/ i \in DOMAIN q /\ Deliver(q, m, cap)[i] = q[i]
<1>1. CASE Len(q) < cap
  <2>1. Deliver(q, m, cap) = Append(q, m)
    BY <1>1 DEF Deliver
  <2>2. i \in 1 .. Len(q) + 1
    BY <2>1
  <2>3. CASE i = Len(q) + 1
    BY <2>1, <2>3
  <2>4. CASE i \in 1 .. Len(q)
    BY <2>1, <2>4
  <2> QED
    BY <2>2, <2>3, <2>4
<1>2. CASE ~ (Len(q) < cap)
  BY <1>2 DEF Deliver
<1> QED
  BY <1>1, <1>2

(* What is read from the head of a buffer was in it, and so was the rest. *)
LEMMA TailElements ==
    ASSUME NEW S, NEW q \in Seq(S), q # << >>
    PROVE  /\ Head(q) \in S
           /\ Tail(q) \in Seq(S)
           /\ 1 \in DOMAIN q /\ Head(q) = q[1]
           /\ \A i \in DOMAIN Tail(q) : i + 1 \in DOMAIN q /\ Tail(q)[i] = q[i + 1]
OBVIOUS

(* GroupRX: the tools' buffers stay buffers of datagrams, and gain only m. *)
LEMMA ToToolsEffect ==
    ASSUME rx \in [Sock -> Seq(ToolDatagram)], NEW m \in ToolDatagram, ToTools(m)
    PROVE  /\ rx' \in [Sock -> Seq(ToolDatagram)]
           /\ \A s \in Sock : \A i \in DOMAIN rx'[s] :
                \/ rx'[s][i] = m
                \/ i \in DOMAIN rx[s] /\ rx'[s][i] = rx[s][i]
<1> USE WireAssumption
<1>1. PICK heard \in SUBSET joined :
        rx' = [s \in Sock |-> IF s \in heard THEN Deliver(rx[s], m, RxCap) ELSE rx[s]]
  BY DEF ToTools
<1>2. \A s \in Sock : Deliver(rx[s], m, RxCap) \in Seq(ToolDatagram)
  BY DeliverType
<1>3. rx' \in [Sock -> Seq(ToolDatagram)]
  BY <1>1, <1>2
<1>4. ASSUME NEW s \in Sock, NEW i \in DOMAIN rx'[s]
      PROVE  rx'[s][i] = m \/ (i \in DOMAIN rx[s] /\ rx'[s][i] = rx[s][i])
  <2>1. CASE s \in heard
    BY <1>1, <1>4, <2>1, DeliverElements
  <2>2. CASE s \notin heard
    BY <1>1, <1>4, <2>2
  <2> QED
    BY <2>1, <2>2
<1> QED
  BY <1>3, <1>4

(* GroupTX: likewise for the cameras' buffers. *)
LEMMA ToCamerasEffect ==
    ASSUME inbox \in [Camera -> Seq(CameraDatagram)], NEW m \in CameraDatagram,
           ToCameras(m)
    PROVE  /\ inbox' \in [Camera -> Seq(CameraDatagram)]
           /\ \A c \in Camera : \A i \in DOMAIN inbox'[c] :
                \/ inbox'[c][i] = m
                \/ i \in DOMAIN inbox[c] /\ inbox'[c][i] = inbox[c][i]
<1> USE WireAssumption
<1>1. PICK heard \in SUBSET Camera :
        inbox' = [c \in Camera |-> IF c \in heard THEN Deliver(inbox[c], m, InCap)
                                                  ELSE inbox[c]]
  BY DEF ToCameras
<1>2. \A c \in Camera : Deliver(inbox[c], m, InCap) \in Seq(CameraDatagram)
  BY DeliverType
<1>3. inbox' \in [Camera -> Seq(CameraDatagram)]
  BY <1>1, <1>2
<1>4. ASSUME NEW c \in Camera, NEW i \in DOMAIN inbox'[c]
      PROVE  inbox'[c][i] = m \/ (i \in DOMAIN inbox[c] /\ inbox'[c][i] = inbox[c][i])
  <2>1. CASE c \in heard
    BY <1>1, <1>4, <2>1, DeliverElements
  <2>2. CASE c \notin heard
    BY <1>1, <1>4, <2>2
  <2> QED
    BY <2>1, <2>2
<1> QED
  BY <1>3, <1>4

-----------------------------------------------------------------------------
(* The camera *)

(* Whatever announceLoop, commandLoop and Close do, the buffers hold only
   datagrams and the camera's record stays a configuration.                 *)
LEMMA CameraStepType ==
    ASSUME WireTypeOK, CameraTypeOK, NEW c \in Camera,
           CameraStep(c) \/ CloseDone(c) \/ CloseRx(c) \/ CloseWait(c)
    PROVE  WireTypeOK' /\ CameraTypeOK'
<1> USE WireAssumption, CameraAssumption DEF CameraTypeOK, WireTypeOK
<1> USE DEF wireVars, deviceVars, announceVars, commandVars
<1>1. CASE AnnounceRead(c)
  BY <1>1 DEF AnnounceRead
<1>2. CASE AnnounceSend(c)
  <2>1. Announce(c, snap[c]) \in ToolDatagram
    BY <1>2 DEF AnnounceSend, Announce, ToolDatagram, Announcement
  <2>2. rx' \in [Sock -> Seq(ToolDatagram)]
    BY <1>2, <2>1, ToToolsEffect DEF AnnounceSend
  <2> QED
    BY <1>2, <2>2 DEF AnnounceSend
<1>3. CASE AnnounceTick(c)
  BY <1>3 DEF AnnounceTick
<1>4. CASE AnnounceReturn(c)
  BY <1>4 DEF AnnounceReturn
<1>5. CASE CommandReceive(c)
  <2>1. inbox[c] # << >> /\ inbox[c] \in Seq(CameraDatagram)
    BY <1>5 DEF CommandReceive
  <2>2. Head(inbox[c]) \in CameraDatagram /\ Tail(inbox[c]) \in Seq(CameraDatagram)
    BY <2>1, TailElements
  <2>3. ForMe(c, Head(inbox[c])) => Head(inbox[c]) \in Command
    BY <2>2 DEF ForMe, CameraDatagram, Search
  <2>4. inbox' = [inbox EXCEPT ![c] = Tail(inbox[c])]
    BY <1>5 DEF CommandReceive
  <2>5. inbox' \in [Camera -> Seq(CameraDatagram)]
    BY <2>2, <2>4
  <2>6. pkt' \in [Camera -> Command \cup {None}]
    BY <1>5, <2>3 DEF CommandReceive
  <2>7. cmdPc' \in [Camera -> {"recv", "ack", "apply", "returned"}]
    <3>1. cmdPc' = [cmdPc EXCEPT ![c] = "ack"] \/ cmdPc' = cmdPc
      BY <1>5 DEF CommandReceive
    <3>2. cmdPc \in [Camera -> {"recv", "ack", "apply", "returned"}]
      OBVIOUS
    <3> QED
      BY ONLY <3>1, <3>2
  <2>8. ASSUME NEW e \in Camera, cmdPc'[e] \in {"ack", "apply"}
        PROVE  pkt'[e] \in Command
    <3>1. CASE ForMe(c, Head(inbox[c]))
      <4>1. /\ pkt' = [pkt EXCEPT ![c] = Head(inbox[c])]
            /\ cmdPc' = [cmdPc EXCEPT ![c] = "ack"]
        BY <1>5, <3>1 DEF CommandReceive
      <4> QED
        BY <2>3, <2>8, <3>1, <4>1
    <3>2. CASE ~ ForMe(c, Head(inbox[c]))
      BY <1>5, <2>8, <3>2 DEF CommandReceive
    <3> QED
      BY <3>1, <3>2
  <2> QED
    BY <1>5, <2>5, <2>6, <2>7, <2>8 DEF CommandReceive
<1>6. CASE CommandAck(c)
  <2>1. SetAck(c, pkt[c].from) \in ToolDatagram
    BY <1>6 DEF CommandAck, SetAck, ToolDatagram, Acknowledgement, Command
  <2>2. rx' \in [Sock -> Seq(ToolDatagram)]
    BY <1>6, <2>1, ToToolsEffect DEF CommandAck
  <2> QED
    BY <1>6, <2>2 DEF CommandAck
<1>7. CASE CommandApply(c)
  <2>1. pkt[c].cfg \in Cfg
    BY <1>7 DEF CommandApply, Command
  <2>2. Append(log[c], pkt[c].cfg) \in Seq(Cfg)
    BY <2>1
  <2>3. dev' \in [Camera -> Cfg]
    BY <1>7, <2>1 DEF CommandApply
  <2>4. log' \in [Camera -> Seq(Cfg)]
    BY <1>7, <2>2 DEF CommandApply
  <2>5. seen' \in [Camera -> Nat]
    BY <1>7 DEF CommandApply
  <2> QED
    BY <1>7, <2>3, <2>4, <2>5 DEF CommandApply
<1>8. CASE CommandReturn(c)
  BY <1>8 DEF CommandReturn
<1>9. CASE CloseDone(c)
  BY <1>9 DEF CloseDone
<1>10. CASE CloseRx(c)
  BY <1>10 DEF CloseRx
<1>11. CASE CloseWait(c)
  BY <1>11 DEF CloseWait
<1> QED
  BY <1>1, <1>2, <1>3, <1>4, <1>5, <1>6, <1>7, <1>8, <1>9, <1>10, <1>11 DEF CameraStep

(* A camera: it works on a command of its inbox that carries its MAC, changes
   its record only to what that command says, and announces its record.      *)
LEMMA CameraEffect ==
    ASSUME WireTypeOK, CameraTypeOK, NEW c \in Camera, CameraStep(c)
    PROVE  /\ \A e \in Camera : \A i \in DOMAIN inbox'[e] :
                \E j \in DOMAIN inbox[e] : inbox'[e][i] = inbox[e][j]
           /\ \A e \in Camera : cmdPc'[e] \in {"ack", "apply"} =>
                \/ cmdPc[e] \in {"ack", "apply"} /\ pkt'[e] = pkt[e]
                \/ /\ pkt'[e].type = "setnet" /\ pkt'[e].mac = e
                   /\ \E j \in DOMAIN inbox[e] : pkt'[e] = inbox[e][j]
           /\ \/ dev' = dev /\ log' = log
              \/ /\ cmdPc[c] = "apply" /\ Accepts(c, pkt[c])
                 /\ dev' = [dev EXCEPT ![c] = pkt[c].cfg]
                 /\ log' = [log EXCEPT ![c] = Append(@, pkt[c].cfg)]
           /\ \A e \in Camera : annPc'[e] = "send" =>
                \/ annPc[e] = "send" /\ snap'[e] = snap[e]
                \/ snap'[e] = dev[e] /\ dev' = dev
           /\ \/ rx' = rx
              \/ annPc[c] = "send" /\ ToTools(Announce(c, snap[c]))
              \/ cmdPc[c] = "ack" /\ ToTools(SetAck(c, pkt[c].from))
<1> USE DEF wireVars, deviceVars, announceVars, commandVars, WireTypeOK, CameraTypeOK
<1>1. CASE AnnounceRead(c)
  BY <1>1 DEF AnnounceRead
<1>2. CASE AnnounceSend(c)
  BY <1>2 DEF AnnounceSend
<1>3. CASE AnnounceTick(c)
  BY <1>3 DEF AnnounceTick
<1>4. CASE AnnounceReturn(c)
  BY <1>4 DEF AnnounceReturn
<1>5. CASE CommandReceive(c)
  <2>1. inbox[c] # << >> /\ inbox[c] \in Seq(CameraDatagram)
    BY <1>5 DEF CommandReceive
  <2>2. /\ 1 \in DOMAIN inbox[c] /\ Head(inbox[c]) = inbox[c][1]
        /\ \A i \in DOMAIN Tail(inbox[c]) :
              i + 1 \in DOMAIN inbox[c] /\ Tail(inbox[c])[i] = inbox[c][i + 1]
    BY <2>1, TailElements
  <2>3. inbox' = [inbox EXCEPT ![c] = Tail(inbox[c])]
    BY <1>5 DEF CommandReceive
  <2>4. ASSUME NEW e \in Camera, NEW i \in DOMAIN inbox'[e]
        PROVE  \E j \in DOMAIN inbox[e] : inbox'[e][i] = inbox[e][j]
    BY <2>2, <2>3, <2>4
  <2>5. ASSUME NEW e \in Camera, cmdPc'[e] \in {"ack", "apply"}
        PROVE  \/ cmdPc[e] \in {"ack", "apply"} /\ pkt'[e] = pkt[e]
               \/ /\ pkt'[e].type = "setnet" /\ pkt'[e].mac = e
                  /\ \E j \in DOMAIN inbox[e] : pkt'[e] = inbox[e][j]
    <3>1. CASE ForMe(c, Head(inbox[c]))
      <4>1. /\ pkt' = [pkt EXCEPT ![c] = Head(inbox[c])]
            /\ cmdPc' = [cmdPc EXCEPT ![c] = "ack"]
        BY <1>5, <3>1 DEF CommandReceive
      <4>2. CASE e = c
        BY <2>2, <3>1, <4>1, <4>2 DEF ForMe
      <4>3. CASE e # c
        BY <2>5, <4>1, <4>3
      <4> QED
        BY <4>2, <4>3
    <3>2. CASE ~ ForMe(c, Head(inbox[c]))
      BY <1>5, <2>5, <3>2 DEF CommandReceive
    <3> QED
      BY <3>1, <3>2
  <2> QED
    BY <1>5, <2>4, <2>5 DEF CommandReceive
<1>6. CASE CommandAck(c)
  BY <1>6 DEF CommandAck
<1>7. CASE CommandApply(c)
  <2>1. \A e \in Camera : cmdPc'[e] \in {"ack", "apply"} =>
            cmdPc[e] \in {"ack", "apply"} /\ pkt'[e] = pkt[e]
    BY <1>7 DEF CommandApply
  <2>2. \/ dev' = dev /\ log' = log
        \/ /\ cmdPc[c] = "apply" /\ Accepts(c, pkt[c])
           /\ dev' = [dev EXCEPT ![c] = pkt[c].cfg]
           /\ log' = [log EXCEPT ![c] = Append(@, pkt[c].cfg)]
    BY <1>7 DEF CommandApply
  <2>3. UNCHANGED <<inbox, rx, annPc, snap>>
    BY <1>7 DEF CommandApply
  <2> QED
    BY <2>1, <2>2, <2>3
<1>8. CASE CommandReturn(c)
  BY <1>8 DEF CommandReturn
<1> QED
  BY <1>1, <1>2, <1>3, <1>4, <1>5, <1>6, <1>7, <1>8 DEF CameraStep

-----------------------------------------------------------------------------
(* The connection *)

(* A send, on whichever interface and whether or not it fails. *)
LEMMA SendOnType ==
    ASSUME WireTypeOK, ConnTypeOK, NEW s \in Sock, NEW m \in CameraDatagram,
           SendOn(s, m)
    PROVE  WireTypeOK' /\ ConnTypeOK'
<1> USE DEF WireTypeOK, ConnTypeOK, SendOn, collectVars, resultVars
<1>1. CASE ToCameras(m) /\ UNCHANGED sendErr
  BY <1>1, ToCamerasEffect
<1>2. CASE sendErr' = TRUE /\ UNCHANGED inbox
  BY <1>2
<1> QED
  BY <1>1, <1>2

(* Collect, from its first goroutine to wg.Wait. *)
LEMMA CollectStartType ==
    ASSUME ConnTypeOK, NEW d \in Nat, CollectStart(d), UNCHANGED <<todo, sendErr>>
    PROVE  ConnTypeOK'
BY DEF ConnTypeOK, CollectStart, NoDevices

(* When Collect has returned its goroutines are gone, and its result stays. *)
LEMMA CollectEndType ==
    ASSUME ConnTypeOK, CollectEnd, UNCHANGED <<todo, sendErr>>
    PROVE  ConnTypeOK'
BY DEF ConnTypeOK, CollectEnd, resultVars

(* A read, a merge, a timeout and a tick keep the types of the connection. *)
LEMMA CollectStepType ==
    ASSUME WireTypeOK, ConnTypeOK, Camera \subseteq Mac, CollectStep
    PROVE  WireTypeOK' /\ ConnTypeOK'
<1> USE DEF WireTypeOK, ConnTypeOK, wireVars, sendVars, resultVars
<1>1. ASSUME NEW s \in Sock, CollectRead(s)
      PROVE  WireTypeOK' /\ ConnTypeOK'
  <2>1. rx[s] # << >> /\ rx[s] \in Seq(ToolDatagram)
    BY <1>1 DEF CollectRead
  <2>2. Head(rx[s]) \in ToolDatagram /\ Tail(rx[s]) \in Seq(ToolDatagram)
    BY <2>1, TailElements
  <2>3. rx' = [rx EXCEPT ![s] = Tail(rx[s])]
    BY <1>1 DEF CollectRead
  <2> QED
    BY <1>1, <2>2, <2>3 DEF CollectRead
<1>2. ASSUME NEW s \in Sock, CollectMerge(s)
      PROVE  WireTypeOK' /\ ConnTypeOK'
  <2>1. held[s] \in ToolDatagram
    BY <1>2 DEF CollectMerge
  <2>2. CASE held[s].type = "announce"
    <3>1. held[s] \in Announcement
      BY <2>1, <2>2 DEF ToolDatagram, Announcement, Acknowledgement
    <3>2. held[s].mac \in Mac /\ held[s].cfg \in Cfg
      BY <3>1 DEF Announcement
    <3>3. devices' = MergeDevice(held[s]) /\ UNCHANGED acks
      BY <1>2, <2>2 DEF CollectMerge
    <3> QED
      BY <1>2, <3>2, <3>3 DEF CollectMerge, MergeDevice
  <2>3. CASE held[s].type = "setack"
    <3>1. held[s] \in Acknowledgement
      BY <2>1, <2>3 DEF ToolDatagram, Announcement, Acknowledgement
    <3>2. acks' = Append(acks, held[s]) /\ UNCHANGED devices
      BY <1>2, <2>3 DEF CollectMerge, MergeAck
    <3> QED
      BY <1>2, <3>1, <3>2 DEF CollectMerge
  <2> QED
    BY <1>2, <2>2, <2>3 DEF CollectMerge
<1>3. ASSUME NEW s \in Sock, CollectTimeout(s)
      PROVE  WireTypeOK' /\ ConnTypeOK'
  BY <1>3 DEF CollectTimeout
<1>4. ASSUME Tick
      PROVE  WireTypeOK' /\ ConnTypeOK'
  BY <1>4 DEF Tick
<1> QED
  BY <1>1, <1>2, <1>3, <1>4 DEF CollectStep

(* Collect: what a goroutine holds it took from its buffer, and what it
   merges it held.                                                           *)
LEMMA CollectEffect ==
    ASSUME WireTypeOK, ConnTypeOK, CollectStep
    PROVE  /\ inbox' = inbox
           /\ \A s \in Sock : \A i \in DOMAIN rx'[s] :
                \E j \in DOMAIN rx[s] : rx'[s][i] = rx[s][j]
           /\ \A s \in Sock : wk'[s] = "merge" =>
                \/ wk[s] = "merge" /\ held'[s] = held[s]
                \/ \E j \in DOMAIN rx[s] : held'[s] = rx[s][j]
           /\ \/ devices' = devices
              \/ \E s \in Sock :
                    /\ wk[s] = "merge" /\ held[s] \in Announcement
                    /\ devices' = [devices EXCEPT ![held[s].mac] = held[s].cfg]
<1> USE DEF WireTypeOK, ConnTypeOK, wireVars, sendVars, resultVars
<1>1. ASSUME NEW s \in Sock, CollectRead(s)
      PROVE  /\ inbox' = inbox /\ devices' = devices
             /\ \A t \in Sock : \A i \in DOMAIN rx'[t] :
                  \E j \in DOMAIN rx[t] : rx'[t][i] = rx[t][j]
             /\ \A t \in Sock : wk'[t] = "merge" =>
                  \/ wk[t] = "merge" /\ held'[t] = held[t]
                  \/ \E j \in DOMAIN rx[t] : held'[t] = rx[t][j]
  <2>1. rx[s] # << >> /\ rx[s] \in Seq(ToolDatagram)
    BY <1>1 DEF CollectRead
  <2>2. /\ 1 \in DOMAIN rx[s] /\ Head(rx[s]) = rx[s][1]
        /\ \A i \in DOMAIN Tail(rx[s]) :
              i + 1 \in DOMAIN rx[s] /\ Tail(rx[s])[i] = rx[s][i + 1]
    BY <2>1, TailElements
  <2>3. /\ rx' = [rx EXCEPT ![s] = Tail(rx[s])]
        /\ held' = [held EXCEPT ![s] = Head(rx[s])]
        /\ wk' = [wk EXCEPT ![s] = "merge"]
        /\ UNCHANGED <<inbox, devices>>
    BY <1>1 DEF CollectRead
  <2>4. ASSUME NEW t \in Sock, NEW i \in DOMAIN rx'[t]
        PROVE  \E j \in DOMAIN rx[t] : rx'[t][i] = rx[t][j]
    BY <2>2, <2>3, <2>4
  <2>5. ASSUME NEW t \in Sock, wk'[t] = "merge"
        PROVE  \/ wk[t] = "merge" /\ held'[t] = held[t]
               \/ \E j \in DOMAIN rx[t] : held'[t] = rx[t][j]
    BY <2>2, <2>3, <2>5
  <2> QED
    BY <2>3, <2>4, <2>5
<1>2. ASSUME NEW s \in Sock, CollectMerge(s)
      PROVE  /\ inbox' = inbox /\ rx' = rx
             /\ \A t \in Sock : wk'[t] = "merge" => wk[t] = "merge" /\ held'[t] = held[t]
             /\ \/ devices' = devices
                \/ /\ wk[s] = "merge" /\ held[s] \in Announcement
                   /\ devices' = [devices EXCEPT ![held[s].mac] = held[s].cfg]
  <2>1. held[s] \in ToolDatagram /\ wk[s] = "merge"
    BY <1>2 DEF CollectMerge
  <2>2. held[s].type = "announce" => held[s] \in Announcement
    BY <2>1 DEF ToolDatagram, Announcement, Acknowledgement
  <2> QED
    BY <1>2, <2>1, <2>2 DEF CollectMerge, MergeDevice
<1>3. ASSUME NEW s \in Sock, CollectTimeout(s)
      PROVE  /\ inbox' = inbox /\ rx' = rx /\ devices' = devices
             /\ \A t \in Sock : wk'[t] = "merge" => wk[t] = "merge" /\ held'[t] = held[t]
  BY <1>3 DEF CollectTimeout
<1>4. ASSUME Tick
      PROVE  UNCHANGED <<inbox, rx, devices, wk, held>>
  BY <1>4 DEF Tick
<1> QED
  BY <1>1, <1>2, <1>3, <1>4 DEF CollectStep
=============================================================================
