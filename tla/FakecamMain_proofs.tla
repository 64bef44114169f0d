------------------------- MODULE FakecamMain_proofs -------------------------
(***************************************************************************)
(* What the camera program's report and its Close guarantee, for every     *)
(* number of cameras, commands, datagrams and buffer sizes.                *)
(***************************************************************************)
EXTENDS FakecamMain, Network_proofs, SequenceLemmas

-----------------------------------------------------------------------------
(* Type correctness *)

(* A camera program starts well typed. *)
LEMMA FakecamInitType == Init => FakecamTypeOK
<1> SUFFICES ASSUME Init
             PROVE  FakecamTypeOK
  OBVIOUS
<1>1. WireTypeOK /\ arrived \in [Camera -> Seq(CameraDatagram)]
  BY DEF Init, WireTypeOK
<1>2. CameraTypeOK
  BY CameraAssumption DEF Init, CameraInit, CameraTypeOK
<1>3. /\ main \in [Camera -> {"serve", "device", "received", "applied", "close", "exit"}]
      /\ report \in [Camera -> [final : Cfg \cup {None}, received : Nat, applied : Nat]]
  BY DEF Init, NoReport
<1> QED
  BY <1>1, <1>2, <1>3 DEF FakecamTypeOK

(* Cameras, tools and the main goroutines keep the types. *)
LEMMA FakecamStepType == FakecamTypeOK /\ [Next]_vars => FakecamTypeOK'
<1> SUFFICES ASSUME FakecamTypeOK, [Next]_vars
             PROVE  FakecamTypeOK'
  OBVIOUS
<1> USE DEF FakecamTypeOK
<1>1. ASSUME NEW c \in Camera, CameraNext(c) \/ CloseCamera(c)
      PROVE  FakecamTypeOK'
  BY <1>1, CameraStepType DEF CameraNext, CloseCamera, mainVars
<1>2. ASSUME NEW c \in Camera,
             Signal(c) \/ ReportDevice(c) \/ ReportReceived(c) \/ ReportApplied(c)
             \/ Exit(c)
      PROVE  FakecamTypeOK'
  <2>1. UNCHANGED <<wireVars, cameraVars, arrived>>
    BY <1>2 DEF Signal, ReportDevice, ReportReceived, ReportApplied, Exit
  <2>2. WireTypeOK' /\ CameraTypeOK'
    BY <2>1 DEF wireVars, WireTypeOK, cameraVars, deviceVars, announceVars, commandVars,
                CameraTypeOK
  <2>3. dev[c] \in Cfg /\ seen[c] \in Nat /\ Len(log[c]) \in Nat
    BY DEF CameraTypeOK
  <2>4. main' \in [Camera -> {"serve", "device", "received", "applied", "close", "exit"}]
    BY <1>2 DEF Signal, ReportDevice, ReportReceived, ReportApplied, Exit
  <2>5. report' \in [Camera -> [final : Cfg \cup {None}, received : Nat, applied : Nat]]
    <3>1. \/ report' = report
          \/ report' = [report EXCEPT ![c].final = dev[c]]
          \/ report' = [report EXCEPT ![c].received = seen[c]]
          \/ report' = [report EXCEPT ![c].applied = Len(log[c])]
      BY <1>2 DEF Signal, ReportDevice, ReportReceived, ReportApplied, Exit
    <3>2. CASE report' = [report EXCEPT ![c].final = dev[c]]
      BY <2>3, <3>2
    <3>3. CASE report' = [report EXCEPT ![c].received = seen[c]]
      BY <2>3, <3>3
    <3>4. CASE report' = [report EXCEPT ![c].applied = Len(log[c])]
      BY <2>3, <3>4
    <3> QED
      BY <3>1, <3>2, <3>3, <3>4
  <2> QED
    BY <2>1, <2>2, <2>4, <2>5
<1>3. ASSUME NEW m \in Commands \cup {Search}, ToolSends(m)
      PROVE  FakecamTypeOK'
  <2>1. m \in CameraDatagram
    BY FakecamAssumption DEF CameraDatagram
  <2>2. /\ inbox' \in [Camera -> Seq(CameraDatagram)]
        /\ arrived' \in [Camera -> Seq(CameraDatagram)]
    BY <1>3, <2>1 DEF ToolSends, WireTypeOK
  <2> QED
    BY <1>3, <2>2 DEF ToolSends, WireTypeOK, cameraVars, deviceVars, announceVars,
                      commandVars, CameraTypeOK, mainVars
<1>4. ASSUME NEW s \in Sock, ToolHears(s)
      PROVE  FakecamTypeOK'
  <2>1. Tail(rx[s]) \in Seq(ToolDatagram)
    BY <1>4, TailElements DEF ToolHears, WireTypeOK
  <2>2. rx' \in [Sock -> Seq(ToolDatagram)]
    BY <1>4, <2>1 DEF ToolHears, WireTypeOK
  <2> QED
    BY <1>4, <2>2 DEF ToolHears, WireTypeOK, cameraVars, deviceVars, announceVars,
                      commandVars, CameraTypeOK, mainVars
<1>5. CASE UNCHANGED vars
  BY <1>5 DEF vars, wireVars, WireTypeOK, cameraVars, deviceVars, announceVars,
              commandVars, CameraTypeOK, mainVars
<1> QED
  BY <1>1, <1>2, <1>3, <1>4, <1>5 DEF Next, MainStep

(* Every variable of a camera program keeps its type. *)
THEOREM FakecamTypeCorrect == Spec => []FakecamTypeOK
BY FakecamInitType, FakecamStepType, PTL DEF Spec

-----------------------------------------------------------------------------
(* What a step may do to a camera's record *)

(* A record changes only together with the log, which grows by it. *)
LEMMA RecordStep ==
    ASSUME FakecamTypeOK, [Next]_vars, NEW c \in Camera
    PROVE  \/ dev'[c] = dev[c] /\ log'[c] = log[c]
           \/ dev'[c] \in Cfg /\ log'[c] = Append(log[c], dev'[c])
<1>1. CASE UNCHANGED <<dev, log>>
  BY <1>1
<1>2. ASSUME NEW e \in Camera, CameraStep(e)
      PROVE  \/ dev'[c] = dev[c] /\ log'[c] = log[c]
             \/ dev'[c] \in Cfg /\ log'[c] = Append(log[c], dev'[c])
  <2>1. CASE /\ cmdPc[e] = "apply"
             /\ dev' = [dev EXCEPT ![e] = pkt[e].cfg]
             /\ log' = [log EXCEPT ![e] = Append(@, pkt[e].cfg)]
    BY <2>1 DEF FakecamTypeOK, CameraTypeOK, Command
  <2> QED
    BY <1>1, <1>2, <2>1, CameraEffect DEF FakecamTypeOK
<1> QED
  BY <1>1, <1>2 DEF Next, CameraNext, MainStep, CloseCamera, CloseDone, CloseRx, CloseWait,
                    Signal, ReportDevice, ReportReceived, ReportApplied, Exit, ToolSends,
                    ToolHears, vars, cameraVars, deviceVars

-----------------------------------------------------------------------------
(* The report *)

(* d is the configuration c started with, or one of the first n in its log. *)
Explained(c, d, n) ==
    d = factory[c] \/ \E i \in 1 .. n : i \in DOMAIN log[c] /\ log[c][i] = d

(* The strengthening of ReportIsExplained: the record is the log's last entry,
   and what the report has read stays among the entries before it counted.   *)
ReportInv ==
    \A c \in Camera :
        /\ Explained(c, dev[c], Len(log[c]))
        /\ main[c] \in {"received", "applied"} =>
                Explained(c, report[c].final, Len(log[c]))
        /\ main[c] \in {"close", "exit"} =>
                Explained(c, report[c].final, report[c].applied)

(* The log only grows, so what it explains it goes on explaining. *)
LEMMA ExplainedStays ==
    ASSUME FakecamTypeOK, [Next]_vars, NEW c \in Camera
    PROVE  /\ Len(log[c]) <= Len(log'[c])
           /\ \A i \in DOMAIN log[c] : i \in DOMAIN log'[c] /\ log'[c][i] = log[c][i]
<1>1. log[c] \in Seq(Cfg)
  BY DEF FakecamTypeOK, CameraTypeOK
<1>2. CASE log'[c] = log[c]
  BY <1>1, <1>2
<1>3. CASE dev'[c] \in Cfg /\ log'[c] = Append(log[c], dev'[c])
  <2>1. Len(log'[c]) = Len(log[c]) + 1 /\ DOMAIN log[c] = 1 .. Len(log[c])
    BY <1>1, <1>3
  <2>2. \A i \in 1 .. Len(log[c]) : i \in DOMAIN log'[c] /\ log'[c][i] = log[c][i]
    BY <1>1, <1>3
  <2> QED
    BY <1>1, <2>1, <2>2
<1> QED
  BY <1>2, <1>3, RecordStep

(* Neither the camera nor the main goroutine makes the report inexplicable. *)
LEMMA ReportStep == FakecamTypeOK /\ ReportInv /\ [Next]_vars => ReportInv'
<1> SUFFICES ASSUME FakecamTypeOK, ReportInv, [Next]_vars, NEW c \in Camera
             PROVE  /\ Explained(c, dev[c], Len(log[c]))'
                    /\ main'[c] \in {"received", "applied"} =>
                            Explained(c, report[c].final, Len(log[c]))'
                    /\ main'[c] \in {"close", "exit"} =>
                            Explained(c, report[c].final, report[c].applied)'
  BY DEF ReportInv
<1>1. /\ log[c] \in Seq(Cfg) /\ log'[c] \in Seq(Cfg)
      /\ Len(log[c]) \in Nat /\ Len(log'[c]) \in Nat
      /\ Len(log[c]) <= Len(log'[c])
      /\ \A i \in DOMAIN log[c] : i \in DOMAIN log'[c] /\ log'[c][i] = log[c][i]
  <2>1. log[c] \in Seq(Cfg) /\ log'[c] \in Seq(Cfg)
    BY FakecamStepType DEF FakecamTypeOK, CameraTypeOK
  <2> QED
    BY <2>1, ExplainedStays
<1>2. Explained(c, dev[c], Len(log[c]))'
  <2>1. CASE dev'[c] = dev[c] /\ log'[c] = log[c]
    BY <2>1 DEF ReportInv, Explained
  <2>2. CASE dev'[c] \in Cfg /\ log'[c] = Append(log[c], dev'[c])
    <3>1. /\ Len(log'[c]) = Len(log[c]) + 1
          /\ Len(log'[c]) \in DOMAIN log'[c] /\ log'[c][Len(log'[c])] = dev'[c]
      BY <1>1, <2>2
    <3> QED
      BY <1>1, <3>1 DEF Explained
  <2> QED
    BY <2>1, <2>2, RecordStep
<1>3. ASSUME main'[c] = main[c], report'[c] = report[c]
      PROVE  /\ main'[c] \in {"received", "applied"} =>
                    Explained(c, report[c].final, Len(log[c]))'
             /\ main'[c] \in {"close", "exit"} =>
                    Explained(c, report[c].final, report[c].applied)'
  BY <1>1, <1>3 DEF ReportInv, Explained
<1>4. ASSUME NEW e \in Camera,
             Signal(e) \/ ReportDevice(e) \/ ReportReceived(e) \/ ReportApplied(e)
             \/ Exit(e)
      PROVE  /\ main'[c] \in {"received", "applied"} =>
                    Explained(c, report[c].final, Len(log[c]))'
             /\ main'[c] \in {"close", "exit"} =>
                    Explained(c, report[c].final, report[c].applied)'
  <2> USE DEF FakecamTypeOK
  <2>1. log' = log
    BY <1>4 DEF Signal, ReportDevice, ReportReceived, ReportApplied, Exit, cameraVars,
                deviceVars
  <2>2. CASE e # c
    BY <1>3, <1>4, <2>2 DEF Signal, ReportDevice, ReportReceived, ReportApplied, Exit
  <2>3. CASE e = c /\ Signal(c)
    BY <2>3 DEF Signal
  <2>4. CASE e = c /\ ReportDevice(c)
    <3>1. main'[c] = "received" /\ report'[c].final = dev[c]
      BY <2>4 DEF ReportDevice
    <3> QED
      BY <2>1, <3>1 DEF ReportInv, Explained
  <2>5. CASE e = c /\ ReportReceived(c)
    <3>1. main[c] = "received" /\ main'[c] = "applied" /\ report'[c].final = report[c].final
      BY <2>5 DEF ReportReceived
    <3> QED
      BY <2>1, <3>1 DEF ReportInv, Explained
  <2>6. CASE e = c /\ ReportApplied(c)
    <3>1. /\ main[c] = "applied" /\ main'[c] = "close"
          /\ report'[c].final = report[c].final /\ report'[c].applied = Len(log[c])
      BY <2>6 DEF ReportApplied
    <3> QED
      BY <2>1, <3>1 DEF ReportInv, Explained
  <2>7. CASE e = c /\ Exit(c)
    <3>1. main[c] = "close" /\ main'[c] = "exit" /\ report' = report
      BY <2>7 DEF Exit
    <3> QED
      BY <2>1, <3>1 DEF ReportInv, Explained
  <2> QED
    BY <1>4, <2>2, <2>3, <2>4, <2>5, <2>6, <2>7
<1>5. CASE UNCHANGED mainVars
  BY <1>2, <1>3, <1>5 DEF mainVars
<1> QED
  BY <1>2, <1>4, <1>5 DEF Next, CameraNext, MainStep, CloseCamera, ToolSends, ToolHears, vars

(* The final report never shows a configuration newer than those it counts. *)
THEOREM Report == Spec => []ReportIsExplained
<1>1. Init => ReportInv
  BY DEF Init, CameraInit, ReportInv, Explained
<1>2. ReportInv => ReportIsExplained
  BY DEF ReportInv, Explained, ReportIsExplained
<1> QED
  BY <1>1, <1>2, ReportStep, FakecamTypeCorrect, PTL DEF Spec

-----------------------------------------------------------------------------
(* Close *)

(* The strengthening of SilentAfterClose: both loops have returned by then. *)
LoopsGone ==
    \A c \in Camera : closePc[c] = "closed" => annPc[c] = "returned" /\ cmdPc[c] = "returned"

(* A loop that has returned does nothing any more. *)
LEMMA ReturnedIsSilent ==
    ASSUME NEW c \in Camera, annPc[c] = "returned", cmdPc[c] = "returned"
    PROVE  ~ CameraStep(c)
BY DEF CameraStep, AnnounceRead, AnnounceSend, AnnounceTick, AnnounceReturn,
       CommandReceive, CommandAck, CommandApply, CommandReturn

(* Another camera's step is none of this one's. *)
LEMMA OthersLoops ==
    ASSUME FakecamTypeOK, NEW e \in Camera, CameraStep(e), NEW c \in Camera \ {e}
    PROVE  /\ dev'[c] = dev[c] /\ seen'[c] = seen[c] /\ log'[c] = log[c]
           /\ annPc'[c] = annPc[c] /\ cmdPc'[c] = cmdPc[c] /\ closePc' = closePc
BY DEF FakecamTypeOK, CameraTypeOK, CameraStep, AnnounceRead, AnnounceSend,
       AnnounceTick, AnnounceReturn, CommandReceive, CommandAck, CommandApply,
       CommandReturn, deviceVars, announceVars, commandVars

(* wg.Wait returns to Close after both loops, which nobody starts again. *)
LEMMA LoopsGoneStep == FakecamTypeOK /\ LoopsGone /\ [Next]_vars => LoopsGone'
<1> SUFFICES ASSUME FakecamTypeOK, LoopsGone, [Next]_vars,
                    NEW c \in Camera, closePc'[c] = "closed"
             PROVE  annPc'[c] = "returned" /\ cmdPc'[c] = "returned"
  BY DEF LoopsGone
<1>1. ASSUME NEW e \in Camera, CameraStep(e)
      PROVE  annPc'[c] = "returned" /\ cmdPc'[c] = "returned"
  <2>1. closePc' = closePc
    BY <1>1 DEF CameraStep, AnnounceRead, AnnounceSend, AnnounceTick, AnnounceReturn,
                CommandReceive, CommandAck, CommandApply, CommandReturn
  <2>2. annPc[c] = "returned" /\ cmdPc[c] = "returned"
    BY <2>1 DEF LoopsGone
  <2> QED
    BY <1>1, <2>2, ReturnedIsSilent, OthersLoops
<1>2. ASSUME NEW e \in Camera, CloseDone(e) \/ CloseRx(e) \/ CloseWait(e)
      PROVE  annPc'[c] = "returned" /\ cmdPc'[c] = "returned"
  BY <1>2 DEF CloseDone, CloseRx, CloseWait, BothReturned, LoopsGone, announceVars,
              commandVars, FakecamTypeOK, CameraTypeOK
<1>3. CASE UNCHANGED cameraVars
  BY <1>3 DEF cameraVars, announceVars, commandVars, LoopsGone
<1> QED
  BY <1>1, <1>2, <1>3
     DEF Next, CameraNext, MainStep, CloseCamera, Signal, ReportDevice, ReportReceived,
         ReportApplied, Exit, ToolSends, ToolHears, vars

(* A buffer that has grown got its last datagram from whoever sent it. *)
LEMMA LastHeard ==
    ASSUME rx \in [Sock -> Seq(ToolDatagram)], NEW m \in ToolDatagram, ToTools(m),
           NEW s \in Sock, Len(rx'[s]) > Len(rx[s])
    PROVE  rx'[s][Len(rx'[s])] = m
<1>1. PICK heard \in SUBSET joined :
        rx' = [t \in Sock |-> IF t \in heard THEN Deliver(rx[t], m, RxCap) ELSE rx[t]]
  BY DEF ToTools
<1>2. rx[s] \in Seq(ToolDatagram) /\ Len(rx[s]) \in Nat
  OBVIOUS
<1>3. rx'[s] = rx[s] \/ rx'[s] = Append(rx[s], m)
  BY <1>1 DEF Deliver
<1>4. rx'[s] # rx[s]
  BY <1>2
<1> QED
  BY <1>2, <1>3, <1>4

(* What a camera sends carries its own name. *)
LEMMA SentByItself ==
    ASSUME FakecamTypeOK, NEW e \in Camera, CameraStep(e),
           NEW s \in Sock, Len(rx'[s]) > Len(rx[s])
    PROVE  Sender(rx'[s][Len(rx'[s])]) = e
<1> USE DEF FakecamTypeOK, WireTypeOK, CameraTypeOK
<1>1. CASE rx' = rx
  <2>1. Len(rx[s]) \in Nat
    OBVIOUS
  <2> QED
    BY <1>1, <2>1
<1>2. CASE annPc[e] = "send" /\ ToTools(Announce(e, snap[e]))
  <2>1. Announce(e, snap[e]) \in ToolDatagram
    BY <1>2 DEF Announce, ToolDatagram, Announcement
  <2> QED
    BY <1>2, <2>1, LastHeard DEF Sender, Announce
<1>3. CASE cmdPc[e] = "ack" /\ ToTools(SetAck(e, pkt[e].from))
  <2>1. SetAck(e, pkt[e].from) \in ToolDatagram
    BY <1>3 DEF SetAck, ToolDatagram, Acknowledgement, Command
  <2> QED
    BY <1>3, <2>1, LastHeard DEF Sender, SetAck
<1> QED
  BY <1>1, <1>2, <1>3, CameraEffect

(* After Close has returned, the camera is silent and its record final. *)
THEOREM Silence == Spec => SilentAfterClose
<1> DEFINE Quieted(c) ==
        closePc[c] = "closed" =>
            /\ dev'[c] = dev[c] /\ seen'[c] = seen[c] /\ log'[c] = log[c]
            /\ \A s \in Sock : Len(rx'[s]) > Len(rx[s]) =>
                    Sender(rx'[s][Len(rx'[s])]) # c
<1>1. Init => LoopsGone
  BY DEF Init, CameraInit, LoopsGone
<1>2. ASSUME FakecamTypeOK, LoopsGone, [Next]_vars, NEW c \in Camera, closePc[c] = "closed"
      PROVE  Quieted(c)
  <2>1. annPc[c] = "returned" /\ cmdPc[c] = "returned"
    BY <1>2 DEF LoopsGone
  <2>2. ASSUME NEW e \in Camera, CameraStep(e)
        PROVE  Quieted(c)
    <3>1. e # c
      BY <2>1, <2>2, ReturnedIsSilent
    <3> QED
      BY <1>2, <2>2, <3>1, OthersLoops, SentByItself
  <2>3. ASSUME UNCHANGED deviceVars, \A s \in Sock : ~ (Len(rx'[s]) > Len(rx[s]))
        PROVE  Quieted(c)
    BY <2>3 DEF deviceVars
  <2>4. \A s \in Sock : Len(rx[s]) \in Nat
    BY <1>2 DEF FakecamTypeOK, WireTypeOK
  <2>5. CASE UNCHANGED <<rx, deviceVars>>
    BY <2>3, <2>4, <2>5
  <2>6. ASSUME NEW s \in Sock, ToolHears(s)
        PROVE  Quieted(c)
    <3>1. rx' = [rx EXCEPT ![s] = Tail(rx[s])] /\ rx[s] # << >>
      BY <2>6 DEF ToolHears
    <3>2. rx[s] \in Seq(ToolDatagram) /\ rx \in [Sock -> Seq(ToolDatagram)]
      BY <1>2 DEF FakecamTypeOK, WireTypeOK
    <3>3. Len(Tail(rx[s])) = Len(rx[s]) - 1
      BY <3>1, <3>2
    <3>4. \A t \in Sock : ~ (Len(rx'[t]) > Len(rx[t]))
      BY <2>4, <3>1, <3>2, <3>3
    <3> QED
      BY <2>3, <2>6, <3>4 DEF ToolHears, cameraVars
  <2> QED
    BY <1>2, <2>2, <2>5, <2>6
       DEF Next, CameraNext, MainStep, CloseCamera, CloseDone, CloseRx, CloseWait, Signal,
           ReportDevice, ReportReceived, ReportApplied, Exit, ToolSends, vars, wireVars,
           cameraVars
<1>3. FakecamTypeOK /\ LoopsGone /\ [Next]_vars => [\A c \in Camera : Quieted(c)]_vars
  BY <1>2
<1> QED
  BY <1>1, <1>3, LoopsGoneStep, FakecamTypeCorrect, PTL DEF Spec, SilentAfterClose

-----------------------------------------------------------------------------
(* The commands for a camera, and the configurations among them it applies. *)

LEMMA CommandsForEquations ==
    ASSUME NEW c
    PROVE  /\ CommandsFor(c, << >>) = << >>
           /\ \A q \in Seq(CameraDatagram) : \A m \in CameraDatagram :
                  CommandsFor(c, Append(q, m)) =
                      IF m.type = "setnet" /\ m.mac = c THEN Append(CommandsFor(c, q), m)
                                                       ELSE CommandsFor(c, q)
<1> DEFINE body(found, m) ==
               IF m.type = "setnet" /\ m.mac = c THEN Append(found, m) ELSE found
           step == [p \in Seq(CameraDatagram) \X CameraDatagram |-> body(p[1], p[2])]
           Unfolds(f) == f = [q \in Seq(CameraDatagram) |->
                                  IF q = << >> THEN << >> ELSE body(f[Front(q)], Last(q))]
<1>1. step \in [Seq(CameraDatagram) \X CameraDatagram -> Seq(CameraDatagram)]
  <2>1. ASSUME NEW found \in Seq(CameraDatagram), NEW m \in CameraDatagram
        PROVE  body(found, m) \in Seq(CameraDatagram)
    BY AppendProperties
  <2> HIDE DEF body
  <2> QED
    BY <2>1
<1>2. PICK f \in [Seq(CameraDatagram) -> Seq(CameraDatagram)] :
          IsFold(f, Seq(CameraDatagram), << >>, step)
  <2> HIDE DEF step
  <2> QED
    BY <1>1, EmptySeq, FoldExists
<1>3. \A q \in Seq(CameraDatagram) :
          f[q] = IF q = << >> THEN << >> ELSE body(f[Front(q)], Last(q))
  <2> HIDE DEF body
  <2> SUFFICES ASSUME NEW q \in Seq(CameraDatagram), q # << >>
               PROVE  f[q] = body(f[Front(q)], Last(q))
    BY <1>2 DEF IsFold
  <2>1. f[q] = step[<<f[Front(q)], Last(q)>>]
    BY <1>2 DEF IsFold
  <2>2. f[Front(q)] \in Seq(CameraDatagram) /\ Last(q) \in CameraDatagram
    BY <1>2, FrontLast
  <2> QED
    BY <2>1, <2>2
<1>4. Unfolds(f)
  <2> HIDE DEF step, body
  <2> QED
    BY <1>2, <1>3
<1> DEFINE g == CHOOSE h : Unfolds(h)
<1>5. Unfolds(g)
  <2> HIDE DEF Unfolds
  <2> QED
    BY <1>4
<1>6. \A q : CommandsFor(c, q) = g[q]
  BY DEF CommandsFor
<1>7. ASSUME NEW q \in Seq(CameraDatagram)
      PROVE  g[q] = IF q = << >> THEN << >> ELSE body(g[Front(q)], Last(q))
  <2> HIDE DEF g, body
  <2> QED
    BY <1>5
<1> HIDE DEF g
<1>8. CommandsFor(c, << >>) = << >>
  BY <1>6, <1>7, EmptySeq
<1>9. ASSUME NEW q \in Seq(CameraDatagram), NEW m \in CameraDatagram
      PROVE  CommandsFor(c, Append(q, m)) = body(CommandsFor(c, q), m)
  <2>1. /\ Append(q, m) \in Seq(CameraDatagram) /\ Append(q, m) # << >>
        /\ Front(Append(q, m)) = q /\ Last(Append(q, m)) = m
    BY AppendFrontLast
  <2> HIDE DEF body
  <2> QED
    BY <1>6, <1>7, <2>1
<1> QED
  BY <1>8, <1>9

LEMMA CommandsForType ==
    ASSUME NEW c
    PROVE  \A q \in Seq(CameraDatagram) : CommandsFor(c, q) \in Seq(Command)
<1> DEFINE P == {q \in Seq(CameraDatagram) : CommandsFor(c, q) \in Seq(Command)}
<1>1. << >> \in P
  <2>1. CommandsFor(c, << >>) = << >>
    BY CommandsForEquations
  <2>2. << >> \in Seq(CameraDatagram) /\ << >> \in Seq(Command)
    BY EmptySeq
  <2> QED
    BY <2>1, <2>2
<1>2. ASSUME NEW q \in Seq(CameraDatagram), NEW m \in CameraDatagram, q \in P
      PROVE  Append(q, m) \in P
  <2>1. m.type = "setnet" => m \in Command
    BY DEF CameraDatagram, Search
  <2>2. Append(q, m) \in Seq(CameraDatagram) /\ CommandsFor(c, q) \in Seq(Command)
    BY <1>2, AppendProperties
  <2>3. m \in Command => Append(CommandsFor(c, q), m) \in Seq(Command)
    BY <2>2, AppendProperties
  <2>4. CommandsFor(c, Append(q, m)) \in Seq(Command)
    BY <2>1, <2>2, <2>3, CommandsForEquations
  <2> QED
    BY <2>2, <2>4
<1>3. \A q \in Seq(CameraDatagram) : q \in P
  <2> HIDE DEF P
  <2> QED
    BY <1>1, <1>2, SeqInduction
<1> QED
  BY <1>3

LEMMA CommandsForConcat ==
    ASSUME NEW c, NEW q \in Seq(CameraDatagram)
    PROVE  \A r \in Seq(CameraDatagram) :
               CommandsFor(c, q \o r) = CommandsFor(c, q) \o CommandsFor(c, r)
<1> DEFINE P == {r \in Seq(CameraDatagram) :
                   CommandsFor(c, q \o r) = CommandsFor(c, q) \o CommandsFor(c, r)}
<1>0. CommandsFor(c, q) \in Seq(Command)
  BY CommandsForType
<1>1. << >> \in P
  <2>1. q \o << >> = q /\ CommandsFor(c, q) \o << >> = CommandsFor(c, q)
    BY <1>0, ConcatEmptySeq
  <2>2. CommandsFor(c, << >>) = << >>
    BY CommandsForEquations
  <2>3. CommandsFor(c, q \o << >>) = CommandsFor(c, q) \o CommandsFor(c, << >>)
    BY <2>1, <2>2
  <2>4. << >> \in Seq(CameraDatagram)
    BY EmptySeq
  <2> QED
    BY <2>3, <2>4
<1>2. ASSUME NEW r \in Seq(CameraDatagram), NEW m \in CameraDatagram, r \in P
      PROVE  Append(r, m) \in P
  <2>1. /\ q \o Append(r, m) = Append(q \o r, m) /\ q \o r \in Seq(CameraDatagram)
        /\ Append(r, m) \in Seq(CameraDatagram)
    BY ConcatAppend, ConcatProperties, AppendProperties
  <2>2. CommandsFor(c, q \o r) = CommandsFor(c, q) \o CommandsFor(c, r)
    BY <1>2
  <2>3. CASE m.type = "setnet" /\ m.mac = c
    <3>1. /\ CommandsFor(c, Append(q \o r, m)) = Append(CommandsFor(c, q \o r), m)
          /\ CommandsFor(c, Append(r, m)) = Append(CommandsFor(c, r), m)
      BY <2>1, <2>3, CommandsForEquations
    <3>2. m \in Command /\ CommandsFor(c, r) \in Seq(Command)
      BY <2>3, CommandsForType DEF CameraDatagram, Search
    <3>3. CommandsFor(c, q) \o Append(CommandsFor(c, r), m)
          = Append(CommandsFor(c, q) \o CommandsFor(c, r), m)
      BY <1>0, <3>2, ConcatAppend
    <3>4. CommandsFor(c, q \o Append(r, m)) = CommandsFor(c, q) \o CommandsFor(c, Append(r, m))
      BY <2>1, <2>2, <3>1, <3>3
    <3> QED
      BY <2>1, <3>4
  <2>4. CASE ~ (m.type = "setnet" /\ m.mac = c)
    <3>1. /\ CommandsFor(c, Append(q \o r, m)) = CommandsFor(c, q \o r)
          /\ CommandsFor(c, Append(r, m)) = CommandsFor(c, r)
      BY <2>1, <2>4, CommandsForEquations
    <3>2. CommandsFor(c, q \o Append(r, m)) = CommandsFor(c, q) \o CommandsFor(c, Append(r, m))
      BY <2>1, <2>2, <3>1
    <3> QED
      BY <2>1, <3>2
  <2> QED
    BY <2>3, <2>4
<1>3. \A r \in Seq(CameraDatagram) : r \in P
  <2> HIDE DEF P
  <2> QED
    BY <1>1, <1>2, SeqInduction
<1> QED
  BY <1>3

LEMMA ApplicableEquations ==
    ASSUME NEW c \in Camera
    PROVE  /\ Applicable(c, << >>) = << >>
           /\ \A q \in Seq(Command) : \A m \in Command :
                  Applicable(c, Append(q, m)) =
                      IF m.pw = password[c] THEN Append(Applicable(c, q), m.cfg)
                                            ELSE Applicable(c, q)
<1> DEFINE body(found, m) == IF m.pw = password[c] THEN Append(found, m.cfg) ELSE found
           step == [p \in Seq(Cfg) \X Command |-> body(p[1], p[2])]
           Unfolds(f) == f = [q \in Seq(Command) |->
                                  IF q = << >> THEN << >> ELSE body(f[Front(q)], Last(q))]
<1>1. step \in [Seq(Cfg) \X Command -> Seq(Cfg)]
  <2>1. ASSUME NEW found \in Seq(Cfg), NEW m \in Command
        PROVE  body(found, m) \in Seq(Cfg)
    <3>1. m.cfg \in Cfg
      BY DEF Command
    <3> QED
      BY <3>1, AppendProperties
  <2> HIDE DEF body
  <2> QED
    BY <2>1
<1>2. PICK f \in [Seq(Command) -> Seq(Cfg)] : IsFold(f, Seq(Command), << >>, step)
  <2> HIDE DEF step
  <2> QED
    BY <1>1, EmptySeq, FoldExists
<1>3. \A q \in Seq(Command) :
          f[q] = IF q = << >> THEN << >> ELSE body(f[Front(q)], Last(q))
  <2> HIDE DEF body
  <2> SUFFICES ASSUME NEW q \in Seq(Command), q # << >>
               PROVE  f[q] = body(f[Front(q)], Last(q))
    BY <1>2 DEF IsFold
  <2>1. f[q] = step[<<f[Front(q)], Last(q)>>]
    BY <1>2 DEF IsFold
  <2>2. f[Front(q)] \in Seq(Cfg) /\ Last(q) \in Command
    BY <1>2, FrontLast
  <2> QED
    BY <2>1, <2>2
<1>4. Unfolds(f)
  <2> HIDE DEF step, body
  <2> QED
    BY <1>2, <1>3
<1> DEFINE g == CHOOSE h : Unfolds(h)
<1>5. Unfolds(g)
  <2> HIDE DEF Unfolds
  <2> QED
    BY <1>4
<1>6. \A q : Applicable(c, q) = g[q]
  BY DEF Applicable
<1>7. ASSUME NEW q \in Seq(Command)
      PROVE  g[q] = IF q = << >> THEN << >> ELSE body(g[Front(q)], Last(q))
  <2> HIDE DEF g, body
  <2> QED
    BY <1>5
<1> HIDE DEF g
<1>8. Applicable(c, << >>) = << >>
  BY <1>6, <1>7, EmptySeq
<1>9. ASSUME NEW q \in Seq(Command), NEW m \in Command
      PROVE  Applicable(c, Append(q, m)) = body(Applicable(c, q), m)
  <2>1. /\ Append(q, m) \in Seq(Command) /\ Append(q, m) # << >>
        /\ Front(Append(q, m)) = q /\ Last(Append(q, m)) = m
    BY AppendFrontLast
  <2> HIDE DEF body
  <2> QED
    BY <1>6, <1>7, <2>1
<1> QED
  BY <1>8, <1>9

-----------------------------------------------------------------------------
(* commandLoop takes the commands in their order. *)

InHand(c) == IF pkt[c] = None THEN << >> ELSE <<pkt[c]>>

(* The commands that arrived are those worked off, the one in hand and, while
   the socket is open, those that are still buffered.                         *)
TakenInOrder(c) ==
    \E done, rest \in Seq(Command) :
        /\ CommandsFor(c, arrived[c]) = done \o (InHand(c) \o rest)
        /\ Len(done) = seen[c]
        /\ log[c] = Applicable(c, done)
        /\ RxOpen(c) => rest = CommandsFor(c, inbox[c])

LoopInv ==
    \A c \in Camera :
        /\ dev[c] = IF log[c] = << >> THEN factory[c] ELSE log[c][Len(log[c])]
        /\ pkt[c] = None <=> cmdPc[c] \notin {"ack", "apply"}
        /\ TakenInOrder(c)

LEMMA LoopInit == Init => LoopInv
<1> SUFFICES ASSUME Init, NEW c \in Camera
             PROVE  /\ dev[c] = IF log[c] = << >> THEN factory[c] ELSE log[c][Len(log[c])]
                    /\ pkt[c] = None <=> cmdPc[c] \notin {"ack", "apply"}
                    /\ TakenInOrder(c)
  BY DEF LoopInv
<1>1. /\ dev[c] = factory[c] /\ log[c] = << >> /\ pkt[c] = None /\ cmdPc[c] = "recv"
      /\ seen[c] = 0 /\ arrived[c] = << >> /\ inbox[c] = << >>
  BY DEF Init, CameraInit
<1>2. /\ << >> \in Seq(Command) /\ Len(<< >>) = 0 /\ << >> \o (<< >> \o << >>) = << >>
  BY EmptySeq, ConcatEmptySeq
<1>3. CommandsFor(c, << >>) = << >> /\ Applicable(c, << >>) = << >>
  BY CommandsForEquations, ApplicableEquations
<1> QED
  BY <1>1, <1>2, <1>3 DEF TakenInOrder, InHand

(* A step that leaves the loop, its buffer and its record alone. *)
LEMMA LoopQuiet ==
    ASSUME LoopInv, NEW c \in Camera,
           arrived'[c] = arrived[c], pkt'[c] = pkt[c], seen'[c] = seen[c],
           log'[c] = log[c], dev'[c] = dev[c],
           cmdPc'[c] \in {"ack", "apply"} <=> cmdPc[c] \in {"ack", "apply"},
           RxOpen(c)' => RxOpen(c) /\ inbox'[c] = inbox[c]
    PROVE  /\ dev'[c] = IF log'[c] = << >> THEN factory[c] ELSE log'[c][Len(log'[c])]
           /\ pkt'[c] = None <=> cmdPc'[c] \notin {"ack", "apply"}
           /\ TakenInOrder(c)'
<1>1. PICK done \in Seq(Command), rest \in Seq(Command) :
          /\ CommandsFor(c, arrived[c]) = done \o (InHand(c) \o rest)
          /\ Len(done) = seen[c]
          /\ log[c] = Applicable(c, done)
          /\ RxOpen(c) => rest = CommandsFor(c, inbox[c])
  BY DEF LoopInv, TakenInOrder
<1>2. InHand(c)' = InHand(c)
  BY DEF InHand
<1>3. /\ CommandsFor(c, arrived'[c]) = done \o (InHand(c)' \o rest)
      /\ Len(done) = seen'[c]
      /\ log'[c] = Applicable(c, done)
      /\ RxOpen(c)' => rest = CommandsFor(c, inbox'[c])
  BY <1>1, <1>2
<1>4. TakenInOrder(c)'
  BY <1>3 DEF TakenInOrder
<1> QED
  BY <1>4 DEF LoopInv

(* A datagram arrives: it is one more command for c at the end, or none. *)
LEMMA LoopArrival ==
    ASSUME FakecamTypeOK, LoopInv, NEW c \in Camera, NEW m \in CameraDatagram,
           RxOpen(c), arrived'[c] = Append(arrived[c], m), inbox'[c] = Append(inbox[c], m),
           UNCHANGED cameraVars
    PROVE  TakenInOrder(c)'
<1>1. PICK done \in Seq(Command), rest \in Seq(Command) :
          /\ CommandsFor(c, arrived[c]) = done \o (InHand(c) \o rest)
          /\ Len(done) = seen[c]
          /\ log[c] = Applicable(c, done)
          /\ rest = CommandsFor(c, inbox[c])
  BY DEF LoopInv, TakenInOrder
<1>2. /\ InHand(c)' = InHand(c) /\ seen'[c] = seen[c] /\ log'[c] = log[c]
      /\ pkt[c] \in Command \cup {None} /\ InHand(c) \in Seq(Command)
      /\ arrived[c] \in Seq(CameraDatagram) /\ inbox[c] \in Seq(CameraDatagram)
  BY DEF InHand, cameraVars, deviceVars, commandVars, FakecamTypeOK, CameraTypeOK, WireTypeOK
<1>e. \A q \in Seq(CameraDatagram) :
          CommandsFor(c, Append(q, m)) =
              IF m.type = "setnet" /\ m.mac = c THEN Append(CommandsFor(c, q), m)
                                               ELSE CommandsFor(c, q)
  BY CommandsForEquations
<1>3. CASE m.type = "setnet" /\ m.mac = c
  <2>1. m \in Command
    BY <1>3 DEF CameraDatagram, Search
  <2>2. /\ CommandsFor(c, arrived'[c]) = Append(CommandsFor(c, arrived[c]), m)
        /\ CommandsFor(c, inbox'[c]) = Append(rest, m)
    BY <1>1, <1>2, <1>3, <1>e
  <2>3. Append(rest, m) \in Seq(Command) /\ InHand(c) \o rest \in Seq(Command)
    BY <1>2, <2>1, AppendProperties, ConcatProperties
  <2>4. ASSUME NEW u \in Seq(Command), NEW v \in Seq(Command), NEW e \in Command
        PROVE  u \o Append(v, e) = Append(u \o v, e)
    BY ONLY ConcatAppend
  <2>5. done \o (InHand(c) \o Append(rest, m)) = Append(done \o (InHand(c) \o rest), m)
    <3>1. InHand(c) \o Append(rest, m) = Append(InHand(c) \o rest, m)
      BY <1>2, <2>1, <2>4
    <3>2. done \o Append(InHand(c) \o rest, m) = Append(done \o (InHand(c) \o rest), m)
      BY <2>1, <2>3, <2>4
    <3> QED
      BY <3>1, <3>2
  <2>6. CommandsFor(c, arrived'[c]) = done \o (InHand(c)' \o Append(rest, m))
    BY <1>1, <1>2, <2>2, <2>5
  <2> QED
    BY <1>1, <1>2, <2>2, <2>3, <2>6 DEF TakenInOrder
<1>4. CASE ~ (m.type = "setnet" /\ m.mac = c)
  <2>1. /\ CommandsFor(c, arrived'[c]) = CommandsFor(c, arrived[c])
        /\ CommandsFor(c, inbox'[c]) = rest
    BY <1>1, <1>2, <1>4, <1>e
  <2> QED
    BY <1>1, <1>2, <2>1 DEF TakenInOrder
<1> QED
  BY <1>3, <1>4

(* A datagram is taken: a command for c is in hand then, another one is gone. *)
LEMMA LoopReceive ==
    ASSUME FakecamTypeOK, LoopInv, NEW c \in Camera, CommandReceive(c), arrived' = arrived
    PROVE  /\ pkt'[c] = None <=> cmdPc'[c] \notin {"ack", "apply"}
           /\ TakenInOrder(c)'
<1> DEFINE h == Head(inbox[c])
           t == Tail(inbox[c])
<1>1. /\ cmdPc[c] = "recv" /\ RxOpen(c) /\ inbox[c] # << >> /\ inbox'[c] = t
      /\ seen' = seen /\ log' = log
      /\ \/ ForMe(c, h) /\ pkt'[c] = h /\ cmdPc'[c] = "ack"
         \/ ~ ForMe(c, h) /\ pkt' = pkt /\ cmdPc' = cmdPc
  BY DEF CommandReceive, deviceVars, commandVars, FakecamTypeOK, CameraTypeOK, WireTypeOK
<1>2. inbox[c] \in Seq(CameraDatagram) /\ arrived[c] \in Seq(CameraDatagram)
  BY DEF FakecamTypeOK, WireTypeOK
<1>3. h \in CameraDatagram /\ t \in Seq(CameraDatagram) /\ inbox[c] = <<h>> \o t
      /\ <<h>> = Append(<< >>, h) /\ <<h>> \in Seq(CameraDatagram)
  <2> DEFINE q == inbox[c]
  <2>1. q \in Seq(CameraDatagram) /\ q # << >>
    BY <1>1, <1>2
  <2> HIDE DEF q
  <2>2. Head(q) \in CameraDatagram /\ Tail(q) \in Seq(CameraDatagram)
    BY <2>1, HeadTailProperties
  <2>3. q = <<Head(q)>> \o Tail(q) /\ <<Head(q)>> \in Seq(CameraDatagram)
        /\ <<Head(q)>> = Append(<< >>, Head(q))
    BY <2>1, <2>2
  <2> QED
    BY <2>2, <2>3 DEF q
<1> HIDE DEF h, t
<1>4. PICK done \in Seq(Command), rest \in Seq(Command) :
          /\ CommandsFor(c, arrived[c]) = done \o (InHand(c) \o rest)
          /\ Len(done) = seen[c]
          /\ log[c] = Applicable(c, done)
          /\ rest = CommandsFor(c, inbox[c])
  BY <1>1 DEF LoopInv, TakenInOrder
<1>5. pkt[c] = None /\ InHand(c) = << >>
  BY <1>1 DEF LoopInv, InHand
<1>6. CommandsFor(c, t) \in Seq(Command)
  BY <1>3, CommandsForType
<1>7. rest = CommandsFor(c, <<h>>) \o CommandsFor(c, t)
  BY <1>3, <1>4, CommandsForConcat
<1>8. CommandsFor(c, <<h>>) = IF h.type = "setnet" /\ h.mac = c THEN <<h>> ELSE << >>
  <2>1. CommandsFor(c, Append(<< >>, h)) =
            IF h.type = "setnet" /\ h.mac = c THEN Append(CommandsFor(c, << >>), h)
                                             ELSE CommandsFor(c, << >>)
    <3>1. << >> \in Seq(CameraDatagram) /\ h \in CameraDatagram
      BY <1>3, EmptySeq
    <3> QED
      BY <3>1, CommandsForEquations
  <2>2. CommandsFor(c, << >>) = << >>
    BY CommandsForEquations
  <2> QED
    BY <1>3, <2>1, <2>2
<1>9. CommandsFor(c, arrived[c]) = done \o rest
  BY <1>4, <1>5, ConcatEmptySeq
<1>10. CASE ForMe(c, h)
  <2>1. pkt'[c] = h /\ cmdPc'[c] = "ack" /\ h \in Command
    BY <1>1, <1>3, <1>10 DEF ForMe, CameraDatagram, Search
  <2>2. pkt'[c] # None
    BY <2>1, CameraAssumption
  <2>3. InHand(c)' = <<h>>
    BY <2>1, <2>2 DEF InHand
  <2>4. rest = <<h>> \o CommandsFor(c, t)
    BY <1>7, <1>8, <1>10 DEF ForMe
  <2>5. CommandsFor(c, arrived'[c]) = done \o (InHand(c)' \o CommandsFor(c, t))
    BY <1>9, <2>3, <2>4
  <2>6. TakenInOrder(c)'
    BY <1>1, <1>4, <1>6, <2>5 DEF TakenInOrder
  <2> QED
    BY <2>1, <2>2, <2>6
<1>11. CASE ~ ForMe(c, h)
  <2>1. pkt' = pkt /\ cmdPc' = cmdPc
    BY <1>1, <1>11
  <2>2. rest = CommandsFor(c, t)
    <3>1. CommandsFor(c, <<h>>) = << >>
      BY <1>8, <1>11 DEF ForMe
    <3> QED
      BY <1>6, <1>7, <3>1, ConcatEmptySeq
  <2>3. InHand(c)' = InHand(c)
    BY <2>1 DEF InHand
  <2>4. CommandsFor(c, arrived'[c]) = done \o (InHand(c)' \o rest)
    BY <1>4, <2>3
  <2>5. TakenInOrder(c)'
    BY <1>1, <1>4, <2>2, <2>4 DEF TakenInOrder
  <2> QED
    BY <1>1, <1>5, <2>1, <2>5
<1> QED
  BY <1>10, <1>11

(* The command in hand is worked off: counted, and logged if the password fits. *)
LEMMA LoopApply ==
    ASSUME FakecamTypeOK, LoopInv, NEW c \in Camera, CommandApply(c), arrived' = arrived
    PROVE  /\ dev'[c] = IF log'[c] = << >> THEN factory[c] ELSE log'[c][Len(log'[c])]
           /\ pkt'[c] = None <=> cmdPc'[c] \notin {"ack", "apply"}
           /\ TakenInOrder(c)'
<1>1. /\ cmdPc[c] = "apply" /\ seen'[c] = seen[c] + 1 /\ pkt'[c] = None /\ cmdPc'[c] = "recv"
      /\ inbox' = inbox /\ closePc' = closePc
      /\ pkt[c] \in Command /\ log[c] \in Seq(Cfg) /\ seen[c] \in Nat
      /\ \/ /\ Accepts(c, pkt[c]) /\ dev'[c] = pkt[c].cfg
            /\ log'[c] = Append(log[c], pkt[c].cfg)
         \/ ~ Accepts(c, pkt[c]) /\ dev' = dev /\ log' = log
  BY DEF CommandApply, wireVars, FakecamTypeOK, CameraTypeOK
<1>2. PICK done \in Seq(Command), rest \in Seq(Command) :
          /\ CommandsFor(c, arrived[c]) = done \o (InHand(c) \o rest)
          /\ Len(done) = seen[c]
          /\ log[c] = Applicable(c, done)
          /\ RxOpen(c) => rest = CommandsFor(c, inbox[c])
  BY DEF LoopInv, TakenInOrder
<1>3. InHand(c) = <<pkt[c]>> /\ InHand(c)' = << >>
  BY <1>1, CameraAssumption DEF InHand
<1> DEFINE d == Append(done, pkt[c])
<1>4. d \in Seq(Command) /\ Len(d) = seen'[c] /\ d = done \o <<pkt[c]>>
      /\ <<pkt[c]>> \in Seq(Command)
  BY <1>1, <1>2, AppendProperties, AppendIsConcat
<1>5. CommandsFor(c, arrived'[c]) = d \o (InHand(c)' \o rest)
  <2>1. (done \o <<pkt[c]>>) \o rest = done \o (<<pkt[c]>> \o rest)
    BY <1>4, ConcatAssociative
  <2>2. << >> \o rest = rest
    BY ConcatEmptySeq
  <2> HIDE DEF d
  <2> QED
    BY <1>2, <1>3, <1>4, <2>1, <2>2
<1>6. log'[c] = Applicable(c, d)
  BY <1>1, <1>2, ApplicableEquations DEF Accepts
<1>7. RxOpen(c)' => rest = CommandsFor(c, inbox'[c])
  BY <1>1, <1>2 DEF RxOpen
<1>8. TakenInOrder(c)'
  <2> HIDE DEF d
  <2> QED
    BY <1>4, <1>5, <1>6, <1>7 DEF TakenInOrder
<1>9. dev'[c] = IF log'[c] = << >> THEN factory[c] ELSE log'[c][Len(log'[c])]
  <2>1. CASE dev' = dev /\ log' = log
    BY <2>1 DEF LoopInv
  <2>2. CASE dev'[c] = pkt[c].cfg /\ log'[c] = Append(log[c], pkt[c].cfg)
    <3>1. pkt[c].cfg \in Cfg
      BY <1>1 DEF Command
    <3>2. /\ Append(log[c], pkt[c].cfg) # << >>
          /\ Len(Append(log[c], pkt[c].cfg)) = Len(log[c]) + 1
          /\ Append(log[c], pkt[c].cfg)[Len(log[c]) + 1] = pkt[c].cfg
      BY <1>1, <3>1, AppendProperties
    <3> QED
      BY <2>2, <3>2
  <2> QED
    BY <1>1, <2>1, <2>2
<1> QED
  BY <1>1, <1>8, <1>9

(* Nothing any step does breaks the order. *)
LEMMA LoopStep == FakecamTypeOK /\ LoopInv /\ [Next]_vars => LoopInv'
<1> SUFFICES ASSUME FakecamTypeOK, LoopInv, [Next]_vars, NEW c \in Camera
             PROVE  /\ dev'[c] = IF log'[c] = << >> THEN factory[c] ELSE log'[c][Len(log'[c])]
                    /\ pkt'[c] = None <=> cmdPc'[c] \notin {"ack", "apply"}
                    /\ TakenInOrder(c)'
  BY DEF LoopInv
<1> DEFINE Goal == /\ dev'[c] = IF log'[c] = << >> THEN factory[c] ELSE log'[c][Len(log'[c])]
                   /\ pkt'[c] = None <=> cmdPc'[c] \notin {"ack", "apply"}
                   /\ TakenInOrder(c)'
<1> USE DEF wireVars, deviceVars, announceVars, commandVars
<1>t. FakecamTypeOK /\ WireTypeOK /\ CameraTypeOK
  BY DEF FakecamTypeOK
<1>q. ASSUME arrived'[c] = arrived[c], pkt'[c] = pkt[c], seen'[c] = seen[c],
             log'[c] = log[c], dev'[c] = dev[c],
             cmdPc'[c] \in {"ack", "apply"} <=> cmdPc[c] \in {"ack", "apply"},
             RxOpen(c)' => RxOpen(c) /\ inbox'[c] = inbox[c]
      PROVE  Goal
  BY <1>q, LoopQuiet
<1>1. ASSUME NEW e \in Camera, CameraNext(e)
      PROVE  Goal
  <2>1. CASE AnnounceRead(e) \/ AnnounceSend(e) \/ AnnounceTick(e) \/ AnnounceReturn(e)
    <3>1. UNCHANGED <<arrived, pkt, seen, log, dev, cmdPc, inbox, closePc>>
      BY <1>1, <2>1 DEF CameraNext, AnnounceRead, AnnounceSend, AnnounceTick, AnnounceReturn
    <3> QED
      BY <1>q, <3>1 DEF RxOpen
  <2>2. CASE e # c /\ (CommandReceive(e) \/ CommandAck(e) \/ CommandApply(e) \/ CommandReturn(e))
    <3>1. /\ arrived' = arrived /\ pkt'[c] = pkt[c] /\ seen'[c] = seen[c] /\ log'[c] = log[c]
          /\ dev'[c] = dev[c] /\ cmdPc'[c] = cmdPc[c] /\ inbox'[c] = inbox[c]
          /\ closePc' = closePc
      BY <1>1, <1>t, <2>2 DEF CameraNext, CommandReceive, CommandAck, CommandApply,
                              CommandReturn, WireTypeOK, CameraTypeOK
    <3> QED
      BY <1>q, <3>1 DEF RxOpen
  <2>3. CASE e = c /\ CommandReceive(c)
    <3>1. dev' = dev /\ log' = log /\ arrived' = arrived
      BY <1>1, <2>3 DEF CameraNext, CommandReceive
    <3>2. dev'[c] = IF log'[c] = << >> THEN factory[c] ELSE log'[c][Len(log'[c])]
      BY <3>1 DEF LoopInv
    <3> QED
      BY <2>3, <3>1, <3>2, LoopReceive
  <2>4. CASE e = c /\ CommandAck(c)
    <3>1. /\ arrived' = arrived /\ pkt' = pkt /\ seen' = seen /\ log' = log /\ dev' = dev
          /\ cmdPc[c] = "ack" /\ cmdPc'[c] = "apply" /\ inbox' = inbox /\ closePc' = closePc
      BY <1>1, <1>t, <2>4 DEF CameraNext, CommandAck, CameraTypeOK
    <3> QED
      BY <1>q, <3>1 DEF RxOpen
  <2>5. CASE e = c /\ CommandApply(c)
    <3>1. arrived' = arrived
      BY <1>1 DEF CameraNext
    <3> QED
      BY <2>5, <3>1, LoopApply
  <2>6. CASE e = c /\ CommandReturn(c)
    <3>1. /\ arrived' = arrived /\ pkt' = pkt /\ seen' = seen /\ log' = log /\ dev' = dev
          /\ cmdPc[c] = "recv" /\ cmdPc'[c] = "returned" /\ inbox' = inbox
          /\ closePc' = closePc
      BY <1>1, <1>t, <2>6 DEF CameraNext, CommandReturn, CameraTypeOK
    <3> QED
      BY <1>q, <3>1 DEF RxOpen
  <2> QED
    BY <1>1, <2>1, <2>2, <2>3, <2>4, <2>5, <2>6 DEF CameraNext, CameraStep
<1>2. ASSUME NEW e \in Camera, CloseCamera(e)
      PROVE  Goal
  <2>1. /\ UNCHANGED <<arrived, pkt, seen, log, dev, cmdPc>>
        /\ closePc' = closePc \/ closePc'[e] # "up"
        /\ RxOpen(c)' => RxOpen(c) /\ inbox'[c] = inbox[c]
    <3>1. CASE CloseDone(e)
      BY <1>2, <1>t, <3>1 DEF CloseCamera, CloseDone, RxOpen, CameraTypeOK
    <3>2. CASE CloseRx(e)
      BY <1>2, <1>t, <3>2 DEF CloseCamera, CloseRx, RxOpen, CameraTypeOK, WireTypeOK
    <3>3. CASE CloseWait(e)
      BY <1>2, <1>t, <3>3 DEF CloseCamera, CloseWait, RxOpen, CameraTypeOK
    <3> QED
      BY <1>2, <3>1, <3>2, <3>3 DEF CloseCamera
  <2> QED
    BY <1>q, <2>1
<1>3. ASSUME NEW m \in Commands \cup {Search}, ToolSends(m)
      PROVE  Goal
  <2>1. m \in CameraDatagram
    BY FakecamAssumption DEF CameraDatagram
  <2>2. PICK e \in Camera : /\ RxOpen(e)
                            /\ inbox' = [inbox EXCEPT ![e] = Append(@, m)]
                            /\ arrived' = [arrived EXCEPT ![e] = Append(@, m)]
    BY <1>3 DEF ToolSends
  <2>3. UNCHANGED cameraVars
    BY <1>3 DEF ToolSends
  <2>4. CASE e = c
    <3>1. arrived'[c] = Append(arrived[c], m) /\ inbox'[c] = Append(inbox[c], m) /\ RxOpen(c)
      BY <1>t, <2>2, <2>4 DEF FakecamTypeOK, WireTypeOK
    <3>2. TakenInOrder(c)'
      BY <1>t, <2>1, <2>3, <3>1, LoopArrival
    <3> QED
      BY <2>3, <3>2 DEF LoopInv, cameraVars
  <2>5. CASE e # c
    <3>1. arrived'[c] = arrived[c] /\ inbox'[c] = inbox[c]
      BY <1>t, <2>2, <2>5 DEF FakecamTypeOK, WireTypeOK
    <3> QED
      BY <1>q, <2>3, <3>1 DEF cameraVars, RxOpen
  <2> QED
    BY <2>4, <2>5
<1>4. CASE UNCHANGED <<inbox, cameraVars, arrived>>
  BY <1>q, <1>4 DEF cameraVars, RxOpen
<1> HIDE DEF Goal
<1>5. \/ \E e \in Camera : CameraNext(e) \/ CloseCamera(e)
      \/ \E m \in Commands \cup {Search} : ToolSends(m)
      \/ UNCHANGED <<inbox, cameraVars, arrived>>
  <2>1. ASSUME NEW e \in Camera,
               Signal(e) \/ ReportDevice(e) \/ ReportReceived(e) \/ ReportApplied(e) \/ Exit(e)
        PROVE  UNCHANGED <<inbox, cameraVars, arrived>>
    BY <2>1 DEF Signal, ReportDevice, ReportReceived, ReportApplied, Exit
  <2>2. ASSUME NEW s \in Sock, ToolHears(s)
        PROVE  UNCHANGED <<inbox, cameraVars, arrived>>
    BY <2>2 DEF ToolHears
  <2>3. CASE UNCHANGED vars
    BY <2>3 DEF vars
  <2> QED
    BY <2>1, <2>2, <2>3 DEF Next, MainStep
<1>6. ASSUME \E e \in Camera : CameraNext(e) \/ CloseCamera(e)
      PROVE  Goal
  <2>1. PICK e \in Camera : CameraNext(e) \/ CloseCamera(e)
    BY <1>6
  <2>2. ASSUME CameraNext(e) PROVE Goal
    BY <1>1, <2>2
  <2>3. ASSUME CloseCamera(e) PROVE Goal
    BY <1>2, <2>3
  <2> QED
    BY <2>1, <2>2, <2>3
<1>7. ASSUME \E m \in Commands \cup {Search} : ToolSends(m)
      PROVE  Goal
  BY <1>3, <1>7
<1>8. ASSUME UNCHANGED <<inbox, cameraVars, arrived>>
      PROVE  Goal
  BY <1>4, <1>8 DEF Goal
<1>9. Goal
  BY <1>5, <1>6, <1>7, <1>8
<1> QED
  BY <1>9 DEF Goal

(* What the record and the counters of a camera mean. *)
THEOREM InOrder == Spec => []LogFollowsCommands
<1>1. FakecamTypeOK /\ LoopInv => LogFollowsCommands
  <2> SUFFICES ASSUME FakecamTypeOK, LoopInv, NEW c \in Camera
               PROVE  /\ log[c] = Applicable(c, SubSeq(CommandsFor(c, arrived[c]), 1, seen[c]))
                      /\ dev[c] = IF log[c] = << >> THEN factory[c] ELSE log[c][Len(log[c])]
    BY DEF LogFollowsCommands
  <2>1. PICK done \in Seq(Command), rest \in Seq(Command) :
            /\ CommandsFor(c, arrived[c]) = done \o (InHand(c) \o rest)
            /\ Len(done) = seen[c]
            /\ log[c] = Applicable(c, done)
    BY DEF LoopInv, TakenInOrder
  <2> DEFINE more == InHand(c) \o rest
  <2>2. more \in Seq(Command)
    <3>1. InHand(c) \in Seq(Command)
      BY DEF InHand, FakecamTypeOK, CameraTypeOK
    <3> QED
      BY <3>1, ConcatProperties
  <2> HIDE DEF more
  <2>3. SubSeq(done \o more, 1, Len(done)) = done
    <3>1. Len(done) \in Nat
      BY LenProperties
    <3>2. CASE Len(done) = 0
      <4>1. done = << >>
        BY <3>2, EmptySeq
      <4> QED
        BY <3>2, <4>1, SubSeqEmpty
    <3>3. CASE Len(done) # 0
      <4>1. 1 \in 1 .. Len(done) /\ Len(done) \in 1 .. Len(done)
        BY <3>1, <3>3
      <4>2. SubSeq(done \o more, 1, Len(done)) = SubSeq(done, 1, Len(done))
        BY <2>2, <4>1, SubSeqOfConcat1
      <4> QED
        BY <4>2, SubSeqFull
    <3> QED
      BY <3>2, <3>3
  <2>4. log[c] = Applicable(c, SubSeq(CommandsFor(c, arrived[c]), 1, seen[c]))
    BY <2>1, <2>3 DEF more
  <2> QED
    BY <2>4 DEF LoopInv
<1> QED
  BY <1>1, LoopInit, LoopStep, FakecamTypeCorrect, PTL DEF Spec

(* Between the socket and the log no command is lost or counted twice. *)
THEOREM NoneLost == Spec => []NothingDropped
<1>1. FakecamTypeOK /\ LoopInv => NothingDropped
  <2> SUFFICES ASSUME FakecamTypeOK, LoopInv, NEW c \in Camera, RxOpen(c)
               PROVE  Len(CommandsFor(c, arrived[c])) =
                          seen[c] + (IF pkt[c] # None THEN 1 ELSE 0)
                                  + Len(CommandsFor(c, inbox[c]))
    BY DEF NothingDropped
  <2>1. PICK done \in Seq(Command), rest \in Seq(Command) :
            /\ CommandsFor(c, arrived[c]) = done \o (InHand(c) \o rest)
            /\ Len(done) = seen[c]
            /\ rest = CommandsFor(c, inbox[c])
    BY DEF LoopInv, TakenInOrder
  <2>2. InHand(c) \in Seq(Command) /\ Len(InHand(c)) = IF pkt[c] # None THEN 1 ELSE 0
    BY DEF InHand, FakecamTypeOK, CameraTypeOK
  <2>3. \A u, v \in Seq(Command) : /\ u \o v \in Seq(Command)
                                   /\ Len(u \o v) = Len(u) + Len(v)
    BY ConcatProperties
  <2>4. /\ Len(InHand(c) \o rest) = Len(InHand(c)) + Len(rest)
        /\ Len(done \o (InHand(c) \o rest)) = Len(done) + Len(InHand(c) \o rest)
    BY <2>2, <2>3
  <2>5. Len(done) \in Nat /\ Len(rest) \in Nat
    BY LenProperties
  <2>6. Len(CommandsFor(c, arrived[c])) = Len(done) + Len(InHand(c)) + Len(rest)
    BY <2>1, <2>2, <2>4, <2>5
  <2> QED
    BY <2>1, <2>2, <2>6
<1> QED
  BY <1>1, LoopInit, LoopStep, FakecamTypeCorrect, PTL DEF Spec
=============================================================================
