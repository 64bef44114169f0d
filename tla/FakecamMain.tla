----------------------------- MODULE FakecamMain -----------------------------
(***************************************************************************)
(* The fakecam program, cmd/fakecam/main.go, on a segment where tools send *)
(* it commands: the camera's two goroutines run, a signal arrives, the     *)
(* main goroutine reads the camera three times for its report -- the       *)
(* camera is still running -- and the deferred Close stops it.             *)
(***************************************************************************)
EXTENDS Camera, SequencesExt

CONSTANTS
    Commands,   \* the set-network commands tools send in this run
    MaxSent     \* how many datagrams tools send (bounds the run)

ASSUME FakecamAssumption ==
    /\ Commands \subseteq Command
    /\ MaxSent \in Nat

VARIABLES
    main,       \* the main goroutine of each camera program
    report,     \* what it prints: final configuration, received, applied
    arrived     \* every datagram each camera's socket has been handed

mainVars == <<main, report>>
vars == <<wireVars, cameraVars, mainVars, arrived>>

NoReport == [final |-> None, received |-> 0, applied |-> 0]

(* The types of the camera program and of what it is sent. *)
FakecamTypeOK ==
    /\ WireTypeOK
    /\ CameraTypeOK
    /\ main \in [Camera -> {"serve", "device", "received", "applied",
                            "close", "exit"}]
    /\ report \in [Camera -> [final : Cfg \cup {None}, received : Nat, applied : Nat]]
    /\ arrived \in [Camera -> Seq(CameraDatagram)]

(* A tool listens on every interface for as long as the camera runs. *)
Init ==
    /\ joined = Sock
    /\ rx = [s \in Sock |-> << >>]
    /\ inbox = [c \in Camera |-> << >>]
    /\ CameraInit
    /\ main = [c \in Camera |-> "serve"]
    /\ report = [c \in Camera |-> NoReport]
    /\ arrived = [c \in Camera |-> << >>]

-----------------------------------------------------------------------------
(* The segment: what tools send and hear *)

ToolSends(m) ==
    /\ \A c \in Camera : Len(arrived[c]) < MaxSent
    /\ \E c \in Camera :
        /\ RxOpen(c)
        /\ Len(inbox[c]) < InCap
        /\ inbox' = [inbox EXCEPT ![c] = Append(@, m)]
        /\ arrived' = [arrived EXCEPT ![c] = Append(@, m)]
    /\ UNCHANGED <<joined, rx, cameraVars, mainVars>>

ToolHears(s) ==
    /\ rx[s] # << >>
    /\ rx' = [rx EXCEPT ![s] = Tail(@)]
    /\ UNCHANGED <<joined, inbox, cameraVars, mainVars, arrived>>

-----------------------------------------------------------------------------
(* The main goroutine *)

Signal(c) ==
    /\ main[c] = "serve"
    /\ main' = [main EXCEPT ![c] = "device"]
    /\ UNCHANGED <<wireVars, cameraVars, report, arrived>>

ReportDevice(c) ==
    /\ main[c] = "device"
    /\ report' = [report EXCEPT ![c].final = dev[c]]
    /\ main' = [main EXCEPT ![c] = "received"]
    /\ UNCHANGED <<wireVars, cameraVars, arrived>>

ReportReceived(c) ==
    /\ main[c] = "received"
    /\ report' = [report EXCEPT ![c].received = seen[c]]
    /\ main' = [main EXCEPT ![c] = "applied"]
    /\ UNCHANGED <<wireVars, cameraVars, arrived>>

ReportApplied(c) ==
    /\ main[c] = "applied"
    /\ report' = [report EXCEPT ![c].applied = Len(log[c])]
    /\ main' = [main EXCEPT ![c] = "close"]
    /\ UNCHANGED <<wireVars, cameraVars, arrived>>

CloseCamera(c) ==
    /\ main[c] = "close"
    /\ \/ CloseDone(c) \/ CloseRx(c) \/ CloseWait(c)
    /\ UNCHANGED <<mainVars, arrived>>

Exit(c) ==
    /\ main[c] = "close"
    /\ closePc[c] = "closed"
    /\ main' = [main EXCEPT ![c] = "exit"]
    /\ UNCHANGED <<wireVars, cameraVars, report, arrived>>

MainStep(c) ==
    \/ ReportDevice(c) \/ ReportReceived(c) \/ ReportApplied(c)
    \/ CloseCamera(c) \/ Exit(c)

-----------------------------------------------------------------------------
CameraNext(c) == CameraStep(c) /\ UNCHANGED <<mainVars, arrived>>

Next ==
    \/ \E c \in Camera : CameraNext(c) \/ Signal(c) \/ MainStep(c)
    \/ \E m \in Commands \cup {Search} : ToolSends(m)
    \/ \E s \in Sock : ToolHears(s)

Fairness ==
    \A c \in Camera :
        /\ WF_vars(AnnounceLoop(c) /\ UNCHANGED <<mainVars, arrived>>)
        /\ SF_vars(AnnounceReturn(c) /\ UNCHANGED <<mainVars, arrived>>)
        /\ WF_vars(CommandLoop(c) /\ UNCHANGED <<mainVars, arrived>>)
        /\ WF_vars(MainStep(c))

Spec == Init /\ [][Next]_vars
FairSpec == Spec /\ Fairness

-----------------------------------------------------------------------------
(* Properties *)

(* The commands among the datagrams of a buffer that are for camera c. *)
CommandsFor(c, datagrams) ==
    LET among[q \in Seq(CameraDatagram)] ==
            IF q = << >> THEN << >>
            ELSE IF Last(q).type = "setnet" /\ Last(q).mac = c
                 THEN Append(among[Front(q)], Last(q))
                 ELSE among[Front(q)]
    IN  among[datagrams]

(* The configurations of the commands that carry c's password. *)
Applicable(c, commands) ==
    LET among[q \in Seq(Command)] ==
            IF q = << >> THEN << >>
            ELSE IF Last(q).pw = password[c]
                 THEN Append(among[Front(q)], Last(q).cfg)
                 ELSE among[Front(q)]
    IN  among[commands]

(* commandLoop takes the commands for this camera in the order they came,
   each once: the log (AppliedLog) is exactly the accepted ones among the
   first `seen` of them (Received), whatever else reached the socket, and the
   device is the last one of them.                                          *)
LogFollowsCommands ==
    \A c \in Camera :
        /\ log[c] = Applicable(c, SubSeq(CommandsFor(c, arrived[c]), 1, seen[c]))
        /\ dev[c] = IF log[c] = << >> THEN factory[c] ELSE log[c][Len(log[c])]

(* While the socket is open no command is lost between the kernel's buffer
   and the log: what arrived is counted, being worked on, or still queued.  *)
NothingDropped ==
    \A c \in Camera : RxOpen(c) =>
        Len(CommandsFor(c, arrived[c])) =
            seen[c] + (IF pkt[c] # None THEN 1 ELSE 0)
                    + Len(CommandsFor(c, inbox[c]))

(* The camera a datagram on GroupRX comes from. *)
Sender(m) == IF m.type = "announce" THEN m.mac ELSE m.from

(* When Close has returned, both loops have: no datagram leaves the camera
   any more and its record never changes again, so that its owner may read
   the log (fakecam.go: close(done), rx.Close, wg.Wait).                     *)
SilentAfterClose ==
    [][\A c \in Camera : closePc[c] = "closed" =>
            /\ dev'[c] = dev[c] /\ seen'[c] = seen[c] /\ log'[c] = log[c]
            /\ \A s \in Sock : Len(rx'[s]) > Len(rx[s]) =>
                    Sender(rx'[s][Len(rx'[s])]) # c]_vars

(* Close returns: neither loop can hold up wg.Wait, whatever the ticker and
   the socket do while done is being closed.                                 *)
CloseReturns == \A c \in Camera : main[c] = "close" ~> main[c] = "exit"

(* A changed device is announced, unless it changes again or the camera is
   closed first: the announcement built from the old record is followed, a
   tick later, by one built from the new one.                                *)
ChangeIsAnnounced ==
    \A c \in Camera : \A d \in Cfg :
        dev[c] = d ~> (annPc[c] = "send" /\ snap[c] = d) \/ dev[c] # d
                       \/ closePc[c] # "up"

(* The report reads Device, Received and AppliedLog under three locks while
   the camera still works, so its numbers may come from different moments;
   but in that order: the configuration it shows is never newer than the
   commands it counts as applied, one of which brought it.                   *)
ReportIsExplained ==
    \A c \in Camera : main[c] \in {"close", "exit"} =>
        \/ report[c].final = factory[c]
        \/ \E i \in 1 .. report[c].applied : log[c][i] = report[c].final
=============================================================================
