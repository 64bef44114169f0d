------------------------------- MODULE Camera -------------------------------
(***************************************************************************)
(* The simulated camera, internal/fakecam/fakecam.go: two goroutines that  *)
(* share the device record under one mutex, and the Close that stops them. *)
(*                                                                         *)
(* Each section under c.mu is one step.  Everything else -- the datagram   *)
(* that leaves after the lock was given back, the acknowledgement that is  *)
(* sent before the lock is taken -- is a step of its own, because that is  *)
(* where the two goroutines and the owner interleave.                      *)
(***************************************************************************)
EXTENDS Wire

CONSTANTS
    password,   \* the admin password of each camera
    factory     \* the configuration each camera starts with

ASSUME CameraAssumption ==
    /\ password \in [Camera -> Password]
    /\ factory \in [Camera -> Cfg]
    /\ None \notin Command

VARIABLES
    dev,        \* c.dev: the current network configuration
    seen,       \* c.seen: set-network commands received
    log,        \* c.log: the configurations applied, oldest first
    annPc,      \* announceLoop: about to read dev, to send, to wait; or returned
    snap,       \* the announcement announceLoop has built and not yet sent
    cmdPc,      \* commandLoop: about to receive, to ack, to apply; or returned
    pkt,        \* the command commandLoop is working on
    closePc     \* Close: not called, done closed, socket closed, returned

deviceVars   == <<dev, seen, log>>
announceVars == <<annPc, snap>>
commandVars  == <<cmdPc, pkt>>
cameraVars   == <<deviceVars, announceVars, commandVars, closePc>>

(* A loop that is about to send, ack or apply has something to. *)
CameraTypeOK ==
    /\ dev \in [Camera -> Cfg]
    /\ seen \in [Camera -> Nat]
    /\ log \in [Camera -> Seq(Cfg)]
    /\ annPc \in [Camera -> {"read", "send", "wait", "returned"}]
    /\ snap \in [Camera -> Cfg \cup {None}]
    /\ cmdPc \in [Camera -> {"recv", "ack", "apply", "returned"}]
    /\ pkt \in [Camera -> Command \cup {None}]
    /\ closePc \in [Camera -> {"up", "done", "rxclosed", "closed"}]
    /\ \A c \in Camera : annPc[c] = "send" => snap[c] \in Cfg
    /\ \A c \in Camera : cmdPc[c] \in {"ack", "apply"} => pkt[c] \in Command

CameraInit ==
    /\ dev = factory
    /\ seen = [c \in Camera |-> 0]
    /\ log = [c \in Camera |-> << >>]
    /\ annPc = [c \in Camera |-> "read"]
    /\ snap = [c \in Camera |-> None]
    /\ cmdPc = [c \in Camera |-> "recv"]
    /\ pkt = [c \in Camera |-> None]
    /\ closePc = [c \in Camera |-> "up"]

-----------------------------------------------------------------------------
(* announceLoop *)

(* Mistake: the announcement is built from the start-up configuration. *)
AnnounceRead_Factory(c) ==
    /\ annPc[c] = "read"
    /\ snap' = [snap EXCEPT ![c] = factory[c]]
    /\ annPc' = [annPc EXCEPT ![c] = "send"]
    /\ UNCHANGED <<wireVars, deviceVars, commandVars, closePc>>

(* The announcement is built from the device as it is under the lock ... *)
AnnounceRead(c) ==
    /\ annPc[c] = "read"
    /\ snap' = [snap EXCEPT ![c] = dev[c]]
    /\ annPc' = [annPc EXCEPT ![c] = "send"]
    /\ UNCHANGED <<wireVars, deviceVars, commandVars, closePc>>

(* ... and sent after the lock was given back.  A failed send is a lost one. *)
AnnounceSend(c) ==
    /\ annPc[c] = "send"
    /\ ToTools(Announce(c, snap[c]))
    /\ snap' = [snap EXCEPT ![c] = None]
    /\ annPc' = [annPc EXCEPT ![c] = "wait"]
    /\ UNCHANGED <<joined, inbox, deviceVars, commandVars, closePc>>

(* Mistake: a tick sends again without building the announcement again. *)
AnnounceTick_NoRebuild(c) ==
    /\ annPc[c] = "wait"
    /\ annPc' = [annPc EXCEPT ![c] = "send"]
    /\ UNCHANGED <<wireVars, deviceVars, snap, commandVars, closePc>>

(* The ticker fires.  With done closed as well, select may still take it. *)
AnnounceTick(c) ==
    /\ annPc[c] = "wait"
    /\ annPc' = [annPc EXCEPT ![c] = "read"]
    /\ UNCHANGED <<wireVars, deviceVars, snap, commandVars, closePc>>

AnnounceReturn(c) ==
    /\ annPc[c] = "wait"
    /\ closePc[c] # "up"
    /\ annPc' = [annPc EXCEPT ![c] = "returned"]
    /\ UNCHANGED <<wireVars, deviceVars, snap, commandVars, closePc>>

-----------------------------------------------------------------------------
(* commandLoop *)

(* Mistakes: the MAC, the password is not compared. *)
ForMe_AnyMac(c, m)   == m.type = "setnet"
Accepts_Always(c, m) == TRUE

(* A set-network command that carries this camera's MAC. *)
ForMe(c, m) == m.type = "setnet" /\ m.mac = c

(* The password in the command is the camera's. *)
Accepts(c, m) == m.pw = password[c]

(* Mistake: Close does not close the socket. *)
RxOpen_Leaked(c) == closePc[c] # "closed"

RxOpen(c) == closePc[c] \in {"up", "done"}

(* Mistake: whatever else is buffered is thrown away with the command. *)
CommandReceive_Flush(c) ==
    /\ cmdPc[c] = "recv"
    /\ RxOpen(c)
    /\ inbox[c] # << >>
    /\ ForMe(c, Head(inbox[c]))
    /\ pkt' = [pkt EXCEPT ![c] = Head(inbox[c])]
    /\ cmdPc' = [cmdPc EXCEPT ![c] = "ack"]
    /\ inbox' = [inbox EXCEPT ![c] = << >>]
    /\ UNCHANGED <<joined, rx, deviceVars, announceVars, closePc>>

CommandReceive(c) ==
    /\ cmdPc[c] = "recv"
    /\ RxOpen(c)
    /\ inbox[c] # << >>
    /\ inbox' = [inbox EXCEPT ![c] = Tail(@)]
    /\ \/ /\ ForMe(c, Head(inbox[c]))
          /\ pkt' = [pkt EXCEPT ![c] = Head(inbox[c])]
          /\ cmdPc' = [cmdPc EXCEPT ![c] = "ack"]
       \/ /\ ~ ForMe(c, Head(inbox[c]))
          /\ UNCHANGED commandVars
    /\ UNCHANGED <<joined, rx, deviceVars, announceVars, closePc>>

(* Mistake: the device is changed with the ack, ahead of the log. *)
CommandAck_Applies(c) ==
    /\ cmdPc[c] = "ack"
    /\ ToTools(SetAck(c, pkt[c].from))
    /\ cmdPc' = [cmdPc EXCEPT ![c] = "apply"]
    /\ dev' = [dev EXCEPT ![c] = pkt[c].cfg]
    /\ UNCHANGED <<joined, inbox, seen, log, announceVars, pkt, closePc>>

(* The ack leaves before the password is looked at. *)
CommandAck(c) ==
    /\ cmdPc[c] = "ack"
    /\ ToTools(SetAck(c, pkt[c].from))
    /\ cmdPc' = [cmdPc EXCEPT ![c] = "apply"]
    /\ UNCHANGED <<joined, inbox, deviceVars, announceVars, pkt, closePc>>

CommandApply(c) ==
    /\ cmdPc[c] = "apply"
    /\ seen' = [seen EXCEPT ![c] = @ + 1]
    /\ \/ /\ Accepts(c, pkt[c])
          /\ dev' = [dev EXCEPT ![c] = pkt[c].cfg]
          /\ log' = [log EXCEPT ![c] = Append(@, pkt[c].cfg)]
       \/ /\ ~ Accepts(c, pkt[c])
          /\ UNCHANGED <<dev, log>>
    /\ pkt' = [pkt EXCEPT ![c] = None]
    /\ cmdPc' = [cmdPc EXCEPT ![c] = "recv"]
    /\ UNCHANGED <<wireVars, announceVars, closePc>>

(* A receive on the closed socket fails, whatever is still buffered. *)
CommandReturn(c) ==
    /\ cmdPc[c] = "recv"
    /\ ~ RxOpen(c)
    /\ cmdPc' = [cmdPc EXCEPT ![c] = "returned"]
    /\ UNCHANGED <<wireVars, deviceVars, announceVars, pkt, closePc>>

-----------------------------------------------------------------------------
(* Close, called by the owner of the camera *)

CloseDone(c) ==
    /\ closePc[c] = "up"
    /\ closePc' = [closePc EXCEPT ![c] = "done"]
    /\ UNCHANGED <<wireVars, deviceVars, announceVars, commandVars>>

CloseRx(c) ==
    /\ closePc[c] = "done"
    /\ closePc' = [closePc EXCEPT ![c] = "rxclosed"]
    /\ inbox' = [inbox EXCEPT ![c] = << >>]
    /\ UNCHANGED <<joined, rx, deviceVars, announceVars, commandVars>>

(* Mistake: wg counts commandLoop only. *)
BothReturned_One(c) == cmdPc[c] = "returned"

BothReturned(c) == annPc[c] = "returned" /\ cmdPc[c] = "returned"

CloseWait(c) ==
    /\ closePc[c] = "rxclosed"
    /\ BothReturned(c)
    /\ closePc' = [closePc EXCEPT ![c] = "closed"]
    /\ UNCHANGED <<wireVars, deviceVars, announceVars, commandVars>>

-----------------------------------------------------------------------------
(* What the goroutines of one camera do; closing is its owner's decision. *)
CameraStep(c) ==
    \/ AnnounceRead(c)
    \/ AnnounceSend(c)
    \/ AnnounceTick(c)
    \/ AnnounceReturn(c)
    \/ CommandReceive(c)
    \/ CommandAck(c)
    \/ CommandApply(c)
    \/ CommandReturn(c)

(***************************************************************************)
(* A runnable goroutine is scheduled: weak fairness on each loop.  With    *)
(* both the ticker and done ready, select picks at random, so it cannot    *)
(* pick the ticker for ever: strong fairness on leaving announceLoop.      *)
(***************************************************************************)
AnnounceLoop(c) == AnnounceRead(c) \/ AnnounceSend(c) \/ AnnounceTick(c)
CommandLoop(c)  ==
    CommandReceive(c) \/ CommandAck(c) \/ CommandApply(c) \/ CommandReturn(c)
=============================================================================
