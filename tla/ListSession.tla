----------------------------- MODULE ListSession -----------------------------
(***************************************************************************)
(* `ipcprobe list` and `ipcprobe show`, cmdList and cmdShow of             *)
(* cmd/ipcprobe/main.go: open, Discover, print -- while the cameras        *)
(* announce and other tools reconfigure them.                              *)
(***************************************************************************)
EXTENDS Camera, Conn, FiniteSets

CONSTANTS
    ListTimeout,    \* --timeout
    OtherSets,      \* set-network commands other tools send, once each
    Targets         \* what is asked for: a MAC for show, None for list

ASSUME ListAssumption ==
    /\ ListTimeout \in Nat
    /\ OtherSets \subseteq Command
    /\ Targets \subseteq Mac \cup {None}

VARIABLES
    pc,         \* where the command is
    target,     \* the MAC of show, None for list
    code,       \* the exit code, None while it runs
    others,     \* the commands other tools have still to send
    heard       \* the announcements the sockets have read, per MAC

sessionVars == <<pc, target, code>>
vars == <<wireVars, cameraVars, connVars, sessionVars, others, heard>>

(* The types of a listing among its cameras. *)
ListTypeOK ==
    /\ WireTypeOK
    /\ CameraTypeOK
    /\ ConnTypeOK
    /\ pc \in {"start", "probe", "discover", "print", "exit"}
    /\ target \in Targets
    /\ code \in {0, 1, 2, None}
    /\ others \subseteq OtherSets
    /\ heard \in [Mac -> SUBSET Cfg]

Init ==
    /\ WireInit
    /\ CameraInit
    /\ ConnInit
    /\ pc = "start"
    /\ target \in Targets
    /\ code = None
    /\ others = OtherSets
    /\ heard = [m \in Mac |-> {}]

-----------------------------------------------------------------------------
(* The command *)

(* The deferred Close runs however the command returns. *)
Return(n) ==
    /\ pc' = "exit"
    /\ code' = n
    /\ Close
    /\ UNCHANGED <<inbox, connVars, target>>

(* Bad flags are 2; no interface, or none that joins the group, is 1. *)
Fail == pc = "start" /\ (Return(1) \/ Return(2))

OpenConn ==
    /\ pc = "start"
    /\ \E J \in SUBSET Sock : Open(J) /\ todo' = J
    /\ sendErr' = FALSE
    /\ pc' = "probe"
    /\ UNCHANGED <<inbox, collectVars, target, code>>

SendProbe(s) ==
    /\ pc = "probe"
    /\ SendOn(s, Search)
    /\ UNCHANGED sessionVars

Discover ==
    /\ pc = "probe"
    /\ AllSent
    /\ CollectStart(ListTimeout)
    /\ pc' = "discover"
    /\ UNCHANGED <<wireVars, sendVars, target, code>>

(* Discover returns the error and no devices; the caller drops the error. *)
ProbeFails ==
    /\ pc = "probe"
    /\ SendErrs
    /\ pc' = "print"
    /\ UNCHANGED <<wireVars, connVars, target, code>>

Discovered ==
    /\ pc = "discover"
    /\ Collected
    /\ CollectEnd
    /\ pc' = "print"
    /\ UNCHANGED <<wireVars, sendVars, target, code>>

(* list always succeeds; show fails when its MAC was not heard. *)
PrintResult ==
    /\ pc = "print"
    /\ \/ target = None /\ Return(0)
       \/ target # None /\ devices[target] # None /\ Return(0)
       \/ target # None /\ devices[target] = None /\ Return(1)

SessionStep ==
    \/ Fail \/ OpenConn \/ Discover \/ ProbeFails \/ Discovered \/ PrintResult
    \/ \E s \in Sock : SendProbe(s)

-----------------------------------------------------------------------------
(* Composition *)

Session ==
    /\ SessionStep
    /\ UNCHANGED <<cameraVars, others, heard>>

(* heard is what a socket has read, whether or not it is merged already. *)
HeardStep(s) ==
    LET m == Head(rx[s])
    IN  heard' = IF m.type = "announce"
                 THEN [heard EXCEPT ![m.mac] = @ \cup {m.cfg}] ELSE heard

Collect ==
    /\ \/ \E s \in Sock : CollectRead(s) /\ HeardStep(s)
       \/ \E s \in Sock : CollectMerge(s) /\ UNCHANGED heard
       \/ \E s \in Sock : CollectTimeout(s) /\ UNCHANGED heard
       \/ Tick /\ UNCHANGED heard
    /\ UNCHANGED <<cameraVars, sessionVars, others>>

Cameras ==
    /\ \E c \in Camera : CameraStep(c)
    /\ UNCHANGED <<connVars, sessionVars, others, heard>>

OtherTool ==
    /\ \E m \in others : ToCameras(m) /\ others' = others \ {m}
    /\ UNCHANGED <<joined, rx, cameraVars, connVars, sessionVars, heard>>

Next == Session \/ Collect \/ Cameras \/ OtherTool

(* The command and Collect's goroutines are scheduled, and time passes. *)
Fairness ==
    /\ WF_vars(Session)
    /\ \A s \in Sock :
        WF_vars((CollectMerge(s) \/ CollectTimeout(s))
                /\ UNCHANGED <<cameraVars, sessionVars, others, heard>>)
    /\ WF_vars(Tick /\ UNCHANGED <<cameraVars, sessionVars, others, heard>>)

Spec == Init /\ [][Next]_vars
FairSpec == Spec /\ Fairness

-----------------------------------------------------------------------------
(* Properties *)

(* The order in which camera c took its configurations: an announcement of
   the n-th one was built after every announcement of the ones before.       *)
Position(c, d) ==
    IF d = factory[c] THEN 0 ELSE CHOOSE i \in DOMAIN log[c] : log[c][i] = d

(* m's configuration in Collect's result is never replaced by an older one. *)
NeverOlder ==
    \A m \in Mac :
        devices[m] # None /\ devices'[m] \notin {None, devices[m]} =>
            Position(m, devices'[m]) > Position(m, devices[m])

(* A tool that listens on one interface shows a camera's newest announcement
   of those it has heard: the socket's order is kept by its goroutine. *)
NewestWinsOnOneSocket == [][Cardinality(joined) = 1 => NeverOlder]_vars

(* "devices de-duplicated by MAC (newest wins)" (discovery.go:213), on any
   number of interfaces.                                                     *)
NewestWins == [][NeverOlder]_vars

(* No goroutine's result is lost in the merge: what Discover returns holds
   exactly the cameras whose announcement some socket has read, each with a
   configuration that was announced.                                         *)
HeardIsListed ==
    pc = "print" =>
        \A m \in Mac : \/ heard[m] = {} /\ devices[m] = None
                       \/ devices[m] \in heard[m]

(* What is listed was announced by a camera that is there, and is, or was
   until a command was applied, its configuration: nothing a full buffer, a
   duplicate or a late datagram does makes a device up.                      *)
ListedIsReal ==
    \A m \in Mac : devices[m] # None =>
        /\ m \in Camera
        /\ devices[m] = factory[m] \/ \E i \in DOMAIN log[m] : log[m][i] = devices[m]

(* The command ends: every Collect goroutine sees the deadline, so wg.Wait
   returns, and the process exits with a code.                               *)
SessionEnds == <>(pc = "exit" /\ code # None)

(* "a Mac with five interfaces shouldn't be unusable because one of them is
   odd" (ARCHITECTURE.md:182-183, of an interface that does not join): when
   several have joined and the probe has left on one of them at least -- it
   is with a camera -- a list, which reports success whatever happened, has
   listened for as long as it was asked to.                                  *)
ProbeIsOut == \E c \in Camera : \E i \in DOMAIN inbox[c] : inbox[c][i] = Search

SuccessHasListened ==
    pc = "print" /\ target = None /\ Cardinality(joined) > 1 /\ ProbeIsOut =>
        now = ListTimeout
=============================================================================
