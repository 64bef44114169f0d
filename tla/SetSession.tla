----------------------------- MODULE SetSession -----------------------------
(***************************************************************************)
(* `ipcprobe set`, cmdSet of cmd/ipcprobe/main.go, on a segment of cameras:*)
(* validate, open, discover, refuse a camera that was not seen, send one   *)
(* set-network command, then probe and collect until the camera announces  *)
(* the requested address or the deadline passes.                           *)
(***************************************************************************)
EXTENDS Camera, Conn

CONSTANTS
    Addr,               \* the addresses of configurations
    ipOf,               \* the address in a configuration
    Me,                 \* the host ipcprobe runs on
    Requests,           \* what an operator may ask for
    OtherSets,          \* set-network commands other tools send, once each
    DiscoverTimeout,    \* --timeout
    ConfirmTimeout,     \* --confirm-timeout
    Window,             \* the 2 s a confirmation window lasts
    MinWindow           \* the 100 ms it lasts at least

(***************************************************************************)
(* usage: the flags or the password fail a check that comes before any     *)
(* socket; ipv6: --gw, --dns1 or --dns2 is an IPv6 address, which those    *)
(* checks let pass and BuildSetNetwork does not.                           *)
(***************************************************************************)
Request == [mac : Mac, cfg : Cfg, pw : Password,
            force : BOOLEAN, usage : BOOLEAN, ipv6 : BOOLEAN]

(* The returns of cmdSet. *)
Outcomes == {"usage", "noiface", "unseen", "badaddr", "senderr",
             "confirmed", "unconfirmed"}

ASSUME SetAssumption ==
    /\ ipOf \in [Cfg -> Addr]
    /\ Me \in Tool
    /\ Requests \subseteq Request
    /\ OtherSets \subseteq Command
    /\ DiscoverTimeout \in Nat
    /\ ConfirmTimeout \in Nat
    /\ Window \in Nat
    /\ MinWindow \in Nat \ {0}
    /\ None \notin Outcomes

(***************************************************************************)
(* One operator at a time: while the session runs, the other tools of the  *)
(* segment are busy with other cameras.                                    *)
(***************************************************************************)
ASSUME OneOperator ==
    \A m \in OtherSets : m.from # Me /\ \A r \in Requests : m.mac # r.mac

VARIABLES
    pc,         \* where cmdSet is
    req,        \* what was asked for
    deadline,   \* when the confirmation gives up
    acked,      \* some ack was heard while confirming
    outcome,    \* which return cmdSet left through
    others      \* the commands other tools have still to send

answer == <<req, deadline, acked, outcome>>
sessionVars == <<pc, answer>>
vars == <<wireVars, cameraVars, connVars, sessionVars, others>>

ExitCode(o) == CASE o = "confirmed" -> 0
                 [] o \in {"usage", "unconfirmed"} -> 2
                 [] OTHER -> 1

(* The types of a set session among its cameras. *)
SetTypeOK ==
    /\ WireTypeOK
    /\ CameraTypeOK
    /\ ConnTypeOK
    /\ pc \in {"start", "probe", "discover", "check", "send", "loop",
               "reprobe", "confirm", "exit"}
    /\ req \in Requests
    /\ deadline \in Nat
    /\ acked \in BOOLEAN
    /\ outcome \in Outcomes \cup {None}
    /\ others \subseteq OtherSets

Init ==
    /\ WireInit
    /\ CameraInit
    /\ ConnInit
    /\ pc = "start"
    /\ req \in Requests
    /\ deadline = 0
    /\ acked = FALSE
    /\ outcome = None
    /\ others = OtherSets

-----------------------------------------------------------------------------
(* Before anything is sent *)

(* The deferred Close runs however cmdSet returns. *)
Return(o) ==
    /\ pc' = "exit"
    /\ outcome' = o
    /\ Close
    /\ UNCHANGED <<inbox, connVars, req, deadline, acked>>

Usage ==
    /\ pc = "start"
    /\ req.usage
    /\ Return("usage")

(* Choose finds no interface, or none of them can join the group. *)
NoInterface ==
    /\ pc = "start"
    /\ ~ req.usage
    /\ Return("noiface")

OpenConn ==
    /\ pc = "start"
    /\ ~ req.usage
    /\ \E J \in SUBSET Sock : Open(J) /\ todo' = J
    /\ sendErr' = FALSE
    /\ pc' = "probe"
    /\ UNCHANGED <<inbox, collectVars, answer>>

SendProbe(s) ==
    /\ pc \in {"probe", "reprobe"}
    /\ SendOn(s, Search)
    /\ UNCHANGED sessionVars

Discover ==
    /\ pc = "probe"
    /\ AllSent
    /\ CollectStart(DiscoverTimeout)
    /\ pc' = "discover"
    /\ UNCHANGED <<wireVars, sendVars, answer>>

(* Discover returns the error and no devices; cmdSet drops the error. *)
ProbeFails ==
    /\ pc = "probe"
    /\ SendErrs
    /\ pc' = "check"
    /\ UNCHANGED <<wireVars, connVars, answer>>

Discovered ==
    /\ pc = "discover"
    /\ Collected
    /\ CollectEnd
    /\ pc' = "check"
    /\ UNCHANGED <<wireVars, sendVars, answer>>

(* Mistake: the camera does not have to be seen. *)
MaySend_Blind == TRUE

MaySend == devices[req.mac] # None \/ req.force

(* Mistake: a camera that falls silent later is refused as well. *)
Refuse_Late ==
    /\ pc \in {"check", "loop"}
    /\ ~ MaySend
    /\ Return("unseen")

Refuse ==
    /\ pc = "check"
    /\ ~ MaySend
    /\ Return("unseen")

(* BuildSetNetwork refuses an address that is not IPv4. *)
BadAddress ==
    /\ pc = "check"
    /\ MaySend
    /\ req.ipv6
    /\ Return("badaddr")

-----------------------------------------------------------------------------
(* The one command *)

StartSet ==
    /\ pc = "check"
    /\ MaySend
    /\ ~ req.ipv6
    /\ SendStart
    /\ pc' = "send"
    /\ UNCHANGED <<wireVars, collectVars, answer>>

SetCommand == SetNetwork(req.mac, req.cfg, req.pw, Me)

SendSet(s) ==
    /\ pc = "send"
    /\ SendOn(s, SetCommand)
    /\ UNCHANGED sessionVars

SendFails ==
    /\ pc = "send"
    /\ SendErrs
    /\ Return("senderr")

Sent ==
    /\ pc = "send"
    /\ AllSent
    /\ deadline' = now + ConfirmTimeout
    /\ acked' = FALSE
    /\ pc' = "loop"
    /\ UNCHANGED <<wireVars, connVars, req, outcome>>

-----------------------------------------------------------------------------
(* The confirmation loop *)

Reprobe ==
    /\ pc = "loop"
    /\ now < deadline
    /\ SendStart
    /\ pc' = "reprobe"
    /\ UNCHANGED <<wireVars, collectVars, answer>>

(* Mistake: the last window is as long as the others. *)
ConfirmWindow_Full == Window

(* The remaining time, but no more than Window and no less than MinWindow. *)
ConfirmWindow ==
    LET rest  == deadline - now
        short == IF rest < Window THEN rest ELSE Window
    IN  IF short < MinWindow THEN MinWindow ELSE short

(* Whether or not the probe could be sent. *)
OpenWindow ==
    /\ pc = "reprobe"
    /\ todo = {}
    /\ CollectStart(ConfirmWindow)
    /\ pc' = "confirm"
    /\ UNCHANGED <<wireVars, sendVars, answer>>

(* Mistake: any announcement of the camera will do. *)
AnnouncedThere_Anywhere == devices[req.mac] # None

(* The camera was heard at the requested address. *)
AnnouncedThere ==
    devices[req.mac] # None /\ ipOf[devices[req.mac]] = ipOf[req.cfg]

Heard == acked' = (acked \/ acks # << >>)

Confirmed ==
    /\ pc = "confirm"
    /\ Collected
    /\ AnnouncedThere
    /\ Heard
    /\ pc' = "exit"
    /\ outcome' = "confirmed"
    /\ Close
    /\ CollectEnd
    /\ UNCHANGED <<inbox, sendVars, req, deadline>>

Again ==
    /\ pc = "confirm"
    /\ Collected
    /\ ~ AnnouncedThere
    /\ Heard
    /\ CollectEnd
    /\ pc' = "loop"
    /\ UNCHANGED <<wireVars, sendVars, req, deadline, outcome>>

GiveUp ==
    /\ pc = "loop"
    /\ now >= deadline
    /\ Return("unconfirmed")

-----------------------------------------------------------------------------
(* Composition *)

SessionStep ==
    \/ Usage \/ NoInterface \/ OpenConn \/ Discover \/ ProbeFails
    \/ Discovered \/ Refuse \/ BadAddress
    \/ StartSet \/ SendFails \/ Sent
    \/ Reprobe \/ OpenWindow \/ Confirmed \/ Again \/ GiveUp
    \/ \E s \in Sock : SendProbe(s) \/ SendSet(s)

Session == SessionStep /\ UNCHANGED <<cameraVars, others>>

Collect == CollectStep /\ UNCHANGED <<cameraVars, sessionVars, others>>

(* Nobody closes a camera: one that falls silent is one whose datagrams are
   all lost.                                                                *)
Cameras ==
    /\ \E c \in Camera : CameraStep(c)
    /\ UNCHANGED <<connVars, sessionVars, others>>

OtherTool ==
    /\ \E m \in others : ToCameras(m) /\ others' = others \ {m}
    /\ UNCHANGED <<joined, rx, cameraVars, connVars, sessionVars>>

Next == Session \/ Collect \/ Cameras \/ OtherTool

(* cmdSet and Collect's goroutines are scheduled, and time passes; nothing
   is assumed of the cameras or of the network.                             *)
Fairness ==
    /\ WF_vars(Session)
    /\ \A s \in Sock :
        WF_vars((CollectMerge(s) \/ CollectTimeout(s))
                /\ UNCHANGED <<cameraVars, sessionVars, others>>)
    /\ WF_vars(Tick /\ UNCHANGED <<cameraVars, sessionVars, others>>)

Spec == Init /\ [][Next]_vars
FairSpec == Spec /\ Fairness

-----------------------------------------------------------------------------
(* Properties *)

(* Exit 0 prints "confirmed": the camera that was asked for is there and has
   the requested address; and if that is not the address it started with,
   the whole requested configuration was applied, which takes the right
   password -- however stale, duplicated or late the announcement that
   convinced cmdSet was.                                                     *)
ConfirmedMeansApplied ==
    outcome = "confirmed" =>
        /\ req.mac \in Camera
        /\ ipOf[dev[req.mac]] = ipOf[req.cfg]
        /\ ipOf[factory[req.mac]] # ipOf[req.cfg] =>
                dev[req.mac] = req.cfg /\ req.pw = password[req.mac]

(* A command of ours on its way to camera c, or being worked on by it. *)
OursPending(c) ==
    \/ \E i \in DOMAIN inbox[c] : inbox[c][i].type = "setnet" /\ inbox[c][i].from = Me
    \/ cmdPc[c] \in {"ack", "apply"} /\ pkt[c].from = Me

(* "Refuses to fire at a MAC it can't currently see" (main.go:298): without
   --force a command only leaves for a camera that is there, and it never
   leaves for a request that fails a check.                                  *)
NoBlindSend ==
    \A c \in Camera : OursPending(c) =>
        /\ ~ req.usage /\ ~ req.ipv6
        /\ req.force \/ req.mac \in Camera

(* A session that returns before SendSet leaves the camera as it was, for
   good: nothing of it is under way.                                         *)
RefusedMeansUntouched ==
    outcome \in {"usage", "noiface", "unseen", "badaddr"} =>
        /\ \A c \in Camera : ~ OursPending(c)
        /\ req.mac \in Camera => dev[req.mac] = factory[req.mac]

(* Only the camera whose MAC is in the command is reconfigured, although
   every camera receives it: what another camera applied, another tool sent. *)
OnlyTargetChanges ==
    \A c \in Camera \ {req.mac} : \A i \in DOMAIN log[c] :
        \E m \in OtherSets : m.mac = c /\ m.cfg = log[c][i]

(* "camera ... received the command" (main.go:336): an ack that cmdSet takes
   note of means that the camera it asked for has received a command -- or
   another camera has, which another tool has to do with: an ack does not say
   whose command it answers in a way that cmdSet looks at.                   *)
AckMeansReceived ==
    acked => \E c \in Camera :
                /\ seen[c] > 0 \/ cmdPc[c] = "apply"
                /\ c = req.mac \/ \E m \in OtherSets : m.mac = c

(* cmdSet gives up no earlier than its deadline, and the last window's floor
   makes it overrun the deadline by less than that floor.                    *)
GivesUpInTime ==
    /\ outcome = "unconfirmed" => now >= deadline
    /\ outcome \in {"confirmed", "unconfirmed"} => now < deadline + MinWindow

(* cmdSet returns, whatever the cameras and the network do. *)
SessionEnds == <>(pc = "exit")

-----------------------------------------------------------------------------
(* A statement of the documentation, which a run of its own puts to the test *)

(* "exit code 2 if that doesn't happen (e.g. wrong password)" (README.md:68). *)
ExitZeroMeansRightPassword ==
    outcome = "confirmed" => req.pw = password[req.mac]

=============================================================================
