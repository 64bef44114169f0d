-------------------------------- MODULE Wire --------------------------------
(***************************************************************************)
(* The two multicast groups every part of ipcprobe talks through.          *)
(*                                                                         *)
(* Cameras send announcements and set-acknowledgements to GroupRX, where   *)
(* every receive socket of a tool that has joined the group may hear them. *)
(* Tools send searches and set-network commands to GroupTX, where every    *)
(* camera may hear them.  UDP multicast promises nothing: a datagram       *)
(* reaches any subset of the readers (nobody: it was lost; two sockets of  *)
(* one host: it was duplicated), and a reader whose buffer is full drops   *)
(* it.  One reader sees datagrams in the order they were delivered to it.  *)
(***************************************************************************)
EXTENDS Naturals, Sequences

CONSTANTS
    Camera,     \* the cameras present on the segment, named by MAC
    Mac,        \* every MAC an operator may ask for, present or not
    Cfg,        \* network configurations (address, mask, gateway, DNS)
    Password,   \* admin passwords
    Tool,       \* hosts that send set-network commands
    Sock,       \* usable interfaces; a tool opens one receive socket on each
    RxCap,      \* datagrams the receive buffer of a tool's socket holds
    InCap,      \* datagrams the receive buffer of a camera's socket holds
    None        \* no datagram, no configuration

ASSUME WireAssumption ==
    /\ Camera \subseteq Mac
    /\ RxCap \in Nat
    /\ InCap \in Nat
    /\ None \notin Cfg

VARIABLES
    joined,     \* the interfaces whose receive socket has joined GroupRX
    rx,         \* the receive buffer of each tool socket
    inbox       \* the receive buffer of each camera's socket on GroupTX

wireVars == <<joined, rx, inbox>>

-----------------------------------------------------------------------------
(* The datagrams. *)

Announce(c, d) == [type |-> "announce", mac |-> c, cfg |-> d]
SetAck(c, t)   == [type |-> "setack", from |-> c, requester |-> t]
Search         == [type |-> "search"]
SetNetwork(m, d, p, t) ==
    [type |-> "setnet", mac |-> m, cfg |-> d, pw |-> p, from |-> t]

Announcement == [type : {"announce"}, mac : Camera, cfg : Cfg]
Acknowledgement == [type : {"setack"}, from : Camera, requester : Tool]
Command == [type : {"setnet"}, mac : Mac, cfg : Cfg, pw : Password, from : Tool]

ToolDatagram == Announcement \cup Acknowledgement
CameraDatagram == {Search} \cup Command

(* The types of the buffers. *)
WireTypeOK ==
    /\ joined \subseteq Sock
    /\ rx \in [Sock -> Seq(ToolDatagram)]
    /\ inbox \in [Camera -> Seq(CameraDatagram)]

WireInit ==
    /\ joined = {}
    /\ rx = [s \in Sock |-> << >>]
    /\ inbox = [c \in Camera |-> << >>]

-----------------------------------------------------------------------------
(* A buffer that is full drops the datagram. *)
Deliver(buffer, m, cap) ==
    IF Len(buffer) < cap THEN Append(buffer, m) ELSE buffer

(* A camera sends m to GroupRX. *)
ToTools(m) ==
    \E heard \in SUBSET joined :
        rx' = [s \in Sock |-> IF s \in heard THEN Deliver(rx[s], m, RxCap)
                                             ELSE rx[s]]

(* A tool sends m to GroupTX. *)
ToCameras(m) ==
    \E heard \in SUBSET Camera :
        inbox' = [c \in Camera |-> IF c \in heard THEN Deliver(inbox[c], m, InCap)
                                                  ELSE inbox[c]]
=============================================================================
