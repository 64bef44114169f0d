----------------------------- MODULE PacketPath -----------------------------
(***************************************************************************)
(* The way of a request as bytes: from the command line that asks for it   *)
(* (CommandLine) to a camera (commandLoop of fakecam.go) and its answers,  *)
(* and, if somebody captured the packets, to what mhedpcap says of them    *)
(* (Capture).  The order and the loss of packets are SetSession's; here    *)
(* each arrives.                                                           *)
(***************************************************************************)
EXTENDS CommandLine, Capture

CONSTANTS
    Cameras,        \* [dev, pw]: the record a camera starts with, its password
    Port,           \* the port the command is sent from
    CapturesOf(_)   \* the files a capture of some packets may be

ASSUME PathAssumption ==
    /\ Cameras \subseteq [dev : Device, pw : Bytes]
    /\ Port \in Word

VARIABLES
    camera,     \* the camera the command reached, None before
    device,     \* its record
    ack,        \* its acknowledgement, Nil if it gave none
    announce    \* its announcement

None == [dev |-> << >>, pw |-> << >>]

cameraVars == <<camera, device, ack, announce>>
vars == <<cliVars, cameraVars, captureVars>>

(* The types of all three. *)
PathTypeOK ==
    /\ CliTypeOK
    /\ Len(ack) \in {0, lenTX} /\ Len(announce) \in {0, lenAnnounce}
    /\ \A i \in DOMAIN announce : announce[i] \in Byte
    /\ reader \in {"idle", "reading", "done", "corrupt", "panic"}
    /\ pos \in 0..Len(file.blocks)
    /\ order \in {"little", "big"}
    /\ \A i \in DOMAIN raw : \A k \in DOMAIN raw[i][2] : raw[i][2][k] \in Byte

Init ==
    /\ CliInit
    /\ camera = None
    /\ device = << >>
    /\ ack = Nil
    /\ announce = Nil
    /\ CaptureInit

(* The command reaches a camera, which answers: with an ack if it is for it,
   and with its record, which the command has changed if the password is
   right.  A camera whose record makes no announcement does not start.       *)
Answer(c) ==
    /\ stage = "sent"
    /\ camera = None
    /\ BuildAnnounce(c.dev) # Nil
    /\ camera' = c
    /\ ack' = IF IsSetNetwork(sent, c.dev.mac) THEN BuildSetAck(chosen[1].ip, Port) ELSE Nil
    /\ device' = IF IsSetNetwork(sent, c.dev.mac) /\ RightPassword(sent, c.pw)
                 THEN Reconfigured(c.dev, sent) ELSE c.dev
    /\ announce' = BuildAnnounce(device')
    /\ UNCHANGED <<cliVars, captureVars>>

(* Somebody captured all that and starts mhedpcap. *)
Captured ==
    /\ camera # None
    /\ \E f \in CapturesOf(<<BuildSearch, sent, ack, announce>>) :
        f \in File /\ OpenFile(f)
    /\ UNCHANGED <<cliVars, cameraVars>>

Read == ReadStep /\ UNCHANGED <<cliVars, cameraVars>>

Show ==
    /\ \E verb \in {"list", "show", "diff"}, n \in 0..Len(raw) + 1 : Inspect(verb, n)
    /\ UNCHANGED <<cliVars, cameraVars>>

Next ==
    \/ CliStep /\ UNCHANGED <<cameraVars, captureVars>>
    \/ \E c \in Cameras : Answer(c)
    \/ Captured
    \/ Read
    \/ Show

(* A program that has started runs to its end. *)
Spec == Init /\ [][Next]_vars /\ WF_vars(Read)

-----------------------------------------------------------------------------
(* Properties *)

(* What Camera's ForMe and Accepts take for granted: the camera that has the
   MAC and the password the operator meant takes over exactly the request;
   any other stays as it was, and acknowledges only what is for it.          *)
OnlyTheAddressee ==
    camera # None =>
        LET meant == camera.dev.mac = given.want.mac
        IN  /\ device = IF meant /\ camera.pw = given.pw
                        THEN [k \in DOMAIN camera.dev |->
                                IF k \in {"ip", "mask", "gw", "dns1", "dns2"}
                                THEN given.want[k] ELSE camera.dev[k]]
                        ELSE camera.dev
            /\ meant <=> ack # Nil

(* What Wire's Announcement and Acknowledgement take for granted: texts that
   just fit their field, and the dates of this century, come out as they went
   in, and building again what was parsed gives the packet "exactly"
   (ARCHITECTURE.md:127); any other date comes out as none.                  *)
AnswersSurvive ==
    /\ announce # Nil =>
        LET heard == ParseAnnounce(announce)
            b     == device.build
            date  == b # Nil /\ b[1] \in 2000..2099 /\ b[2] \in 1..12 /\ b[3] \in 1..31
        IN  /\ IsAnnounce(announce) /\ ~ IsSetAck(announce)
            /\ heard = [device EXCEPT !.build = IF date THEN b ELSE Nil]
            /\ date => BuildAnnounce(heard) = announce
    /\ ack # Nil => /\ IsSetAck(ack) /\ ~ IsAnnounce(ack)
                    /\ ParseSetAck(ack) = [ip |-> chosen[1].ip, port |-> Port]

(* "Zero differences elsewhere means our builder matches" (main.go:291): of
   frames with the same request, diff matches those, and only those, that are
   byte for byte what ipcprobe sends outside what --dump hides; and show says
   what the operator meant.                                                  *)
MatchIsOurs ==
    shown.is \in {"set", "match", "mismatch"} =>
        LET p == find(shown.frame).payload
        IN  decodeSet(p) = given.want =>
                /\ shown.is = "match" => dumpMasked(p) = dumpMasked(sent)
                /\ shown.is = "mismatch" => dumpMasked(p) # dumpMasked(sent)
                /\ shown.is = "set" => shown.says = given.want
=============================================================================
