------------------------------ MODULE Capture ------------------------------
(***************************************************************************)
(* mhedpcap, cmd/mhedpcap/main.go: the reader of .pcapng and .pcap files,  *)
(* the UDP frames it finds, and its commands list, show and diff.          *)
(*                                                                         *)
(* A file is [format, link, blocks].  A block is [type, order, size, link, *)
(* iface, claims, data, tail, carries]: the byte order it is written in;   *)
(* whether its length is "ok", less than 12 bytes ("short") or beyond the  *)
(* file ("long"); an interface's link type; a packet's interface, the      *)
(* length claimed for it, its bytes, and how many bytes in memory follow   *)
(* it.  carries is the set of the UDP payloads that are whole in it: one,  *)
(* or none, also where udpFrame does not know the link type.  No code      *)
(* reads it.                                                               *)
(***************************************************************************)
EXTENDS Mhed, SequencesExt

VARIABLES
    file,       \* the capture, empty while there is none
    reader,     \* "idle", "reading", "done", "corrupt", "panic"
    pos,        \* blocks read
    order,      \* the byte order of the section
    linktypes,  \* of the section's interfaces
    raw,        \* the packets: <<link type, bytes>>
    shown       \* the command's verb, its frame and what it comes to

BlockSet ==
    [type : {"section", "interface", "enhanced", "simple", "other", "record"},
     order : {"little", "big"}, size : {"ok", "short", "long"}, link : Nat,
     iface : Nat, claims : Nat, data : Bytes, tail : Nat, carries : SUBSET Bytes]
File == [format : {"pcapng", "pcap", "text"}, link : Nat, blocks : Seq(BlockSet)]

captureVars == <<file, reader, pos, order, linktypes, raw, shown>>

NoFile == [format |-> "none", link |-> 0, blocks |-> << >>]
Nothing == [verb |-> "none", frame |-> 0, is |-> "nothing", says |-> Nil]

CaptureInit ==
    /\ file = NoFile
    /\ reader = "idle"
    /\ pos = 0
    /\ order = "little"
    /\ linktypes = << >>
    /\ raw = << >>
    /\ shown = Nothing

-----------------------------------------------------------------------------
(* readCapture *)

(* A pcap file's magic tells its byte order, its header the one link type. *)
OpenFile(f) ==
    /\ reader = "idle"
    /\ file' = f
    /\ reader' = IF f.format \in {"pcapng", "pcap"} THEN "reading" ELSE "corrupt"
    /\ linktypes' = IF f.format = "pcap" THEN <<f.link>> ELSE << >>
    /\ UNCHANGED <<pos, order, raw, shown>>

Reading(format) == reader = "reading" /\ file.format = format
Block == file.blocks[pos + 1]

(* A slice of the block goes on into the rest of the file, whatever is there,
   and panics where the file ends.                                           *)
Slice(b) ==
    IF b.claims <= Len(b.data) THEN SubSeq(b.data, 1, b.claims)
    ELSE b.data \o [i \in 1..b.claims - Len(b.data) |-> 238]

LinkOf(i) == IF i < Len(linktypes) THEN linktypes[i + 1] ELSE 1

KeepPacket(link) ==
    IF Block.claims > Len(Block.data) + Block.tail
    THEN reader' = "panic" /\ UNCHANGED raw
    ELSE raw' = Append(raw, <<link, Slice(Block)>>) /\ UNCHANGED reader

(* In the wrong byte order, a length is beyond any file. *)
Legible == Block.size = "ok" /\ (Block.type = "section" \/ Block.order = order)

(* Mistake: the length is not looked at. *)
CorruptBlock_Loops ==
    /\ Reading("pcapng")
    /\ pos < Len(file.blocks)
    /\ ~ Legible
    /\ Block.size # "short"
    /\ reader' = "corrupt"
    /\ UNCHANGED <<file, pos, order, linktypes, raw, shown>>

CorruptBlock ==
    /\ Reading("pcapng")
    /\ pos < Len(file.blocks)
    /\ ~ Legible
    /\ reader' = "corrupt"
    /\ UNCHANGED <<file, pos, order, linktypes, raw, shown>>

NextBlock ==
    /\ Reading("pcapng")
    /\ pos < Len(file.blocks)
    /\ Legible
    /\ pos' = pos + 1
    /\ UNCHANGED <<file, shown>>

SectionHeader ==
    /\ NextBlock
    /\ Block.type = "section"
    /\ order' = Block.order
    /\ linktypes' = << >>
    /\ UNCHANGED <<reader, raw>>

InterfaceDescription ==
    /\ NextBlock
    /\ Block.type = "interface"
    /\ linktypes' = Append(linktypes, Block.link)
    /\ UNCHANGED <<reader, order, raw>>

EnhancedPacket ==
    /\ NextBlock
    /\ Block.type = "enhanced"
    /\ KeepPacket(LinkOf(Block.iface))
    /\ UNCHANGED <<order, linktypes>>

SimplePacket ==
    /\ NextBlock
    /\ Block.type = "simple"
    /\ KeepPacket(LinkOf(0))
    /\ UNCHANGED <<order, linktypes>>

OtherBlock ==
    /\ NextBlock
    /\ Block.type = "other"
    /\ UNCHANGED <<reader, order, linktypes, raw>>

PcapRecord ==
    /\ Reading("pcap")
    /\ pos < Len(file.blocks)
    /\ Block.size = "ok"
    /\ pos' = pos + 1
    /\ raw' = Append(raw, <<linktypes[1], Block.data>>)
    /\ UNCHANGED <<file, reader, order, linktypes, shown>>

(* A pcap file may end within its last record, which is dropped.  A loopback
   packet is cut after its first four bytes, which it has to have.           *)
EndOfFile ==
    /\ reader = "reading"
    /\ pos < Len(file.blocks) => file.format = "pcap" /\ Block.size # "ok"
    /\ reader' = IF \E i \in DOMAIN raw : raw[i][1] = 0 /\ Len(raw[i][2]) < 4
                 THEN "panic" ELSE "done"
    /\ UNCHANGED <<file, pos, order, linktypes, raw, shown>>

ReadStep ==
    \/ CorruptBlock \/ SectionHeader \/ InterfaceDescription \/ EnhancedPacket
    \/ SimplePacket \/ OtherBlock \/ PcapRecord \/ EndOfFile

-----------------------------------------------------------------------------
(* udpFrame *)

Uint16be(pkt, off) == 256 * pkt[off + 1] + pkt[off + 2]

NoIp == -1

(* Where the IPv4 header begins. *)
LinkHeader(link, pkt) ==
    CASE link = 101 -> 0
      [] link = 0   -> 4
      [] link = 1 /\ Len(pkt) >= 14 /\ Uint16be(pkt, 12) = 2048 -> 14
      [] link = 1 /\ Len(pkt) >= 18 /\ Uint16be(pkt, 12) = 33024
                  /\ Uint16be(pkt, 16) = 2048 -> 18
      [] OTHER -> NoIp

UdpOf(ip) == SubSeq(ip, 4 * (ip[1] % 16) + 1, Uint16be(ip, 2))

HoldsUdp(ip) ==
    /\ Len(ip) >= 20 /\ ip[1] \div 16 = 4 /\ ip[10] = 17
    /\ Uint16be(ip, 2) <= Len(ip)
    /\ 4 * (ip[1] % 16) + 8 <= Uint16be(ip, 2)
    /\ Uint16be(UdpOf(ip), 4) \in 8..Len(UdpOf(ip))

Payload(ip) == SubSeq(UdpOf(ip), 9, Uint16be(UdpOf(ip), 4))

IpOf(r) == SubSeq(r[2], LinkHeader(r[1], r[2]) + 1, Len(r[2]))

UdpFrame(r) == LinkHeader(r[1], r[2]) # NoIp /\ HoldsUdp(IpOf(r))

(* Mistake: the frames are numbered among themselves. *)
frames_Renumbered ==
    LET udp == {i \in DOMAIN raw : UdpFrame(raw[i])}
    IN  {[no |-> Cardinality({j \in udp : j <= i}), payload |-> Payload(IpOf(raw[i]))] :
            i \in udp}

(* The UDP frames, each with its number among all packets; their numbers are
   also their order.                                                         *)
frames ==
    {[no |-> i, payload |-> Payload(IpOf(raw[i]))] : i \in {i \in DOMAIN raw : UdpFrame(raw[i])}}

found(no) == \E f \in frames : f.no = no
find(no)  == CHOOSE f \in frames : f.no = no

-----------------------------------------------------------------------------
(* Commands *)

decodeSet(p) ==
    [mac |-> Field(p, 32, 6), ip |-> Field(p, 40, 4), mask |-> Field(p, 44, 4),
     gw |-> Field(p, 48, 4), dns1 |-> Field(p, 112, 4), dns2 |-> Field(p, 116, 4)]

(* Mistake: only the bytes that both have are compared. *)
Differ_Common(p, q) == {i \in DOMAIN p \cap DOMAIN q : p[i] # q[i]} \ 85..112

(* Where two packets differ outside the password. *)
Differ(p, q) ==
    {i \in (DOMAIN p \cup DOMAIN q) \ 85..112 :
        i \in DOMAIN p \cap DOMAIN q => p[i] # q[i]}

cmdList(fs) ==
    [verb |-> "list", frame |-> 0, is |-> "listed",
     says |-> {f \in fs : Command(f.payload) # NotMhed}]

(* decodeSet reads 120 bytes, of a shorter packet those that follow it in the
   file, and panics where the file ends: "beyond".                           *)
cmdShow(n, p) ==
    LET is(what, says) == [verb |-> "show", frame |-> n, is |-> what, says |-> says]
    IN  CASE Command(p) = NotMhed                       -> is("not MHED", Nil)
          [] Command(p) = CmdAnnounce /\ ~ IsAnnounce(p) -> is("too short", Nil)
          [] Command(p) = CmdAnnounce /\ IsAnnounce(p)  -> is("announce", ParseAnnounce(p))
          [] Command(p) = CmdSetAck /\ IsSetAck(p)      -> is("ack", ParseSetAck(p))
          [] Command(p) = CmdSetNet /\ Len(p) >= 120    -> is("set", decodeSet(p))
          [] Command(p) = CmdSetNet /\ Len(p) < 120     -> is("beyond", Nil)
          [] OTHER                                      -> is("no payload", Nil)

cmdDiff(n, p) ==
    LET is(what) == [verb |-> "diff", frame |-> n, is |-> what, says |-> Nil]
    IN  IF Command(p) # CmdSetNet THEN is("not a set")
        ELSE IF Len(p) < 120 THEN is("beyond")
        ELSE IF Differ(p, BuildSetNetwork(decodeSet(p), Nil)) = {} THEN is("match")
        ELSE is("mismatch")

(* show and diff want a frame, and one that was found. *)
Inspect(verb, n) ==
    /\ reader = "done"
    /\ shown.verb = "none"
    /\ shown' = CASE verb = "list" -> cmdList(frames)
                  [] verb # "list" /\ ~ found(n) ->
                        [Nothing EXCEPT !.verb = verb, !.frame = n, !.is = "no such frame"]
                  [] verb = "show" /\ found(n) -> cmdShow(n, find(n).payload)
                  [] verb = "diff" /\ found(n) -> cmdDiff(n, find(n).payload)
    /\ UNCHANGED <<file, reader, pos, order, linktypes, raw>>

-----------------------------------------------------------------------------
(* Properties *)

IsPacket(b) == b.type \in {"enhanced", "simple", "record"}

(* The number of the packet in block i. *)
Number(f, i) == Cardinality({k \in 1..i : IsPacket(f.blocks[k])})

(* "Frame numbers are 1-based and match Wireshark's" (main.go:8): the frames
   are exactly the packets that hold a whole UDP payload, in whichever section
   they are, each by its number among all packets; and the payload is the one
   that was sent: no link header, option or padding is taken for it, and
   nothing that was cut off is made up.                                      *)
FramesAreThePackets ==
    reader = "done" =>
        LET there == {i \in DOMAIN file.blocks :
                        IsPacket(file.blocks[i]) /\ file.blocks[i].size = "ok"}
        IN  frames = UNION {{[no |-> Number(file, i), payload |-> p] :
                                p \in file.blocks[i].carries} : i \in there}

(* An IPv4 header is found at offset n, behind the link's. *)
Framed(link, pkt, n) ==
    \/ link = 101 /\ n = 0
    \/ link = 0 /\ n = 4
    \/ link = 1 /\ n = 14 /\ Field(pkt, 12, 2) = <<8, 0>>
    \/ link = 1 /\ n = 18 /\ Field(pkt, 12, 2) = <<129, 0>> /\ Field(pkt, 16, 2) = <<8, 0>>

(* It has w words, its protocol is UDP, and k bytes of payload are whole in it,
   in the UDP datagram, the IPv4 packet and the capture.                     *)
Whole(link, pkt, n, w, k) ==
    LET be(i) == 256 * pkt[n + i + 1] + pkt[n + i + 2]
    IN  /\ n + 4 * w + 8 + k <= Len(pkt)
        /\ Framed(link, pkt, n)
        /\ pkt[n + 1] = 64 + w
        /\ pkt[n + 10] = 17
        /\ be(2) \in 4 * w + 8 + k..Len(pkt) - n
        /\ be(4 * w + 4) = 8 + k

Carried(link, pkt) ==
    {Field(pkt, x[1] + 4 * x[2] + 8, x[3]) :
        x \in {x \in {0, 4, 14, 18} \X (5..15) \X (0..Len(pkt)) :
                Whole(link, pkt, x[1], x[2], x[3])}}

(* An IPv4 header has five words or more.  udpFrame does not look at that. *)
Headed(link, pkt) ==
    \A n \in {0, 4, 14, 18} :
        n + 20 <= Len(pkt) /\ Framed(link, pkt, n) => pkt[n + 1] \notin 64..68

(* The interfaces of the section that block i belongs to, before i. *)
Declared(f, i) ==
    {j \in 1..i : /\ f.blocks[j].type = "interface"
                  /\ \A k \in j..i : f.blocks[k].type # "section"}

(* The number of interface j among them, from 0. *)
Index(f, i, j) == Cardinality({k \in Declared(f, i) : k < j})

(* The packet in block i is of interface j; a simple packet is of the first. *)
IsOf(f, i, j) ==
    Index(f, i, j) = IF f.blocks[i].type = "simple" THEN 0 ELSE f.blocks[i].iface

(* What is of an interface that is not declared is taken for Ethernet. *)
LinkType(f, i) ==
    LET of == {j \in Declared(f, i) : IsOf(f, i, j)}
    IN  IF f.format = "pcap" THEN f.link
        ELSE IF of = {} THEN 1
        ELSE f.blocks[CHOOSE j \in of : TRUE].link

(* A file that keeps to its format, and says of each packet what it carries. *)
Truthful(f) ==
    \A i \in DOMAIN f.blocks :
        LET b == f.blocks[i]
        IN  /\ f.format = "pcap" <=> b.type = "record"
            /\ f.format = "pcap" => b.size = "ok" \/ i = Len(f.blocks)
            /\ IsPacket(b) =>
                /\ b.claims = Len(b.data)
                /\ Headed(LinkType(f, i), b.data)
                /\ b.carries = Carried(LinkType(f, i), b.data)

(* The reader comes to an end, also of a file that is cut off or corrupt. *)
ReaderEnds == reader = "reading" ~> reader # "reading"
=============================================================================
