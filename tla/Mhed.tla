-------------------------------- MODULE Mhed --------------------------------
(***************************************************************************)
(* The packets of the protocol, internal/mhed/mhed.go, and what the camera *)
(* of internal/fakecam/fakecam.go reads in one.                            *)
(*                                                                         *)
(* A packet is the sequence of its bytes, a text that of its characters,   *)
(* an address its 4 or 16 bytes.  What does not parse, or is refused, is   *)
(* the empty sequence.                                                     *)
(***************************************************************************)
EXTENDS Integers, Sequences

Nil   == << >>
Byte  == 0..255
Bytes == Seq(Byte)
Chars == Seq(Byte \ {0})            \* no NUL, which ends a text of the protocol
Word  == {n \in Nat : n < 65536}    \* uint16
Is4(a) == Len(a) = 4

lenTX       == 140
lenAnnounce == 240
lenPassword == 28

NotMhed     == -1
CmdSearch   == 1
CmdAnnounce == 2
CmdSetNet   == 3
CmdSetAck   == 16

-----------------------------------------------------------------------------
(* Bytes *)

Zeros(n) == [i \in 1..n |-> 0]

(* The bytes f[2] copied to offset f[1]. *)
Copied(pkt, f) ==
    [i \in DOMAIN pkt |->
        IF f[1] < i /\ i <= f[1] + Len(f[2]) THEN f[2][i - f[1]] ELSE pkt[i]]
pkt ++ f == Copied(pkt, f)

Field(pkt, off, n) == SubSeq(pkt, off + 1, off + n)

Le16(v) == <<v % 256, v \div 256>>
Le32(v) == Le16(v % 65536) \o Le16(v \div 65536)
Uint16(b) == b[1] + 256 * b[2]
Uint32(b) == Uint16(b) + 65536 * Uint16(Field(b, 2, 2))

(* A field's text ends at its first zero byte, or with the field. *)
Cstr(b) ==
    IF \A i \in DOMAIN b : b[i] # 0 THEN b
    ELSE SubSeq(b, 1, (CHOOSE i \in DOMAIN b :
                          b[i] = 0 /\ \A j \in 1..i-1 : b[j] # 0) - 1)

(* The standard base64 of a text: four characters for three bytes. *)
Base64(s) ==
    LET byte(i)  == IF i <= Len(s) THEN s[i] ELSE 0
        group(g) == (byte(3*g + 1) * 256 + byte(3*g + 2)) * 256 + byte(3*g + 3)
        char(v)  == CASE v < 26 -> v + 65 [] v \in 26..51 -> v + 71
                      [] v \in 52..61 -> v - 4 [] v = 62 -> 43 [] v = 63 -> 47
        at(g, j) == IF 3*g + j > Len(s) THEN 61
                    ELSE char((group(g) \div <<64 * 64 * 64, 64 * 64, 64, 1>>[j + 1]) % 64)
    IN  [k \in 1..4 * ((Len(s) + 2) \div 3) |-> at((k - 1) \div 4, (k - 1) % 4)]

-----------------------------------------------------------------------------
(* Headers *)

MHED == <<77, 72, 69, 68>>

header(ver, cmd) == MHED \o Le16(ver) \o Le16(1) \o Le16(cmd)

Command(pkt) ==
    IF Len(pkt) < 10 \/ Field(pkt, 0, 4) # MHED THEN NotMhed
    ELSE Uint16(Field(pkt, 8, 2))

-----------------------------------------------------------------------------
(* What the tool sends *)

BuildSearch == Zeros(lenTX) ++ <<0, header(9, CmdSearch)>>

PasswordFits(pw) == Len(Base64(pw)) <= lenPassword

EncodePassword(pw) == Base64(pw) \o Zeros(lenPassword - Len(Base64(pw)))

(* Mistake: the second DNS server overwrites the first. *)
SetPacket_Dns(r, pw) ==
    Zeros(lenTX) ++ <<0, header(9, CmdSetNet)>>
        ++ <<32, r.mac>> ++ <<40, r.ip>> ++ <<44, r.mask>> ++ <<48, r.gw>>
        ++ <<84, EncodePassword(pw)>> ++ <<112, r.dns1>> ++ <<112, r.dns2>>

SetPacket(r, pw) ==
    Zeros(lenTX) ++ <<0, header(9, CmdSetNet)>>
        ++ <<32, r.mac>> ++ <<40, r.ip>> ++ <<44, r.mask>> ++ <<48, r.gw>>
        ++ <<84, EncodePassword(pw)>> ++ <<112, r.dns1>> ++ <<116, r.dns2>>

Request ==
    [mac : Bytes, ip : Bytes, mask : Bytes, gw : Bytes, dns1 : Bytes, dns2 : Bytes]

BuildSetNetwork(r, pw) ==
    IF /\ Len(r.mac) = 6
       /\ \A a \in {r.ip, r.mask, r.gw, r.dns1, r.dns2} : Is4(a)
       /\ PasswordFits(pw)
    THEN SetPacket(r, pw) ELSE Nil

-----------------------------------------------------------------------------
(* What a device sends.  A build date is empty or year, month and day, which
   Sscanf reads with at most four, two and two digits.                       *)

Date == {b \in Seq(Nat) : Len(b) = 3 => b[1] < 10000 /\ b[2] < 100 /\ b[3] < 100}

Device ==
    [mac : Bytes, ip : Bytes, mask : Bytes, gw : Bytes, dns1 : Bytes, dns2 : Bytes,
     name : Chars, serial : Chars, firmware : Chars, model : Chars, vendor : Chars,
     http : Word, rtsp : Word, build : Date]

Fits(s, n) == Len(s) <= n - 1

BuildAnnounce(d) ==
    IF /\ Len(d.mac) = 6
       /\ \A a \in {d.ip, d.mask, d.gw, d.dns1, d.dns2} : Is4(a)
       /\ Fits(d.name, 20)
       /\ \A s \in {d.serial, d.firmware, d.model, d.vendor} : Fits(s, 16)
       /\ Len(d.build) \in {0, 3}
    THEN Zeros(lenAnnounce) ++ <<0, header(8, CmdAnnounce)>>
            ++ <<32, d.mac>> ++ <<40, d.ip>> ++ <<44, d.mask>> ++ <<48, d.gw>>
            ++ <<112, d.dns1>> ++ <<116, d.dns2>> ++ <<12, d.name>>
            ++ <<140, d.serial>> ++ <<156, d.firmware>> ++ <<196, d.model>>
            ++ <<212, d.vendor>> ++ <<60, Le16(d.http)>> ++ <<62, Le16(d.rtsp)>>
            ++ <<56, IF d.build = Nil THEN Nil
                     ELSE Le32((d.build[1] * 100 + d.build[2]) * 100 + d.build[3])>>
    ELSE Nil

BuildSetAck(requester, port) ==
    IF Is4(requester)
    THEN Zeros(lenTX) ++ <<0, header(8, CmdSetAck)>>
            ++ <<12, requester>> ++ <<16, Le16(port)>>
    ELSE Nil

-----------------------------------------------------------------------------
(* What the tool reads *)

(* Mistake: December is no month. *)
buildDate_December(v) ==
    LET y == v \div 10000  m == (v \div 100) % 100  d == v % 100
    IN  IF y \in 2000..2099 /\ m \in 1..11 /\ d \in 1..31 THEN <<y, m, d>> ELSE Nil

buildDate(v) ==
    LET y == v \div 10000  m == (v \div 100) % 100  d == v % 100
    IN  IF y \in 2000..2099 /\ m \in 1..12 /\ d \in 1..31 THEN <<y, m, d>> ELSE Nil

IsAnnounce(pkt) == Command(pkt) = CmdAnnounce /\ Len(pkt) >= lenAnnounce

ParseAnnounce(pkt) ==
    [mac |-> Field(pkt, 32, 6), ip |-> Field(pkt, 40, 4), mask |-> Field(pkt, 44, 4),
     gw |-> Field(pkt, 48, 4), dns1 |-> Field(pkt, 112, 4), dns2 |-> Field(pkt, 116, 4),
     name |-> Cstr(Field(pkt, 12, 20)), serial |-> Cstr(Field(pkt, 140, 16)),
     firmware |-> Cstr(Field(pkt, 156, 16)), model |-> Cstr(Field(pkt, 196, 16)),
     vendor |-> Cstr(Field(pkt, 212, 16)), http |-> Uint16(Field(pkt, 60, 2)),
     rtsp |-> Uint16(Field(pkt, 62, 2)), build |-> buildDate(Uint32(Field(pkt, 56, 4)))]

IsSetAck(pkt) == Command(pkt) = CmdSetAck /\ Len(pkt) >= 18

ParseSetAck(pkt) == [ip |-> Field(pkt, 12, 4), port |-> Uint16(Field(pkt, 16, 2))]

-----------------------------------------------------------------------------
(* What the camera reads *)

IsSetNetwork(pkt, mac) ==
    Command(pkt) = CmdSetNet /\ Len(pkt) >= 140 /\ Field(pkt, 32, 6) = mac

RightPassword(pkt, pw) == Cstr(Field(pkt, 84, 28)) = Base64(pw)

(* The camera's record after a command it accepts. *)
Reconfigured(d, pkt) ==
    [d EXCEPT !.ip = Field(pkt, 40, 4), !.mask = Field(pkt, 44, 4),
              !.gw = Field(pkt, 48, 4), !.dns1 = Field(pkt, 112, 4),
              !.dns2 = Field(pkt, 116, 4)]
=============================================================================
