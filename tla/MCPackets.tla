------------------------------ MODULE MCPackets ------------------------------
(***************************************************************************)
(* Command lines, interfaces, cameras and captures.  Most vary one thing   *)
(* about a plain request: give camera 02:00:00:00:00:01 the address        *)
(* 10.0.0.5/24 with gateway 10.0.0.1.                                      *)
(***************************************************************************)
EXTENDS PacketPath

mac0  == <<2, 0, 0, 0, 0, 1>>
gw0   == <<10, 0, 0, 1>>
eight == <<8, 8, 8, 8>>
admin == <<97, 100, 109, 105, 110>>

Long(k, t) == <<<<"flag", k>>, t>>
Glued(k, t) == <<<<"flag=", k, t>>>>
Flag(k) == <<<<"flag", k>>>>
A(ip) == <<"addr", ip>>
T(s)  == <<"other", s>>

-----------------------------------------------------------------------------
(* Interfaces *)

Iface(name, fault, addrs) ==
    [name |-> T(<<name>>), up |-> fault # "down", loopback |-> fault = "loopback",
     multicast |-> fault # "no multicast", tunnel |-> fault \in {"no multicast", "tunnel"},
     addrs |-> addrs]
At(ip, bits) == [ip |-> ip, bits |-> bits]

Wired == Iface(1, "none", <<At(Zeros(16), 64), At(<<10, 0, 0, 2>>, 24)>>)
Wifi  == Iface(2, "none", <<At(<<192, 168, 1, 2>>, 24), At(<<10, 0, 0, 130>>, 25)>>)
Other == {Iface(3, f, <<At(<<172, 16, 0, 2>>, 30)>>) :
            f \in {"none", "down", "loopback", "no multicast", "tunnel"}}
         \cup {Iface(3, f, << >>) : f \in {"none", "tunnel"}}
Home  == <<Wired>>

Machines == {<< >>, <<Wired, Wifi>>} \cup {<<o>> : o \in Other}
                \cup {<<Wifi, o, Wired>> : o \in Other}

-----------------------------------------------------------------------------
(* Command lines *)

Want(ip, mask, gw) == [mac |-> mac0, ip |-> ip, mask |-> mask, gw |-> gw,
                       dns1 |-> gw, dns2 |-> eight]
Want0 == Want(<<10, 0, 0, 5>>, <<255, 255, 255, 0>>, gw0)

Basic(w) == <<Long("mac", <<"mac", w.mac>>), Long("ip", A(w.ip)), Glued("mask", A(w.mask)),
              Long("gw", A(w.gw))>>
Pw == <<Long("password", T(admin))>>

Set(said, want) == [verb |-> "set", settings |-> said, rest |-> << >>, stdin |-> Nil,
                    tty |-> FALSE, stty |-> FALSE, os |-> Home, want |-> want, pw |-> admin]
Plain == Set(Pw \o Basic(Want0), Want0)

Masks == {MaskOf(n) : n \in {0, 1, 8, 9, 24, 30, 31, 32}}
            \cup {<<255, 0, 255, 0>>, <<0, 255, 255, 255>>, <<255, 255, 254, 1>>, Zeros(16), Nil}
Hosts == {<<0, 0, 0, 0>>, <<255, 255, 255, 255>>, <<10, 0, 0, 0>>, <<10, 0, 0, 255>>,
          <<10, 0, 0, 4>>, <<10, 0, 0, 7>>, <<10, 128, 0, 0>>, <<127, 255, 255, 255>>,
          <<10, 255, 255, 255>>, Zeros(16)}
Subnets == {Set(Pw \o Basic(w), w) : w \in {Want(h, m, gw0) : h \in Hosts, m \in Masks}}

Spelled(more, want) == Set(Pw \o Basic(Want0) \o more, want)
Spellings ==
    {Spelled(<<Long("dns1", A(eight))>>, [Want0 EXCEPT !.dns1 = eight]),
     Spelled(<<Glued("dns2", A(gw0))>>, [Want0 EXCEPT !.dns2 = gw0]),
     Spelled(<<Glued("ip", A(<<10, 0, 0, 6>>))>>, [Want0 EXCEPT !.ip = <<10, 0, 0, 6>>]),
     Spelled(<<Long("gw", A(eight))>>, Want(Want0.ip, Want0.mask, eight)),
     Spelled(<<Long("gw", A(Zeros(16)))>>, Want(Want0.ip, Want0.mask, Zeros(16))),
     Spelled(<<Long("dns2", A(Zeros(16)))>>, [Want0 EXCEPT !.dns2 = Zeros(16)]),
     Spelled(<<Flag("force"), Flag("dump"), Glued("timeout", T(<<49>>))>>, Want0),
     [Spelled(<<Long("password", <<"flag", "force">>)>>, Want0) EXCEPT !.pw = Dashes[2]],
     Spelled(<<Long("mac", <<"mac", Zeros(8)>>)>>, [Want0 EXCEPT !.mac = Zeros(8)]),
     Spelled(<<Long("dns1", <<"flag", "force">>)>>, Want0),
     Spelled(<<Glued("ip", T(<<49>>))>>, Want0),
     [Plain EXCEPT !.rest = <<T(<<49>>)>>],
     [Plain EXCEPT !.rest = <<T(<<49>>)>> \o Glued("ip", A(eight))],
     [Plain EXCEPT !.rest = Flag("dns1")],
     Set(<<Flag("force")>> \o Basic(Want0) \o Pw, Want0),
     Set(Pw, Want0), Set(<<Long("mac", <<"mac", mac0>>)>> \o Pw, Want0)}

Letters(n) == [i \in 1..n |-> IF i % 3 = 1 THEN 255 ELSE 64 + i]
Passwords ==
    {[Set(Append(Basic(Want0), Glued("password", T(Letters(n)))), Want0) EXCEPT !.pw = Letters(n)] :
        n \in {0, 1, 2, 3, 20, 21, 22, 28}}
    \cup {[Set(Basic(Want0), Want0) EXCEPT !.stdin = Letters(n) \o end, !.pw = Letters(n),
                                            !.tty = t[1], !.stty = t[2]] :
        n \in {0, 5, 21, 22}, end \in {Nil, <<10>>, <<13, 10>>, <<10, 65, 10>>},
        t \in {<<FALSE, FALSE>>, <<TRUE, FALSE>>, <<TRUE, TRUE>>}}

Places == {[Spelled(i, [Want0 EXCEPT !.ip = h]) EXCEPT !.os = m,
                    !.settings = Append(@, Long("ip", A(h)))] :
    m \in Machines,
    h \in {Want0.ip, <<192, 168, 1, 9>>, <<10, 0, 0, 200>>, <<99, 9, 9, 9>>},
    i \in {<< >>} \cup {<<s>> : s \in
            {Long("iface", T(<<2>>)), Glued("iface", T(<<3>>)), Glued("iface", Empty),
             Long("iface", A(<<10, 0, 0, 2>>)), Long("iface", A(<<99, 9, 9, 9>>))}}}

Lists == {[Plain EXCEPT !.verb = "interfaces", !.settings = << >>, !.rest = r, !.os = m] :
            m \in Machines, r \in {<< >>, Flag("json"), Flag("iface"), <<T(<<49>>)>>}}

Verbs == {[Plain EXCEPT !.verb = v] : v \in {"", "help", "version", "discover"}}

MCRuns == {Plain} \cup Verbs
            \cup Subnets \cup Spellings \cup Passwords \cup Places \cup Lists

-----------------------------------------------------------------------------
(* Cameras *)

Dev0 == [mac |-> mac0, ip |-> <<192, 168, 1, 69>>, mask |-> MaskOf(24), gw |-> gw0,
         dns1 |-> gw0, dns2 |-> eight, name |-> Letters(7), serial |-> Letters(12),
         firmware |-> Letters(11), model |-> Letters(9), vendor |-> Letters(4), http |-> 80,
         rtsp |-> 65535, build |-> <<2026, 1, 1>>]
Devices ==
    {Dev0, [Dev0 EXCEPT !.mac = <<2, 0, 0, 0, 0, 2>>], [Dev0 EXCEPT !.dns1 = Zeros(16)]}
    \cup {[Dev0 EXCEPT !.name = Letters(n)] : n \in {0, 20}}
    \cup {[Dev0 EXCEPT !.name = Letters(n + 4), !.serial = Letters(n), !.model = Letters(n),
                       !.vendor = Letters(n), !.firmware = Letters(n)] : n \in {15, 16}}
    \cup {[Dev0 EXCEPT !.build = b] :
            b \in {Nil, <<1>>, <<2000, 1, 1>>, <<2099, 12, 31>>, <<1999, 12, 31>>,
                   <<2100, 1, 1>>, <<2026, 13, 1>>, <<2026, 0, 9>>, <<2026, 5, 32>>}}

MCCameras == {[dev |-> Dev0, pw |-> p] : p \in {Nil, Letters(1), Letters(20), Letters(21), Letters(22)}}
                \cup {[dev |-> d, pw |-> admin] : d \in Devices}

-----------------------------------------------------------------------------
(* Captures *)

Be16(n) == <<n \div 256, n % 256>>
Udp(p) == Be16(Port) \o Be16(23456) \o Be16(8 + Len(p)) \o <<0, 0>> \o p
Ip(ver, words, proto, udp) ==
    <<16 * ver + 5 + words, 0>> \o Be16(20 + 4 * words + Len(udp)) \o <<0, 0, 0, 0, 1, proto, 0, 0>>
        \o <<10, 0, 0, 2>> \o <<234, 55, 55, 55>> \o Zeros(4 * words) \o udp
Ether(type, ip) == Zeros(12) \o type \o ip
IPv4 == <<8, 0>>
Vlan == <<129, 0, 0, 7, 8, 0>>

Blk(type) == [type |-> type, order |-> "little", size |-> "ok", link |-> 0, iface |-> 0,
              claims |-> 0, data |-> Nil, tail |-> 4, carries |-> {}]
Pkt(type, data, p) == [Blk(type) EXCEPT !.data = data, !.claims = Len(data), !.carries = p]
On(b, i) == [b EXCEPT !.iface = i]
Section(o) == [Blk("section") EXCEPT !.order = o]
Link(l) == [Blk("interface") EXCEPT !.link = l]
Big(blocks) == [i \in DOMAIN blocks |-> [blocks[i] EXCEPT !.order = "big"]]

OnEther(p)  == Pkt("enhanced", Ether(IPv4, Ip(4, 0, 17, Udp(p))), {p})
OnVlan(p)   == Pkt("enhanced", Ether(Vlan, Ip(4, 0, 17, Udp(p))), {p})
OnRaw(p)    == Pkt("enhanced", Ip(4, 0, 17, Udp(p)), {p})
OnLoop(p)   == Pkt("enhanced", Zeros(4) \o Ip(4, 0, 17, Udp(p)), {p})
Options(p)  == Pkt("enhanced", Ether(IPv4, Ip(4, 2, 17, Udp(p))), {p})
Padded(p)   == Pkt("enhanced", Ether(IPv4, Ip(4, 0, 17, Udp(p))) \o Zeros(6), {p})
Trailer(p)  == Pkt("enhanced", Ether(IPv4, Ip(4, 0, 17, Udp(p) \o <<9>>)), {p})
Cut(p, n)   == Pkt("enhanced", SubSeq(Ether(IPv4, Ip(4, 0, 17, Udp(p))), 1, n), {})
Tcp(p)      == Pkt("enhanced", Ether(IPv4, Ip(4, 0, 6, Udp(p))), {})
Six(p)      == Pkt("enhanced", Ether(IPv4, Ip(6, 0, 17, Udp(p))), {})
Arp         == Pkt("enhanced", Ether(<<8, 6>>, Zeros(28)), {})
As(type, b) == [b EXCEPT !.type = type]
Claims(b, n) == [b EXCEPT !.claims = n, !.tail = 40]

Ng(blocks) == [format |-> "pcapng", link |-> 0, blocks |-> blocks]
Pcap(l, blocks) == [format |-> "pcap", link |-> l,
                    blocks |-> [i \in DOMAIN blocks |-> As("record", blocks[i])]]
Eth == <<Section("little"), Link(1)>>

Files(search, set, ak, ann) ==
    {Ng(Eth \o <<OnEther(search), Arp, OnVlan(set), Tcp(set), Options(ak), Blk("other"),
                 Padded(<<1, 2>>), Trailer(set), Six(set), OnEther(ann)>>),
     Ng(Eth \o <<OnEther(set ++ <<20, <<1>>>>), OnEther(Append(set, 0)),
                 OnEther(SubSeq(set, 1, 130)), OnEther(SubSeq(set, 1, 100)),
                 OnEther(SubSeq(ann, 1, 200)), OnEther(set ++ <<84, <<90>>>>),
                 OnEther(set ++ <<111, <<90>>>>)>>),
     Ng(Eth \o <<Link(101), Arp, On(OnRaw(set), 1)>>
            \o Big(<<Section("big"), Link(0), OnLoop(set), As("simple", OnLoop(ann))>>)
            \o <<Section("little"), As("simple", OnEther(ak))>>),
     Ng(Eth \o <<Cut(set, 13), Cut(set, 33), Cut(set, 60), OnEther(Nil), OnEther(set)>>),
     Ng(<<Section("big"), Link(1)>>), Ng(<<Section("little"), Link(0), Pkt("enhanced", <<1>>, {})>>),
     Ng(Eth \o <<OnEther(set), [Arp EXCEPT !.size = "short"]>>),
     Ng(Eth \o <<OnEther(set), [Arp EXCEPT !.size = "long"]>>),
     Ng(Eth \o <<Claims(Arp, 50), Claims(OnEther(set), 900)>>),
     Pcap(1, <<OnVlan(set), Arp, OnEther(ann), [OnEther(set) EXCEPT !.size = "long"]>>),
     Pcap(101, <<OnRaw(set)>>), Pcap(105, <<[OnRaw(set) EXCEPT !.carries = {}]>>),
     [format |-> "text", link |-> 0, blocks |-> << >>]}

Plainly == <<BuildSearch, SetPacket(Want0, admin), BuildSetAck(<<10, 0, 0, 2>>, Port),
             BuildAnnounce(Reconfigured(Dev0, SetPacket(Want0, admin)))>>

PlainFiles == Files(Plainly[1], Plainly[2], Plainly[3], Plainly[4])

(* Each capture is what it says, but for the one whose lengths are made up. *)
ASSUME CapturesAreTruthful ==
    {f \in PlainFiles : ~ Truthful(f)}
        = {Ng(Eth \o <<Claims(Arp, 50), Claims(OnEther(Plainly[2]), 900)>>)}

(* Only what the plain request comes to at the plain camera is captured. *)
MCCapturesOf(p) == IF p = Plainly THEN PlainFiles ELSE {}
=============================================================================
