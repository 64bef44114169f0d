--------------------------- MODULE IfaceSelection ---------------------------
(***************************************************************************)
(* Which interfaces a command uses: Interfaces, whyUnusable and Choose of  *)
(* internal/discovery/discovery.go.  The operating system's interfaces are *)
(* a sequence of [name, up, loopback, multicast, tunnel, addrs], addrs a   *)
(* sequence of [ip, bits].                                                 *)
(***************************************************************************)
EXTENDS NetConfig

Interface ==
    [name : Text, up : BOOLEAN, loopback : BOOLEAN, multicast : BOOLEAN,
     tunnel : BOOLEAN, addrs : Seq([ip : Bytes, bits : Nat])]

Carries(in) == in.up /\ ~ in.loopback /\ in.multicast

(* One entry per IPv4 address of an interface that can carry the protocol. *)
Interfaces(os) ==
    FlattenSeq([i \in DOMAIN os |->
        LET of(a) == IF Carries(os[i]) /\ Is4(a.ip)
                     THEN <<[name |-> os[i].name, ip |-> a.ip, bits |-> a.bits]>>
                     ELSE << >>
        IN  FlattenSeq([j \in DOMAIN os[i].addrs |-> of(os[i].addrs[j])])])

(* Mistake: that multicast is missing goes unnoticed. *)
whyUnusable_Address(os, name) ==
    LET in == CHOOSE i \in ToSet(os) : i.name = name
    IN  IF \A i \in ToSet(os) : i.name # name THEN "unknown"
        ELSE IF ~ in.up THEN "down" ELSE IF in.loopback THEN "loopback" ELSE "no address"

whyUnusable(os, name) ==
    LET in == CHOOSE i \in ToSet(os) : i.name = name
    IN  CASE \A i \in ToSet(os) : i.name # name -> "unknown"
          [] ~ in.up                            -> "down"
          [] in.up /\ in.loopback               -> "loopback"
          [] in.up /\ ~ in.loopback /\ (~ in.multicast \/ in.tunnel) -> "tunnel"
          [] OTHER                              -> "no address"

(* Those of all, in their order, that P holds of. *)
Those(all, P(_)) ==
    FlattenSeq([i \in DOMAIN all |-> IF P(all[i]) THEN <<all[i]>> ELSE << >>])

(* --iface names one of them, or has its address. *)
ByArgument(all, arg) ==
    IF ParseAddr(arg) = Nil THEN Those(all, LAMBDA i : i.name = arg)
    ELSE LET sel == Those(all, LAMBDA i : i.ip = ParseAddr(arg))
         IN  IF sel = << >> THEN sel ELSE <<sel[1]>>

(* Mistake: one interface is enough. *)
Preferred_First(all, ip) ==
    LET sel == Those(all, LAMBDA i : InPrefix(ip, i.ip, i.bits))
    IN  IF sel # << >> THEN <<sel[1]>> ELSE all

(* Those whose subnet holds the new address, if there are any. *)
Preferred(all, ip) ==
    LET sel == Those(all, LAMBDA i : InPrefix(ip, i.ip, i.bits))
    IN  IF sel # << >> THEN sel ELSE all

(* prefer is the new address of set, or Nil for the other commands. *)
Choose(os, arg, prefer) ==
    LET all == Interfaces(os)
    IN  IF arg # Empty THEN ByArgument(all, arg)
        ELSE IF prefer # Nil THEN Preferred(all, prefer)
        ELSE all
=============================================================================
