---------------------------- MODULE CommandLine ----------------------------
(***************************************************************************)
(* ipcprobe from its command line to the packet it sends: run, the checks  *)
(* of cmdSet, cmdInterfaces (cmd/ipcprobe/main.go) and readPassword        *)
(* (password.go).  What cmdSet does on the network between these steps is  *)
(* SetSession's; list and show are ListSession's.                          *)
(***************************************************************************)
EXTENDS IfaceSelection

CONSTANTS
    Runs    \* the ways ipcprobe is started

(* No two interfaces of a machine have the same name, and none is called like
   an address.                                                               *)
OneNameEach(os) ==
    /\ \A i \in DOMAIN os : os[i].name[1] = "other" /\ os[i].name # Empty
    /\ \A i, j \in DOMAIN os : os[i].name = os[j].name => i = j

(* The flags of set that take no value. *)
switches == {"force", "dump"}

(* Any arguments are settings, each --key=value, --key value or a flag
   that takes no value, and a rest.                                          *)
IsSetting(s) ==
    \/ Len(s) = 1 /\ s[1][1] = "flag="
    \/ Len(s) = 1 /\ s[1][1] = "flag" /\ s[1][2] \in switches
    \/ Len(s) = 2 /\ s[1][1] = "flag" /\ s[1][2] \notin switches

Key(s)   == s[1][2]
Value(s) ==
    IF Len(s) = 2 THEN IF IsText(s[2]) THEN s[2] ELSE Dashes
    ELSE IF s[1][1] = "flag=" THEN s[1][3] ELSE True

(* The rest, if there is any, begins with a text that no flag takes, or is a
   flag that lacks its value.                                                *)
IsRest(t) ==
    \/ t = << >>
    \/ IsText(t[1])
    \/ Len(t) = 1 /\ t[1][1] = "flag" /\ t[1][2] \notin switches

Args(r) == FlattenSeq(r.settings) \o r.rest

(* The last value counts. *)
Said(says, k) == {i \in DOMAIN says : Key(says[i]) = k}
Told(says, k) == IF Said(says, k) = {} THEN Empty ELSE Value(says[Max(Said(says, k))])

(* A password that is typed goes up to the end of the line or the input. *)
Typed(pw, s) ==
    /\ Len(pw) <= Len(s)
    /\ \A i \in DOMAIN pw : s[i] = pw[i] /\ pw[i] # 10
    /\ pw # Nil => pw[Len(pw)] # 13
    /\ \E m \in Len(pw)..Len(s) :
        /\ \A i \in Len(pw) + 1..m : s[i] = 13
        /\ m < Len(s) => s[m + 1] = 10

(* What the operator of a set means is what is said and, for a DNS server that
   is not mentioned, the gateway and 8.8.8.8 (ARCHITECTURE.md:253).          *)
MeansWhatIsSaid(r) ==
    LET told(k) == Told(r.settings, k)
        unsaid(k) == Said(r.settings, k) = {}
    IN  /\ told("mac")[1] = "mac" => r.want.mac = told("mac")[2]
        /\ told("ip")[1] = "addr" => r.want.ip = told("ip")[2]
        /\ told("mask")[1] = "addr" => r.want.mask = told("mask")[2]
        /\ told("gw")[1] = "addr" => r.want.gw = told("gw")[2]
        /\ told("dns1")[1] = "addr" => r.want.dns1 = told("dns1")[2]
        /\ told("dns2")[1] = "addr" => r.want.dns2 = told("dns2")[2]
        /\ unsaid("dns1") => r.want.dns1 = r.want.gw
        /\ unsaid("dns2") => r.want.dns2 = <<8, 8, 8, 8>>
        /\ IF unsaid("password") THEN Typed(r.pw, r.stdin)
           ELSE r.pw = told("password")[2]

Run == [verb : STRING \ {"list", "show"}, settings : Seq(Seq(Argument)),
        rest : Seq(Argument), stdin : Bytes, tty : BOOLEAN, stty : BOOLEAN,
        os : Seq(Interface), want : Request, pw : Bytes]

(* How the settings and the rest make up the arguments restricts nothing; what
   the operator of a set means is to be what they say.                       *)
ASSUME RunsAssumption ==
    /\ Runs \subseteq Run
    /\ \A r \in Runs :
        /\ OneNameEach(r.os)
        /\ \A i \in DOMAIN r.settings : IsSetting(r.settings[i])
        /\ IsRest(r.rest)
        /\ r.verb = "set" => MeansWhatIsSaid(r)

(***************************************************************************)
(* verb        the command, "" if there is none                            *)
(* settings,   its arguments                                               *)
(* rest                                                                    *)
(* stdin       the bytes to read from it                                   *)
(* tty, stty   it is a terminal; stty can change it                        *)
(* os          the operating system's interfaces                           *)
(* want, pw    what the operator means by it: the request and the password *)
(***************************************************************************)
VARIABLES
    given,      \* how it was started, one of Runs
    stage,      \* where it is
    flags,      \* the parsed flags
    password,
    echo,       \* the terminal shows what is typed
    chosen,     \* the interfaces it lists, or uses
    sent,       \* the set-network packet, Nil before
    code        \* the exit code; -1 before, and for one that was interrupted

(* The types, and that an exit code is only about where one is decided. *)
CliTypeOK ==
    /\ given \in Runs
    /\ stage \in {"run", "prompt", "read", "restore", "encode", "choose", "build",
                  "sent", "exit", "interrupted"}
    /\ echo \in BOOLEAN
    /\ \A i \in DOMAIN password : password[i] \in Byte
    /\ Len(sent) \in {0, lenTX} /\ \A i \in DOMAIN sent : sent[i] \in Byte
    /\ stage = "exit" <=> code \in {0, 1, 2} /\ stage \notin {"restore", "encode"}
    /\ code \in {-1, 0, 1, 2}
    /\ sent # Nil => stage = "sent"

cliVars == <<given, stage, flags, password, echo, chosen, sent, code>>

CliInit ==
    /\ given \in Runs
    /\ stage = "run"
    /\ flags = parseFlags(<< >>, {})
    /\ password = Nil
    /\ echo = TRUE
    /\ chosen = << >>
    /\ sent = Nil
    /\ code = -1

Exit(c) == stage' = "exit" /\ code' = c

-----------------------------------------------------------------------------

(* What run answers by itself, with the usage or the version. *)
inquiries == {"-h", "--help", "help", "--version", "version"}

Inquire ==
    /\ stage = "run"
    /\ given.verb \in inquiries
    /\ Exit(0)
    /\ UNCHANGED <<given, flags, password, echo, chosen, sent>>

UnknownCommand ==
    /\ stage = "run"
    /\ given.verb \notin {"set", "interfaces"} \cup inquiries
    /\ Exit(2)
    /\ UNCHANGED <<given, flags, password, echo, chosen, sent>>

(* cmdInterfaces.  Asking the operating system for its interfaces may fail;
   an empty list is an error too, but not as JSON.                           *)
ListInterfaces ==
    LET f == parseFlags(Args(given), {"json"})
    IN  /\ stage = "run"
        /\ given.verb = "interfaces"
        /\ \/ ~ FlagsOK(f) /\ Exit(2) /\ UNCHANGED chosen
           \/ FlagsOK(f) /\ Exit(1) /\ UNCHANGED chosen
           \/ /\ FlagsOK(f)
              /\ chosen' = Interfaces(given.os)
              /\ Exit(IF chosen' = << >> /\ ~ has(f, "json") THEN 1 ELSE 0)
        /\ UNCHANGED <<given, flags, password, echo, sent>>

(* All checks come before the password, and the password before the network. *)
CheckArguments ==
    /\ stage = "run"
    /\ given.verb = "set"
    /\ flags' = parseFlags(Args(given), switches)
    /\ IF ~ FlagsOK(flags') \/ ~ Valid(Asked(flags'))
       THEN Exit(2) /\ UNCHANGED password
       ELSE /\ stage' = IF has(flags', "password") THEN "encode"
                        ELSE IF given.tty THEN "prompt" ELSE "read"
            /\ password' = str(flags', "password")[2]
            /\ UNCHANGED code
    /\ UNCHANGED <<given, echo, chosen, sent>>

DisableEcho ==
    /\ stage = "prompt"
    /\ echo' = ~ given.stty
    /\ stage' = "read"
    /\ UNCHANGED <<given, flags, password, chosen, sent, code>>

(* The line read, with its newline if there is one. *)
Line(s) ==
    IF \A i \in DOMAIN s : s[i] # 10 THEN s
    ELSE SubSeq(s, 1, CHOOSE i \in DOMAIN s : s[i] = 10 /\ \A j \in 1..i-1 : s[j] # 10)

(* Mistake: a carriage return stays. *)
TrimRight_Newline(s) == SelectSeq(s, LAMBDA c : c # 10)

(* Trailing newlines and carriage returns go. *)
TrimRight(s) ==
    LET kept == {i \in DOMAIN s : s[i] \notin {10, 13}}
    IN  IF kept = {} THEN Nil ELSE SubSeq(s, 1, Max(kept))

(* Mistake: at the end of the input the terminal is left as it is. *)
ReadLine_NoRestore ==
    /\ stage = "read"
    /\ password' = TrimRight(Line(given.stdin))
    /\ IF Line(given.stdin) = Nil THEN Exit(2)
       ELSE stage' = (IF given.tty THEN "restore" ELSE "encode") /\ UNCHANGED code
    /\ UNCHANGED <<given, flags, echo, chosen, sent>>

(* readLine fails at the end of an empty input only; the deferred restore runs
   all the same.                                                             *)
ReadLine ==
    /\ stage = "read"
    /\ password' = TrimRight(Line(given.stdin))
    /\ stage' = IF given.tty THEN "restore" ELSE "encode"
    /\ code' = IF Line(given.stdin) = Nil THEN 2 ELSE code
    /\ UNCHANGED <<given, flags, echo, chosen, sent>>

(* Ctrl-C at the prompt ends the process, and no deferred call runs. *)
Interrupt ==
    /\ stage = "read"
    /\ given.tty
    /\ stage' = "interrupted"
    /\ UNCHANGED <<given, flags, password, echo, chosen, sent, code>>

RestoreEcho ==
    /\ stage = "restore"
    /\ echo' = TRUE
    /\ stage' = "encode"
    /\ UNCHANGED <<given, flags, password, chosen, sent, code>>

(* Mistake: that nothing could be read goes unnoticed. *)
CheckPassword_Unread ==
    /\ stage = "encode"
    /\ IF PasswordFits(password) THEN stage' = "choose" /\ UNCHANGED code ELSE Exit(2)
    /\ UNCHANGED <<given, flags, password, echo, chosen, sent>>

CheckPassword ==
    /\ stage = "encode"
    /\ IF code = -1 /\ PasswordFits(password)
       THEN stage' = "choose" /\ UNCHANGED code
       ELSE Exit(2)
    /\ UNCHANGED <<given, flags, password, echo, chosen, sent>>

ChooseInterfaces ==
    /\ stage = "choose"
    /\ \/ /\ chosen' = Choose(given.os, str(flags, "iface"), Asked(flags).ip)
          /\ IF chosen' = << >> THEN Exit(1) ELSE stage' = "build" /\ UNCHANGED code
       \/ UNCHANGED chosen /\ Exit(1)     \* the interfaces cannot be listed
    /\ UNCHANGED <<given, flags, password, echo, sent>>

BuildPacket ==
    /\ stage = "build"
    /\ sent' = BuildSetNetwork(Asked(flags), password)
    /\ IF sent' = Nil THEN Exit(1) ELSE stage' = "sent" /\ UNCHANGED code
    /\ UNCHANGED <<given, flags, password, echo, chosen>>

CliStep ==
    \/ Inquire \/ UnknownCommand \/ ListInterfaces \/ CheckArguments
    \/ DisableEcho \/ ReadLine \/ Interrupt \/ RestoreEcho
    \/ CheckPassword \/ ChooseInterfaces \/ BuildPacket

(* The packet as --dump prints it; -1 is a hidden byte. *)
dumpMasked(pkt) == [i \in DOMAIN pkt |-> IF i \in 85..112 THEN -1 ELSE pkt[i]]

-----------------------------------------------------------------------------
(* Properties *)

Bit(a, i) == (a[i \div 8 + 1] \div 2^(7 - (i % 8))) % 2

(* maskToPrefix and broadcast: what is sent is a contiguous mask and, in a
   subnet that has room for hosts, the address of one: among its host bits,
   taken one by one, there are a 0 and a 1.                                  *)
OnlyHostsAreAsked ==
    sent # Nil =>
        LET ip == Field(sent, 40, 4)  mask == Field(sent, 44, 4)
            host == {i \in 0..31 : Bit(mask, i) = 0}
        IN  /\ \A i \in host : \A j \in i..31 : j \in host
            /\ Cardinality(host) > 1 => {Bit(ip, i) : i \in host} = {0, 1}

(* A packet asks for what the operator meant, however it was spelled: each
   flag with its last value, "uniform" for --flag value and --flag=value
   (main.go:66), the documented defaults, and the password as typed.         *)
SaysWhatWasMeant == sent # Nil => sent = BuildSetNetwork(given.want, given.pw)

(* Unless it was interrupted, ipcprobe leaves no terminal without echo, also
   when the input ends at once.                                              *)
EchoIsBack == stage \notin {"read", "restore", "interrupted"} => echo

(* An `interfaces` that succeeds lists "the same set --iface accepts"
   (main.go:353), by name and by address; and on all of these a set that names
   none looks for the camera, but for those whose subnet does not hold the new
   address when another's does.                                              *)
ListsWhatItAccepts ==
    stage = "exit" /\ given.verb = "interfaces" /\ code = 0 =>
        LET listed == ToSet(chosen)
            addrs  == UNION {{a.ip : a \in ToSet(in.addrs)} : in \in ToSet(given.os)}
            holds(l, ip) == InPrefix(ip, l.ip, l.bits)
        IN  /\ \A in \in ToSet(given.os) :
                ToSet(Choose(given.os, in.name, Nil)) = {l \in listed : l.name = in.name}
            /\ \A a \in addrs :
                {l.ip : l \in ToSet(Choose(given.os, <<"addr", a>>, Nil))}
                    = {l.ip : l \in listed} \cap {a}
            /\ \A ip \in addrs \cup {given.want.ip} : \A l \in listed :
                LET used == ToSet(Choose(given.os, Empty, ip))
                IN  l \in used \/ (~ holds(l, ip) /\ \E k \in used : holds(k, ip))

(* Told that it only lacks an address, one gives it an address and uses it. *)
ReasonExplains ==
    \A i \in DOMAIN given.os :
        LET in == given.os[i]
            fixed == [given.os EXCEPT ![i].addrs = <<[ip |-> <<10, 9, 8, 7>>, bits |-> 24]>>]
        IN  /\ Choose(given.os, in.name, Nil) = << >>
            /\ whyUnusable(given.os, in.name) = "no address"
            => Choose(fixed, in.name, Nil) # << >>
=============================================================================
