---------------------------- MODULE SetInvariant ----------------------------
(***************************************************************************)
(* Why the safety properties of cmdSet hold: the inductive invariants its  *)
(* proofs rest on.                                                         *)
(***************************************************************************)
EXTENDS SetRefines

Target == req.mac

(* d has the address the operator asked for. *)
AtGoal(d) == ipOf[d] = ipOf[req.cfg]

(* No command is on its way but ours and those of the other tools, and a
   camera only works on its own.                                            *)
KnownCommand(m) == m.type = "setnet" => m = SetCommand \/ m \in OtherSets

CommandsKnown ==
    \A c \in Camera :
        /\ \A i \in DOMAIN inbox[c] : KnownCommand(inbox[c][i])
        /\ cmdPc[c] \in {"ack", "apply"} => KnownCommand(pkt[c]) /\ pkt[c].mac = c

(* The camera is as it was, or took our command. *)
TargetIsOurs ==
    Target \in Camera =>
        \/ dev[Target] = factory[Target] /\ log[Target] = << >>
        \/ dev[Target] = req.cfg /\ log[Target] # << >> /\ req.pw = password[Target]

(* Word that the camera is at the goal, wherever it is on its way, is true:
   once there it stays there, so a stale announcement cannot mislead.       *)
Honest(c, d) == c = Target /\ AtGoal(d) => AtGoal(dev[Target])

HonestDatagram(m) == m.type = "announce" => Honest(m.mac, m.cfg)

SnapsHonest ==
    \A c \in Camera : annPc[c] = "send" => Honest(c, snap[c])

BuffersHonest ==
    \A s \in Sock : \A i \in DOMAIN rx[s] : HonestDatagram(rx[s][i])

HeldHonest ==
    \A s \in Sock : wk[s] = "merge" => HonestDatagram(held[s])

DevicesHonest ==
    \A m \in Mac : devices[m] # None => m \in Camera /\ Honest(m, devices[m])

ConfirmedThere ==
    outcome = "confirmed" => Target \in Camera /\ AtGoal(dev[Target])

(* Nothing leaves before the checks are over, or if one of them fails. *)
Allowed == ~ req.usage /\ ~ req.ipv6 /\ (req.force \/ Target \in Camera)

Phases ==
    /\ pc = "exit" <=> outcome \in Outcomes
    /\ pc \in {"probe", "discover", "check"} => ~ req.usage
    /\ Fired => Allowed
    /\ ~ Fired => /\ \A c \in Camera : ~ OursPending(c)
                  /\ Target \in Camera => log[Target] = << >>

(* Everything the commands and announcements of a session come to, step by
   step: the strengthening of ConfirmedMeansApplied, NoBlindSend,
   RefusedMeansUntouched and OnlyTargetChanges that every step keeps.        *)
Inductive ==
    /\ SetTypeOK
    /\ CommandsKnown
    /\ TargetIsOurs
    /\ SnapsHonest /\ BuffersHonest /\ HeldHonest /\ DevicesHonest
    /\ ConfirmedThere
    /\ Phases
    /\ OnlyTargetChanges

(* The strengthening of GivesUpInTime: the clock runs only inside Collect,
   and no window reaches beyond the deadline by the floor or more.           *)
Quiet == \A s \in Sock : wk[s] = "idle"

Timely ==
    /\ pc \notin {"discover", "confirm"} => Quiet
    /\ pc = "reprobe" => now < deadline
    /\ pc \in {"loop", "confirm"} \/ outcome \in {"confirmed", "unconfirmed"} =>
            now < deadline + MinWindow
    /\ pc = "confirm" => until < deadline + MinWindow
    /\ outcome = "unconfirmed" => now >= deadline
    /\ pc = "exit" <=> outcome \in Outcomes

(* A command has reached a camera that is asked for by somebody. *)
Reached ==
    \E c \in Camera :
        /\ seen[c] > 0 \/ cmdPc[c] = "apply"
        /\ c = Target \/ \E m \in OtherSets : m.mac = c

(* The strengthening of AckMeansReceived: an acknowledgement was sent after
   that, wherever it is on its way to the operator.                          *)
AcksTold ==
    /\ \A s \in Sock : \A i \in DOMAIN rx[s] : rx[s][i].type = "setack" => Reached
    /\ \A s \in Sock : wk[s] = "merge" /\ held[s].type = "setack" => Reached
    /\ acks # << >> => Reached
    /\ acked => Reached
=============================================================================
