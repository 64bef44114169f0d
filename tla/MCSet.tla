-------------------------------- MODULE MCSet --------------------------------
(***************************************************************************)
(* A camera to be moved from address a to address b, or to be given        *)
(* another mask at address a; a MAC that nobody has, asked for; and one    *)
(* that another tool sends a command to.                                   *)
(***************************************************************************)
EXTENDS SetInvariant

CONSTANTS cam, cam2, ghost, atA, atB, remask, right, wrong, me, it, a, b

MCAddr     == {a, b}
MCCfg      == {atA, atB, remask}
MCipOf     == [d \in MCCfg |-> IF d = atB THEN b ELSE a]
MCMac      == {cam, cam2, ghost}
MCPassword == {right, wrong}
MCTool     == {me, it}
OneCamera  == {cam}
MCpassword == [c \in Camera |-> right]
MCfactory  == [c \in Camera |-> atA]

Ask(m, d, p, force) == [mac |-> m, cfg |-> d, pw |-> p, force |-> force,
                        usage |-> FALSE, ipv6 |-> FALSE]
Usages == {[Ask(cam, atB, right, TRUE) EXCEPT !.usage = TRUE]}
Ipv6   == {[Ask(cam, atB, right, TRUE) EXCEPT !.ipv6 = TRUE]}
Move   == {Ask(cam, atB, right, FALSE)}
Ghosts == {Ask(ghost, atB, right, FALSE)}
Remask == {Ask(cam, remask, wrong, FALSE)}

Everything == Move \cup Ghosts \cup Usages \cup Ipv6
                   \cup {Ask(cam, atB, wrong, TRUE), Ask(ghost, atB, right, TRUE)}
                   \cup Remask

NoOthers  == {}
AnotherSet == {SetNetwork(cam2, remask, right, it)}
=============================================================================
