----------------------------- MODULE SetRefines -----------------------------
(***************************************************************************)
(* cmdSet keeps SetPromise: the refinement mapping from a session.         *)
(***************************************************************************)
EXTENDS SetSession

Standing ==
    req.mac \in Camera /\ ipOf[factory[req.mac]] = ipOf[req.cfg]

Willing ==
    req.mac \in Camera /\ req.pw = password[req.mac]

Fired ==
    \/ pc \in {"send", "loop", "reprobe", "confirm"}
    \/ outcome \in {"senderr", "confirmed", "unconfirmed"}

Taken == req.mac \in Camera /\ log[req.mac] # << >>

Verdict ==
    IF outcome = None THEN "none"
    ELSE IF outcome \in {"usage", "noiface", "unseen", "badaddr"} THEN "refused"
    ELSE outcome

Promise == INSTANCE SetPromise WITH
    standing <- Standing, willing <- Willing, fired <- Fired,
    taken <- Taken, verdict <- Verdict

(* Every behaviour of cmdSet with its cameras, its sockets and its clock is
   one that SetPromise allows: no camera takes a command before it was sent,
   a session that refused sends nothing, and a confirmation is of a camera
   that took the command or had the address already.                         *)
KeepsPromise == Promise!Spec
=============================================================================
