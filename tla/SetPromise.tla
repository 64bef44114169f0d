----------------------------- MODULE SetPromise -----------------------------
(***************************************************************************)
(* What `ipcprobe set` promises of one camera, without sockets, datagrams  *)
(* or time: a command may leave once the checks are over; the camera may   *)
(* take it then, at any time, even after the verdict; and the verdict is   *)
(* about the camera -- "confirmed" only of a camera that took it, or that  *)
(* had the address to begin with.                                          *)
(***************************************************************************)
VARIABLES
    standing,   \* the camera has the requested address from the start
    willing,    \* the password in the command is the camera's
    fired,      \* the command may have left
    taken,      \* the camera has the requested configuration from us
    verdict     \* what the session has come to

vars == <<standing, willing, fired, taken, verdict>>

Init ==
    /\ standing \in BOOLEAN
    /\ willing \in BOOLEAN
    /\ fired = FALSE
    /\ taken = FALSE
    /\ verdict = "none"

Fire ==
    /\ verdict = "none"
    /\ ~ fired
    /\ fired' = TRUE
    /\ UNCHANGED <<standing, willing, taken, verdict>>

Take ==
    /\ fired
    /\ willing
    /\ taken' = TRUE
    /\ UNCHANGED <<standing, willing, fired, verdict>>

Conclude(v) ==
    /\ verdict = "none"
    /\ verdict' = v
    /\ UNCHANGED <<standing, willing, fired, taken>>

Refuse  == ~ fired /\ Conclude("refused")
Confirm == fired /\ (taken \/ standing) /\ Conclude("confirmed")
GiveUp  == fired /\ Conclude("unconfirmed")
Fail    == fired /\ Conclude("senderr")

Next == Fire \/ Take \/ Refuse \/ Confirm \/ GiveUp \/ Fail

Spec == Init /\ [][Next]_vars
=============================================================================
