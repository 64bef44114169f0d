-------------------------------- MODULE MCApp --------------------------------
(***************************************************************************)
(* Two cameras that can swap addresses, one window, one interface that may *)
(* be gone when the interfaces are listed.  b is the longer address: both  *)
(* cameras at b are more than the pipe holds.                              *)
(***************************************************************************)
EXTENDS AppModel

CONSTANTS cam1, cam2, a, b, en0, w1, j1, j2

MCMac       == {cam1, cam2}
MCAddr      == {a, b}
MChome      == [m \in MCMac |-> IF m = cam1 THEN a ELSE b]
MCInterface == {en0}
OneWindow   == {w1}
MCJob       == {j1, j2}
MCOverfull  == {[m \in MCMac |-> b]}
=============================================================================
