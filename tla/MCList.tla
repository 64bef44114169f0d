------------------------------- MODULE MCList -------------------------------
(***************************************************************************)
(* One camera that another tool reconfigures while it is being listed.     *)
(***************************************************************************)
EXTENDS ListSession

CONSTANTS cam, ghost, fresh, moved, pw, elsewhere

MCCamera   == {cam}
MCMac      == {cam, ghost}
MCCfg      == {fresh, moved}
MCPassword == {pw}
MCTool     == {elsewhere}
MCpassword == [c \in MCCamera |-> pw]
MCfactory  == [c \in MCCamera |-> fresh]
MCOtherSets == {SetNetwork(cam, moved, pw, elsewhere)}
MCList     == {None}
MCShow     == {None, cam, ghost}
=============================================================================
