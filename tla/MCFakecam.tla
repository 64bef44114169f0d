------------------------------ MODULE MCFakecam ------------------------------
(***************************************************************************)
(* One camera program; one command that reconfigures it, one that would    *)
(* but carries a wrong password, and one meant for another camera.         *)
(***************************************************************************)
EXTENDS FakecamMain

CONSTANTS cam, other, fresh, moved, right, wrong, tool

MCCommands == { SetNetwork(cam, moved, right, tool),
                SetNetwork(cam, fresh, wrong, tool),
                SetNetwork(cam, fresh, right, tool),
                SetNetwork(other, moved, right, tool) }
MCCamera   == {cam}
MCMac      == {cam, other}
MCCfg      == {fresh, moved}
MCPassword == {right, wrong}
MCTool     == {tool}
MCpassword == [c \in MCCamera |-> right]
MCfactory  == [c \in MCCamera |-> fresh]
=============================================================================
