------------------------------ MODULE MCRunner ------------------------------
(***************************************************************************)
(* Helpers that say more on stderr than its pipe holds, in lines that are  *)
(* empty, unfinished or longer than the pipe; whose result fits the stdout *)
(* pipe, just does not fit, or is missing; that read stdin or do not.      *)
(***************************************************************************)
EXTENDS ProbeRunner

Err(b) == [to |-> "err", byte |-> b]
Out(b) == [to |-> "out", byte |-> b]
In     == [to |-> "in", byte |-> 0]

List    == <<Err(1), Err(0), Out(2), Out(3)>>
Long    == <<Err(1), Err(2), Err(3), Err(0), Err(0), Err(4), Out(5), Err(6)>>
TooLong == <<Err(1), Err(0), Out(2), Out(3), Out(4)>>
Set     == <<In, Err(1), Err(0), Err(2), Err(3), Err(0), Out(4), Err(5), Err(0)>>
Usage   == <<Err(1), Err(0)>>

MCScripts == {List, Long, TooLong, Set, Usage, << >>}
=============================================================================
