-------------------------------- MODULE Conn --------------------------------
(***************************************************************************)
(* discovery.Conn, internal/discovery/discovery.go: the receive sockets a  *)
(* tool has joined to GroupRX and the interfaces it sends from.            *)
(*                                                                         *)
(* A send goes out interface by interface.  Collect runs one goroutine per *)
(* socket: it reads a datagram (one step), then takes the lock and merges  *)
(* it into the shared result (another step), until the deadline; the       *)
(* datagrams still buffered then stay for the next Collect.                *)
(***************************************************************************)
EXTENDS Wire

VARIABLES
    todo,       \* the interfaces a send in progress has still to go out on
    sendErr,    \* firstErr of the send in progress is set
    now,        \* the clock
    until,      \* the deadline of the Collect in progress
    wk,         \* Collect's goroutine of each socket
    held,       \* the datagram it has read and not yet merged
    devices,    \* Collect's result: the device heard for each MAC
    acks        \* Collect's result: the acknowledgements heard, in order

sendVars    == <<todo, sendErr>>
resultVars  == <<devices, acks>>
collectVars == <<now, until, wk, held, resultVars>>
connVars    == <<sendVars, collectVars>>

NoDevices == [m \in Mac |-> None]

(* A goroutine that is about to merge has a datagram. *)
ConnTypeOK ==
    /\ todo \subseteq Sock
    /\ sendErr \in BOOLEAN
    /\ now \in Nat
    /\ until \in Nat
    /\ wk \in [Sock -> {"idle", "read", "merge", "returned"}]
    /\ held \in [Sock -> ToolDatagram \cup {None}]
    /\ devices \in [Mac -> Cfg \cup {None}]
    /\ acks \in Seq(Acknowledgement)
    /\ \A s \in Sock : wk[s] = "merge" => held[s] \in ToolDatagram

ConnInit ==
    /\ todo = {}
    /\ sendErr = FALSE
    /\ now = 0
    /\ until = 0
    /\ wk = [s \in Sock |-> "idle"]
    /\ held = [s \in Sock |-> None]
    /\ devices = NoDevices
    /\ acks = << >>

-----------------------------------------------------------------------------
(* Open and Close *)

(* Interfaces that cannot join are skipped; at least one has to. *)
Open(J) ==
    /\ J # {}
    /\ joined' = J
    /\ UNCHANGED rx

Close ==
    /\ joined' = {}
    /\ rx' = [s \in Sock |-> << >>]

-----------------------------------------------------------------------------
(* send *)

SendStart ==
    /\ todo' = joined
    /\ sendErr' = FALSE

(* One interface: the datagram leaves, or the failure is only remembered. *)
SendOn(s, m) ==
    /\ s \in todo
    /\ todo' = todo \ {s}
    /\ \/ ToCameras(m) /\ UNCHANGED sendErr
       \/ sendErr' = TRUE /\ UNCHANGED inbox
    /\ UNCHANGED <<joined, rx, collectVars>>

AllSent  == todo = {} /\ ~ sendErr
SendErrs == todo = {} /\ sendErr

-----------------------------------------------------------------------------
(* Collect *)

CollectStart(d) ==
    /\ until' = now + d
    /\ wk' = [s \in Sock |-> IF s \in joined THEN "read" ELSE "idle"]
    /\ devices' = NoDevices
    /\ acks' = << >>
    /\ UNCHANGED <<now, held>>

(* Mistake: the newest datagram in the buffer is read first. *)
CollectRead_Newest(s) ==
    /\ wk[s] = "read"
    /\ now < until
    /\ rx[s] # << >>
    /\ held' = [held EXCEPT ![s] = rx[s][Len(rx[s])]]
    /\ rx' = [rx EXCEPT ![s] = SubSeq(@, 1, Len(@) - 1)]
    /\ wk' = [wk EXCEPT ![s] = "merge"]
    /\ UNCHANGED <<joined, inbox, sendVars, now, until, resultVars>>

(* ReadFromUDP: past the deadline it fails even with data in the buffer. *)
CollectRead(s) ==
    /\ wk[s] = "read"
    /\ now < until
    /\ rx[s] # << >>
    /\ held' = [held EXCEPT ![s] = Head(rx[s])]
    /\ rx' = [rx EXCEPT ![s] = Tail(@)]
    /\ wk' = [wk EXCEPT ![s] = "merge"]
    /\ UNCHANGED <<joined, inbox, sendVars, now, until, resultVars>>

(* Whoever merges last is the device the caller sees. *)
MergeDevice(m) == [devices EXCEPT ![m.mac] = m.cfg]

MergeAck(m) == Append(acks, m)

CollectMerge(s) ==
    /\ wk[s] = "merge"
    /\ \/ /\ held[s].type = "announce"
          /\ devices' = MergeDevice(held[s])
          /\ UNCHANGED acks
       \/ /\ held[s].type = "setack"
          /\ acks' = MergeAck(held[s])
          /\ UNCHANGED devices
    /\ held' = [held EXCEPT ![s] = None]
    /\ wk' = [wk EXCEPT ![s] = "read"]
    /\ UNCHANGED <<wireVars, sendVars, now, until>>

(* Mistake: a goroutine stays until its buffer is drained. *)
CollectTimeout_Drained(s) ==
    /\ wk[s] = "read"
    /\ now >= until
    /\ rx[s] = << >>
    /\ wk' = [wk EXCEPT ![s] = "returned"]
    /\ UNCHANGED <<wireVars, sendVars, now, until, held, resultVars>>

CollectTimeout(s) ==
    /\ wk[s] = "read"
    /\ now >= until
    /\ wk' = [wk EXCEPT ![s] = "returned"]
    /\ UNCHANGED <<wireVars, sendVars, now, until, held, resultVars>>

Collecting == \E s \in Sock : wk[s] # "idle"

(* Mistake: the first goroutine to return ends the wait. *)
Collected_First == \E s \in joined : wk[s] = "returned"

(* wg.Wait has returned: every goroutine is done. *)
Collected == \A s \in joined : wk[s] = "returned"

CollectEnd ==
    /\ wk' = [s \in Sock |-> "idle"]
    /\ UNCHANGED <<now, until, held, resultVars>>

(* Time passes while the tool waits in Collect; the rest takes no time. *)
Tick ==
    /\ Collecting
    /\ now < until
    /\ now' = now + 1
    /\ UNCHANGED <<wireVars, sendVars, until, wk, held, resultVars>>

CollectStep ==
    \/ \E s \in Sock : CollectRead(s) \/ CollectMerge(s) \/ CollectTimeout(s)
    \/ Tick
=============================================================================
