----------------------------- MODULE ProbeRunner -----------------------------
(***************************************************************************)
(* One run of the ipcprobe helper by the macOS app: ProbeRunner.run and    *)
(* LineCollector, macos/Sources/IPCProbe/Model/ProbeRunner.swift.          *)
(*                                                                         *)
(* The helper writes to two pipes that hold only so much.  The readability *)
(* handler drains stderr on one queue while the helper runs; when it has   *)
(* ended, the termination handler drains the rest on another, then reads   *)
(* stdout, then resumes the caller.  Taking the handler off its pipe does  *)
(* not wait for one that is at work, and a read takes what the system      *)
(* gives: all there is or a first part of it.                              *)
(***************************************************************************)
EXTENDS Naturals, Sequences, SequencesExt, FiniteSets

CONSTANTS
    Scripts,    \* what a helper does: writes to "err" and "out", reads of "in"
    NL,         \* the newline
    OutCap,     \* bytes the stdout pipe holds
    ErrCap,     \* bytes the stderr pipe holds
    None        \* no result

HelperSteps == [to : {"err", "out", "in"}, byte : Nat]

ASSUME RunnerAssumption ==
    /\ Scripts \subseteq Seq(HelperSteps)
    /\ NL \in Nat
    /\ OutCap \in Nat
    /\ ErrCap \in Nat \ {0}
    /\ None \notin [out : Seq(Nat), stderr : Seq(Seq(Nat))]

VARIABLES
    app,        \* run's body: about to launch, to close stdin; or waiting; or it threw
    script,     \* what this helper does
    at,         \* how far it is
    helper,     \* not started, running, exited
    errPipe,    \* bytes in the stderr pipe
    outPipe,    \* bytes in the stdout pipe
    handler,    \* errPipe's readabilityHandler is set
    reader,     \* the readability handler: idle, fired, about to append, to hand out
    chunk,      \* what it has read
    overtook,   \* it has read past bytes the termination handler had taken, which
                \* no step depends on
    ender,      \* the termination handler, step by step
    tail,       \* what it has read from stderr
    out,        \* what it has read from stdout
    buffer,     \* LineCollector.buffer: the line begun
    text,       \* LineCollector.text: the lines collected
    toHand,     \* per queue, the lines append returned and onStderrLine has not had
    handed,     \* the lines onStderrLine has had
    result,     \* the Output the caller was resumed with
    resumes     \* how often the continuation was resumed

helperVars    == <<script, at, helper>>
collectorVars == <<buffer, text>>
readerVars    == <<reader, chunk, overtook>>
enderVars     == <<ender, tail, out>>
callerVars    == <<result, resumes>>
vars == <<app, helperVars, errPipe, outPipe, handler, readerVars, enderVars,
          collectorVars, toHand, handed, callerVars>>

Queue == {"reader", "ender"}
Line  == Seq(Nat)

(* The types of a run; a continuation that is resumed twice is a crash. *)
RunnerTypeOK ==
    /\ app \in {"launch", "stdin", "await", "threw"}
    /\ script \in Scripts
    /\ at \in 0 .. Len(script)
    /\ helper \in {"none", "running", "exited"}
    /\ errPipe \in Seq(Nat) /\ Len(errPipe) <= ErrCap
    /\ outPipe \in Seq(Nat) /\ Len(outPipe) <= OutCap
    /\ handler \in BOOLEAN
    /\ reader \in {"idle", "fired", "append", "hand"}
    /\ ender \in {"idle", "drain", "append", "hand", "stdout", "resume", "done"}
    /\ {chunk, tail, out, buffer} \subseteq Seq(Nat)
    /\ overtook \in BOOLEAN
    /\ {text, handed} \subseteq Seq(Line)
    /\ toHand \in [Queue -> Seq(Line)]
    /\ result \in [out : Seq(Nat), stderr : Seq(Line)] \cup {None}
    /\ resumes \in {0, 1}

(* run's set-up: both handlers are in place before the launch. *)
Init ==
    /\ app = "launch"
    /\ script \in Scripts
    /\ at = 0
    /\ helper = "none"
    /\ errPipe = << >> /\ outPipe = << >>
    /\ handler = TRUE
    /\ reader = "idle" /\ chunk = << >> /\ overtook = FALSE
    /\ ender = "idle" /\ tail = << >> /\ out = << >>
    /\ buffer = << >> /\ text = << >>
    /\ toHand = [q \in Queue |-> << >>]
    /\ handed = << >>
    /\ result = None /\ resumes = 0

-----------------------------------------------------------------------------
(* run's body *)

LaunchFails ==
    /\ app = "launch"
    /\ app' = "threw"
    /\ resumes' = resumes + 1
    /\ UNCHANGED <<helperVars, errPipe, outPipe, handler, readerVars, enderVars,
                   collectorVars, toHand, handed, result>>

Launch ==
    /\ app = "launch"
    /\ app' = "stdin"
    /\ helper' = "running"
    /\ UNCHANGED <<script, at, errPipe, outPipe, handler, readerVars, enderVars,
                   collectorVars, toHand, handed, callerVars>>

(* The password, if there is one, and the end of stdin. *)
CloseStdin ==
    /\ app = "stdin"
    /\ app' = "await"
    /\ UNCHANGED <<helperVars, errPipe, outPipe, handler, readerVars, enderVars,
                   collectorVars, toHand, handed, callerVars>>

-----------------------------------------------------------------------------
(* The helper.  A write to a full pipe waits, a read of stdin for its end. *)

Step == script[at + 1]

HelperStep ==
    /\ helper = "running"
    /\ at < Len(script)
    /\ at' = at + 1
    /\ \/ /\ Step.to = "err"
          /\ Len(errPipe) < ErrCap
          /\ errPipe' = Append(errPipe, Step.byte)
          /\ UNCHANGED outPipe
       \/ /\ Step.to = "out"
          /\ Len(outPipe) < OutCap
          /\ outPipe' = Append(outPipe, Step.byte)
          /\ UNCHANGED errPipe
       \/ /\ Step.to = "in"
          /\ app = "await"
          /\ UNCHANGED <<errPipe, outPipe>>
    /\ UNCHANGED <<app, script, helper, handler, readerVars, enderVars,
                   collectorVars, toHand, handed, callerVars>>

HelperExits ==
    /\ helper = "running"
    /\ at = Len(script)
    /\ helper' = "exited"
    /\ UNCHANGED <<app, script, at, errPipe, outPipe, handler, readerVars,
                   enderVars, collectorVars, toHand, handed, callerVars>>

-----------------------------------------------------------------------------
(* LineCollector.append: the lines that bytes complete, and the line begun. *)

(* Mistake: a chunk's end ends the line. *)
Split_Chunk(bytes) ==
    [lines |-> IF bytes = << >> THEN << >> ELSE <<SelectSeq(bytes, LAMBDA b : b # NL)>>,
     rest |-> << >>]

(* Either the last byte ends a line, or it belongs to the line begun. *)
Splitting[bytes \in Seq(Nat)] ==
    IF bytes = << >> THEN [lines |-> << >>, rest |-> << >>]
    ELSE LET sofar == Splitting[Front(bytes)]
             b     == Last(bytes)
         IN  IF b = NL THEN [lines |-> Append(sofar.lines, sofar.rest), rest |-> << >>]
                       ELSE [lines |-> sofar.lines, rest |-> Append(sofar.rest, b)]

Split(bytes) == Splitting[bytes]

(* Mistake: the line begun is left behind. *)
Flushed_Never(split) == split

(* With flush the line begun counts as one, unless it is empty. *)
Flushed(split) ==
    IF split.rest = << >> THEN split
    ELSE [lines |-> Append(split.lines, split.rest), rest |-> << >>]

Collect(q, split) ==
    /\ buffer' = split.rest
    /\ text' = text \o split.lines
    /\ toHand' = [toHand EXCEPT ![q] = split.lines]

HandOut(q) ==
    /\ toHand[q] # << >>
    /\ handed' = Append(handed, Head(toHand[q]))
    /\ toHand' = [toHand EXCEPT ![q] = Tail(@)]

-----------------------------------------------------------------------------
(* The readability handler *)

(* Mistake: stderr is left to the termination handler, as stdout is. *)
ReadableErr_Never == FALSE

(* There is something to read, or the end. *)
ReadableErr == handler /\ (errPipe # << >> \/ helper = "exited")

Fire ==
    /\ reader = "idle"
    /\ ReadableErr
    /\ reader' = "fired"
    /\ UNCHANGED <<app, helperVars, errPipe, outPipe, handler, chunk, overtook,
                   enderVars, collectorVars, toHand, handed, callerVars>>

(* A read of stderr takes its first n bytes, and leaves the others. *)
ReadErr(n)  == SubSeq(errPipe, 1, n)
LeaveErr(n) == errPipe' = SubSeq(errPipe, n + 1, Len(errPipe))

(* Mistake: a handler that was taken off meanwhile throws away what it reads. *)
AvailableData_Dropped ==
    /\ reader = "fired"
    /\ \E n \in 1 .. Len(errPipe) :
        /\ chunk' = IF handler THEN ReadErr(n) ELSE << >>
        /\ LeaveErr(n)
    /\ overtook' = (overtook \/ tail # << >>)
    /\ reader' = "append"
    /\ UNCHANGED <<app, helperVars, outPipe, handler, enderVars, collectorVars,
                   toHand, handed, callerVars>>

AvailableData ==
    /\ reader = "fired"
    /\ \E n \in 1 .. Len(errPipe) : chunk' = ReadErr(n) /\ LeaveErr(n)
    /\ overtook' = (overtook \/ tail # << >>)
    /\ reader' = "append"
    /\ UNCHANGED <<app, helperVars, outPipe, handler, enderVars, collectorVars,
                   toHand, handed, callerVars>>

(* Mistake: the end of stderr is taken for the end of the helper. *)
EndOfErr_Resumes ==
    /\ reader = "fired"
    /\ errPipe = << >>
    /\ helper = "exited"
    /\ handler' = FALSE
    /\ reader' = "idle"
    /\ result' = [out |-> outPipe, stderr |-> text]
    /\ resumes' = resumes + 1
    /\ UNCHANGED <<app, helperVars, errPipe, outPipe, chunk, overtook, enderVars,
                   collectorVars, toHand, handed>>

(* At the end of the stream the handler takes itself off. *)
EndOfErr ==
    /\ reader = "fired"
    /\ errPipe = << >>
    /\ helper = "exited"
    /\ handler' = FALSE
    /\ reader' = "idle"
    /\ UNCHANGED <<app, helperVars, errPipe, outPipe, chunk, overtook, enderVars,
                   collectorVars, toHand, handed, callerVars>>

AppendChunk ==
    /\ reader = "append"
    /\ Collect("reader", Split(buffer \o chunk))
    /\ chunk' = << >>
    /\ reader' = "hand"
    /\ UNCHANGED <<app, helperVars, errPipe, outPipe, handler, overtook, enderVars,
                   handed, callerVars>>

HandChunk ==
    /\ reader = "hand"
    /\ \/ HandOut("reader") /\ UNCHANGED reader
       \/ toHand["reader"] = << >> /\ reader' = "idle" /\ UNCHANGED <<toHand, handed>>
    /\ UNCHANGED <<app, helperVars, errPipe, outPipe, handler, chunk, overtook,
                   enderVars, collectorVars, callerVars>>

-----------------------------------------------------------------------------
(* The termination handler *)

TakeOff ==
    /\ ender = "idle"
    /\ helper = "exited"
    /\ handler' = FALSE
    /\ ender' = "drain"
    /\ UNCHANGED <<app, helperVars, errPipe, outPipe, readerVars, tail, out,
                   collectorVars, toHand, handed, callerVars>>

(* readDataToEndOfFile reads until it finds the end.  A readability handler
   that has fired already may read between two of its reads.                 *)
Drain ==
    /\ ender = "drain"
    /\ \E n \in 1 .. Len(errPipe) : tail' = tail \o ReadErr(n) /\ LeaveErr(n)
    /\ UNCHANGED <<app, helperVars, outPipe, handler, readerVars, ender, out,
                   collectorVars, toHand, handed, callerVars>>

DrainEnd ==
    /\ ender = "drain"
    /\ errPipe = << >>
    /\ ender' = "append"
    /\ UNCHANGED <<app, helperVars, errPipe, outPipe, handler, readerVars, tail, out,
                   collectorVars, toHand, handed, callerVars>>

AppendTail ==
    /\ ender = "append"
    /\ Collect("ender", Flushed(Split(buffer \o tail)))
    /\ tail' = << >>
    /\ ender' = "hand"
    /\ UNCHANGED <<app, helperVars, errPipe, outPipe, handler, readerVars, out,
                   handed, callerVars>>

HandTail ==
    /\ ender = "hand"
    /\ \/ HandOut("ender") /\ UNCHANGED ender
       \/ toHand["ender"] = << >> /\ ender' = "stdout" /\ UNCHANGED <<toHand, handed>>
    /\ UNCHANGED <<app, helperVars, errPipe, outPipe, handler, readerVars, tail, out,
                   collectorVars, callerVars>>

ReadOut ==
    /\ ender = "stdout"
    /\ out' = outPipe
    /\ outPipe' = << >>
    /\ ender' = "resume"
    /\ UNCHANGED <<app, helperVars, errPipe, handler, readerVars, tail,
                   collectorVars, toHand, handed, callerVars>>

(* collected.text is read without the lock. *)
Resume ==
    /\ ender = "resume"
    /\ result' = [out |-> out, stderr |-> text]
    /\ resumes' = resumes + 1
    /\ ender' = "done"
    /\ UNCHANGED <<app, helperVars, errPipe, outPipe, handler, readerVars, tail, out,
                   collectorVars, toHand, handed>>

-----------------------------------------------------------------------------
Body   == LaunchFails \/ Launch \/ CloseStdin
Helper == HelperStep \/ HelperExits
Reader == Fire \/ AvailableData \/ EndOfErr \/ AppendChunk \/ HandChunk
Ender  == TakeOff \/ Drain \/ DrainEnd \/ AppendTail \/ HandTail \/ ReadOut \/ Resume

Next == Body \/ Helper \/ Reader \/ Ender

(* A helper that can go on does, and the system runs the handlers. *)
Fairness ==
    WF_vars(Body) /\ WF_vars(Helper) /\ WF_vars(Reader) /\ WF_vars(Ender)

Spec == Init /\ [][Next]_vars
FairSpec == Spec /\ Fairness

-----------------------------------------------------------------------------
(* Properties *)

(* What the helper has written to stderr so far. *)
WrittenBy[steps \in Seq(HelperSteps)] ==
    IF steps = << >> THEN << >>
    ELSE LET sofar == WrittenBy[Front(steps)]
         IN  IF Last(steps).to = "err" THEN Append(sofar, Last(steps).byte) ELSE sofar

Written == WrittenBy[SubSeq(script, 1, at)]

(* The bytes of the lines collected. *)
Joined[lines \in Seq(Line)] ==
    IF lines = << >> THEN << >> ELSE Joined[Front(lines)] \o Last(lines)

Count(e, s) == Cardinality({i \in DOMAIN s : s[i] = e})

SameBag(s, t) == \A e \in ToSet(s \o t) : Count(e, s) = Count(e, t)

(* No byte of stderr is lost or doubled between the two queues: apart from
   the newlines, what was written is in the pipe, in the hands of one of the
   handlers, or collected; and a collected line is handed out once.          *)
EveryByteOnce ==
    /\ LET held == errPipe \o chunk \o tail \o buffer \o Joined[text]
       IN  \A b \in ToSet(Written \o held) \ {NL} : Count(b, Written) = Count(b, held)
    /\ SameBag(text, handed \o toHand["reader"] \o toHand["ender"])

(* While the helper runs, the lines onStderrLine is given are the helper's
   lines, whole and in order, however its bytes fall into chunks.            *)
LinesAreWhole ==
    ender = "idle" => IsPrefix(handed \o toHand["reader"], Split(Written).lines)

(* The lines of a whole stream, the unfinished one at its end included. *)
LinesOf(bytes) ==
    LET s == Split(bytes)
    IN  s.lines \o (IF s.rest = << >> THEN << >> ELSE <<s.rest>>)

(* What the termination handler leaves in LineCollector.text -- the stderr of
   the Output -- is all of the helper's lines in order, the unfinished one
   included, but where the readability handler was at work all along: unless
   it has a chunk in hand just then, whose bytes come after, or has read and
   appended bytes that follow some of those just being appended.             *)
HandoverIsComplete ==
    [][ender = "append" /\ ender' = "hand" /\ reader # "append" /\ ~ overtook =>
            text' = LinesOf(Written)]_vars

(* The caller is resumed, and once, exactly if what the helper prints fits
   the stdout pipe, which nobody reads before the helper has ended.  What it
   reports on stderr may be of any length: "Drain stderr incrementally so a
   chatty helper can never fill the pipe and stall" (ProbeRunner.swift:52).  *)
Fits == Len(SelectSeq(script, LAMBDA s : s.to = "out")) <= OutCap

ReturnsIfOutputFits ==
    /\ Fits => <>[](resumes = 1)
    /\ ~ Fits => [](app # "threw" => resumes = 0)
=============================================================================
