----------------------------- MODULE KubeadmCmd -----------------------------
(***************************************************************************)
(* One run of kubeadm (kubeadmCmd of pkg/kubeadm/common.go): its           *)
(* configuration goes through a temporary file, and what it writes to      *)
(* stderr through a pipe to a line scanner that prints it.                 *)
(*                                                                         *)
(* Output is counted in blocks of bytes.  output[i] tells whether block i  *)
(* ends a line.  The pipe holds PipeSize blocks, and the scanner gives up  *)
(* on a line once MaxToken blocks of it are in its buffer.                 *)
(***************************************************************************)
EXTENDS Naturals, Sequences, FiniteSets

CONSTANTS
    Outputs,   \* what kubeadm may write to stderr: sequences of BOOLEAN
    PipeSize,  \* capacity of a pipe
    MaxToken   \* bufio.MaxScanTokenSize

ASSUME OutputsAssumption == Outputs \subseteq Seq(BOOLEAN)
ASSUME SizesAssumption   == PipeSize \in Nat \ {0} /\ MaxToken \in Nat \ {0}

VARIABLES
    pc,        \* what kubeadmCmd does next
    tmp,       \* the temporary file: "none", "empty", "short" or "whole"
    kubeadm,   \* the child process: "none", "running", "ok" or "failed"
    output,    \* what it writes if it is not killed
    written,   \* blocks it has written
    read,      \* blocks the scanner has read
    buf,       \* blocks of an unfinished line in the buffer of the scanner
    printed,   \* lines printed
    err        \* the error returned, "nil" or "error"

vars == <<pc, tmp, kubeadm, output, written, read, buf, printed, err>>
pipeVars == <<output, written, read, buf, printed>>

Returned == "returned"

\* "kubeadm reset" is run without a configuration.
Init ==
    /\ pc \in {"tempfile", "start"}
    /\ tmp = "none"
    /\ kubeadm = "none"
    /\ output \in Outputs
    /\ written = 0 /\ read = 0 /\ buf = 0 /\ printed = 0
    /\ err = "nil"

\* The deferred Remove is part of every return.
Return(error) ==
    /\ pc' = Returned
    /\ tmp' = "none"
    /\ err' = error

-----------------------------------------------------------------------------
TempFile ==
    /\ pc = "tempfile"
    /\ \/ pc' = "configer" /\ tmp' = "empty" /\ UNCHANGED err
       \/ Return("error")
    /\ UNCHANGED <<kubeadm, pipeVars>>

\* Mutant: Remove is deferred after the call of configer.
ConfigerLeaving ==
    /\ pc = "configer"
    /\ \/ pc' = "write" /\ UNCHANGED <<tmp, err>>
       \/ pc' = Returned /\ err' = "error" /\ UNCHANGED tmp
    /\ UNCHANGED <<kubeadm, pipeVars>>

Configer ==
    /\ pc = "configer"
    /\ \/ pc' = "write" /\ UNCHANGED <<tmp, err>>
       \/ Return("error")
    /\ UNCHANGED <<kubeadm, pipeVars>>

\* The result of Write is not looked at.
Write ==
    /\ pc = "write"
    /\ pc' = "start"
    /\ tmp' \in {"empty", "short", "whole"}
    /\ UNCHANGED <<kubeadm, err, pipeVars>>

\* Mutant: Wait is called before the pipe is read.
StartWait ==
    /\ pc = "start"
    /\ \/ pc' = "wait" /\ kubeadm' = "running" /\ UNCHANGED <<tmp, err>>
       \/ Return("error") /\ UNCHANGED kubeadm
    /\ UNCHANGED pipeVars

Start ==
    /\ pc = "start"
    /\ \/ pc' = "scan" /\ kubeadm' = "running" /\ UNCHANGED <<tmp, err>>
       \/ Return("error") /\ UNCHANGED kubeadm
    /\ UNCHANGED pipeVars

\* Mutant: the test for a full buffer comes one block too late.
ScanLate ==
    /\ pc = "scan"
    /\ read < written
    /\ read' = read + 1
    /\ \/ output[read'] /\ buf' = 0 /\ printed' = printed + 1 /\ UNCHANGED pc
       \/ /\ ~output[read']
          /\ buf' = buf + 1
          /\ pc' = IF buf = MaxToken THEN "wait" ELSE pc
          /\ UNCHANGED printed
    /\ UNCHANGED <<tmp, kubeadm, output, written, err>>

\* A line is printed when its end is read.  A buffer that is full without one
\* ends the loop, like the end of the output.
Scan ==
    /\ pc = "scan"
    /\ read < written
    /\ read' = read + 1
    /\ \/ output[read'] /\ buf' = 0 /\ printed' = printed + 1 /\ UNCHANGED pc
       \/ /\ ~output[read']
          /\ buf' = buf + 1
          /\ pc' = IF buf' = MaxToken THEN "wait" ELSE pc
          /\ UNCHANGED printed
    /\ UNCHANGED <<tmp, kubeadm, output, written, err>>

\* Mutant: the loop ends when kubeadm does.
ScanEOFEarly ==
    /\ pc = "scan"
    /\ kubeadm # "running"
    /\ pc' = "wait"
    /\ printed' = IF buf > 0 THEN printed + 1 ELSE printed
    /\ UNCHANGED <<tmp, kubeadm, output, written, read, buf, err>>

\* The pipe is empty and kubeadm has closed it.  A last line without an end is
\* printed too.
ScanEOF ==
    /\ pc = "scan"
    /\ kubeadm # "running"
    /\ read = written
    /\ pc' = "wait"
    /\ printed' = IF buf > 0 THEN printed + 1 ELSE printed
    /\ UNCHANGED <<tmp, kubeadm, output, written, read, buf, err>>

Wait ==
    /\ pc = "wait"
    /\ kubeadm # "running"
    /\ Return(IF kubeadm = "failed" THEN "error" ELSE "nil")
    /\ UNCHANGED <<kubeadm, pipeVars>>

\* kubic-init itself is killed: nothing is removed.
Kill ==
    /\ pc \notin {Returned, "killed"}
    /\ pc' = "killed"
    /\ UNCHANGED <<tmp, kubeadm, err, pipeVars>>

-----------------------------------------------------------------------------
(***************************************************************************)
(* kubeadm: it blocks on a full pipe.                                      *)
(***************************************************************************)
KubeadmWrites ==
    /\ kubeadm = "running"
    /\ written < Len(output)
    /\ written - read < PipeSize
    /\ written' = written + 1
    /\ UNCHANGED <<pc, tmp, kubeadm, output, read, buf, printed, err>>

KubeadmExits ==
    /\ kubeadm = "running"
    /\ written = Len(output)
    /\ kubeadm' \in {"ok", "failed"}
    /\ UNCHANGED <<pc, tmp, err, pipeVars>>

KubeadmDies ==
    /\ kubeadm = "running"
    /\ kubeadm' = "failed"
    /\ UNCHANGED <<pc, tmp, err, pipeVars>>

Terminated == pc \in {Returned, "killed"} /\ UNCHANGED vars

Step == TempFile \/ Configer \/ Write \/ Start \/ Scan \/ ScanEOF \/ Wait

KubeadmStep == KubeadmWrites \/ KubeadmExits

Next == Step \/ Kill \/ KubeadmStep \/ KubeadmDies \/ Terminated

\* Both processes go on unless they are blocked.
Spec == Init /\ [][Next]_vars /\ WF_vars(Step) /\ WF_vars(KubeadmStep)

-----------------------------------------------------------------------------
(***************************************************************************)
(* Properties.                                                             *)
(***************************************************************************)

\* Every variable has the type its declaration suggests; the pipe holds no
\* more than it can, and the scanner never scans with a full buffer.
TypeOK ==
    /\ pc \in {"tempfile", "configer", "write", "start", "scan", "wait",
               Returned, "killed"}
    /\ tmp \in {"none", "empty", "short", "whole"}
    /\ kubeadm \in {"none", "running", "ok", "failed"}
    /\ output \in Outputs
    /\ written \in 0 .. Len(output)
    /\ read \in 0 .. written
    /\ written - read <= PipeSize
    /\ buf \in 0 .. MaxToken
    /\ pc = "scan" => buf < MaxToken
    /\ printed \in 0 .. Len(output)
    /\ err \in {"nil", "error"}

\* When kubeadmCmd returns, on whatever path, the file with the configuration
\* (which holds the token) is gone, no kubeadm is left running, and there is no
\* error exactly if kubeadm ran to its end and succeeded.
NothingLeftBehind ==
    pc = Returned => /\ tmp = "none"
                     /\ kubeadm # "running"
                     /\ err = "nil" <=> kubeadm = "ok"

\* The lines among the first n blocks, a last one without an end included.
Ends(n)  == {i \in 1 .. n : output[i]}
Lines(n) == Cardinality(Ends(n)) + (IF n > 0 /\ ~output[n] THEN 1 ELSE 0)

\* Block i is the one with which a line fills the buffer of the scanner.
FillsBuffer(i) ==
    i >= MaxToken /\ \A j \in i - MaxToken + 1 .. i : ~output[j]

\* Everything kubeadm wrote is printed before kubeadmCmd returns, also if
\* kubeadm was killed in the middle of a line, provided no line is too long.
OutputPrinted ==
    /\ pc = Returned /\ kubeadm # "none"
    /\ \A i \in 1 .. written : ~FillsBuffer(i)
    => printed = Lines(written)

\* Where a line that is too long ends the scan, what is left fits in the pipe.
RestFits == \A i \in 1 .. Len(output) : FillsBuffer(i) => Len(output) - i <= PipeSize

\* kubeadmCmd waits for kubeadm, and kubeadm for room in the pipe that nobody
\* reads any more.
Deadlocked ==
    /\ pc = "wait"
    /\ kubeadm = "running"
    /\ written < Len(output)
    /\ written - read = PipeSize

\* The order of Scan and Wait in kubeadmCmd keeps the two processes from waiting
\* for each other, if no line is too long, or there is little enough output
\* after it.
NoDeadlock == RestFits => ~Deadlocked

\* kubeadmCmd returns, however slow kubeadm and the scanner are, if no line is
\* too long, or there is little enough output after it.  (Otherwise kubeadm
\* blocks on the full pipe, and Wait waits for it forever.)
CommandReturns ==
    RestFits ~> pc \in {Returned, "killed"}
=============================================================================
