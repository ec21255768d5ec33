-------------------------- MODULE KubeadmCmdProofs --------------------------
(***************************************************************************)
(* Proofs about KubeadmCmd, for any output and any sizes of the pipe and   *)
(* of the buffer of the scanner.                                           *)
(***************************************************************************)
EXTENDS KubeadmCmd, FiniteSetTheorems, TLAPS

\* kubeadm exists from Start on; it is over when kubeadmCmd returns.
ChildInv ==
    /\ pc \in {"tempfile", "configer", "write", "start"} =>
           kubeadm = "none" /\ read = 0 /\ buf = 0 /\ printed = 0
    /\ pc \in {"scan", "wait"} => kubeadm # "none"
    /\ NothingLeftBehind

\* The unfinished line in the buffer is what was read last.
BufInv ==
    /\ read > 0 => (buf = 0 <=> output[read])
    /\ buf <= read
    /\ \A j \in read - buf + 1 .. read : ~output[j]
    /\ printed <= read
    /\ pc = "scan" => printed + buf <= read

\* What is printed: while scanning, the lines whose end was read; after that,
\* all lines, unless the buffer got full.
PrintInv ==
    /\ pc = "scan" => printed = Cardinality(Ends(read))
    /\ pc = "wait" \/ (pc = Returned /\ kubeadm # "none") =>
           \/ read > 0 /\ FillsBuffer(read)
           \/ read = written /\ kubeadm # "running" /\ printed = Lines(written)

IInv == TypeOK /\ ChildInv /\ BufInv /\ PrintInv

-----------------------------------------------------------------------------
\* Reading one more block adds a line end or none.
LEMMA EndsStep ==
    ASSUME output \in Seq(BOOLEAN), NEW n \in Nat, n < Len(output)
    PROVE  /\ Cardinality(Ends(n)) \in Nat
           /\ output[n + 1] => Cardinality(Ends(n + 1)) = Cardinality(Ends(n)) + 1
           /\ ~output[n + 1] => Ends(n + 1) = Ends(n)
<1>1. IsFiniteSet(Ends(n))
  <2>1. IsFiniteSet(1 .. n)
    BY FS_Interval
  <2> QED
    BY <2>1, FS_Subset DEF Ends
<1>2. Cardinality(Ends(n)) \in Nat
  BY <1>1, FS_CardinalityType
<1>3. ASSUME output[n + 1]
      PROVE  Cardinality(Ends(n + 1)) = Cardinality(Ends(n)) + 1
  <2>1. Ends(n + 1) = Ends(n) \cup {n + 1}
    BY <1>3 DEF Ends
  <2>2. n + 1 \notin Ends(n)
    BY DEF Ends
  <2> QED
    BY <1>1, <2>1, <2>2, FS_AddElement
<1>4. ASSUME ~output[n + 1]
      PROVE  Ends(n + 1) = Ends(n)
  BY <1>4 DEF Ends
<1> QED
  BY <1>2, <1>3, <1>4

\* Nothing is read at first.
LEMMA EndsEmpty == Cardinality(Ends(0)) = 0
<1>1. Ends(0) = {}
  BY DEF Ends
<1> QED
  BY <1>1, FS_EmptySet

\* The invariant holds initially.
LEMMA InitInv ==
    ASSUME Init
    PROVE  IInv
<1>1. TypeOK /\ ChildInv
  BY OutputsAssumption, SizesAssumption
     DEF Init, TypeOK, ChildInv, NothingLeftBehind, Returned
<1>2. BufInv
  BY DEF Init, BufInv
<1>3. PrintInv
  BY DEF Init, PrintInv, Returned
<1> QED
  BY <1>1, <1>2, <1>3 DEF IInv

\* Every step preserves the types.
LEMMA TypeStep ==
    ASSUME IInv, [Next]_vars
    PROVE  TypeOK'
<1> USE OutputsAssumption, SizesAssumption DEF IInv, TypeOK, pipeVars, Returned
<1>1. CASE UNCHANGED vars \/ Terminated
  BY <1>1 DEF vars, Terminated
<1>2. CASE TempFile \/ Configer \/ Write \/ Start
  BY <1>2 DEF TempFile, Configer, Write, Start, Return, ChildInv
<1>3. CASE Scan
  BY <1>3 DEF Scan, BufInv
<1>4. CASE ScanEOF \/ Wait
  BY <1>4 DEF ScanEOF, Wait, Return, BufInv
<1>5. CASE Kill \/ KubeadmWrites \/ KubeadmExits \/ KubeadmDies
  BY <1>5 DEF Kill, KubeadmWrites, KubeadmExits, KubeadmDies
<1> QED
  BY <1>1, <1>2, <1>3, <1>4, <1>5 DEF Next, Step, KubeadmStep

\* Every step preserves what is known of kubeadm and of the temporary file.
LEMMA ChildStep ==
    ASSUME IInv, [Next]_vars
    PROVE  ChildInv'
<1> USE DEF IInv, TypeOK, ChildInv, NothingLeftBehind, pipeVars, Returned
<1>1. CASE UNCHANGED vars \/ Terminated
  BY <1>1 DEF vars, Terminated
<1>2. CASE TempFile \/ Configer \/ Write \/ Start
  BY <1>2 DEF TempFile, Configer, Write, Start, Return
<1>3. CASE Scan \/ ScanEOF
  BY <1>3 DEF Scan, ScanEOF
<1>4. CASE Wait
  BY <1>4 DEF Wait, Return
<1>5. CASE Kill \/ KubeadmWrites \/ KubeadmExits \/ KubeadmDies
  BY <1>5 DEF Kill, KubeadmWrites, KubeadmExits, KubeadmDies
<1> QED
  BY <1>1, <1>2, <1>3, <1>4, <1>5 DEF Next, Step, KubeadmStep

\* Every step preserves what is known of the buffer.
LEMMA BufStep ==
    ASSUME IInv, [Next]_vars
    PROVE  BufInv'
<1> USE OutputsAssumption, SizesAssumption DEF IInv, TypeOK, BufInv, pipeVars, Returned
<1>1. CASE UNCHANGED vars \/ Terminated
  BY <1>1 DEF vars, Terminated
<1>2. CASE TempFile \/ Configer \/ Write \/ Start
  BY <1>2 DEF TempFile, Configer, Write, Start, Return, ChildInv
<1>3. CASE Scan
  BY <1>3 DEF Scan
<1>4. CASE ScanEOF \/ Wait
  BY <1>4 DEF ScanEOF, Wait, Return
<1>5. CASE Kill \/ KubeadmWrites \/ KubeadmExits \/ KubeadmDies
  BY <1>5 DEF Kill, KubeadmWrites, KubeadmExits, KubeadmDies
<1> QED
  BY <1>1, <1>2, <1>3, <1>4, <1>5 DEF Next, Step, KubeadmStep

\* What depends on the output only is not changed by a step.
LEMMA OutputStays ==
    ASSUME [Next]_vars
    PROVE  output' = output
BY DEF vars, pipeVars, Next, Step, KubeadmStep, Terminated, TempFile, Configer, Write,
       Start, Scan, ScanEOF, Wait, Kill, KubeadmWrites, KubeadmExits, KubeadmDies

\* Every step preserves what is known of the printed lines.
LEMMA PrintStep ==
    ASSUME IInv, [Next]_vars
    PROVE  PrintInv'
<1> USE OutputsAssumption, SizesAssumption, OutputStays DEF IInv, TypeOK, Returned
<1>1. CASE UNCHANGED vars \/ Terminated
  BY <1>1 DEF vars, Terminated, PrintInv, Ends, Lines, FillsBuffer
<1>2. CASE TempFile \/ Configer \/ Write
  BY <1>2 DEF TempFile, Configer, Write, Return, ChildInv, PrintInv
<1>3. CASE Start
  <2>1. CASE pc' = "scan"
    BY <1>3, <2>1, EndsEmpty DEF Start, ChildInv, PrintInv, pipeVars, Ends
  <2>2. CASE pc' = Returned
    BY <1>3, <2>2 DEF Start, ChildInv, PrintInv
  <2> QED
    BY <1>3, <2>1, <2>2 DEF Start, Return
<1>4. CASE Scan
  <2>0. read < Len(output) /\ output \in Seq(BOOLEAN) /\ read \in Nat
    BY <1>4 DEF Scan
  <2>1. printed = Cardinality(Ends(read))
    BY <1>4 DEF Scan, PrintInv
  <2>2. CASE output[read']
    BY <1>4, <2>0, <2>1, <2>2, EndsStep DEF Scan, PrintInv, Ends
  <2>3. CASE ~output[read'] /\ pc' = "scan"
    BY <1>4, <2>0, <2>1, <2>3, EndsStep DEF Scan, PrintInv, Ends
  <2>4. CASE ~output[read'] /\ pc' = "wait"
    <3>1. read' > 0 /\ FillsBuffer(read')
      BY <1>4, <2>0, <2>4 DEF Scan, BufInv, FillsBuffer
    <3> QED
      BY <2>4, <3>1 DEF PrintInv, FillsBuffer
  <2> QED
    BY <1>4, <2>2, <2>3, <2>4 DEF Scan
<1>5. CASE ScanEOF
  <2>0. output \in Seq(BOOLEAN) /\ read \in Nat /\ read = written
    BY <1>5 DEF ScanEOF
  <2>1. printed = Cardinality(Ends(read))
    BY <1>5 DEF ScanEOF, PrintInv
  <2>2. buf > 0 <=> read > 0 /\ ~output[read]
    BY <2>0 DEF BufInv
  <2>3. printed' = Lines(written)
    BY <1>5, <2>0, <2>1, <2>2 DEF ScanEOF, Lines
  <2> QED
    BY <1>5, <2>0, <2>3 DEF ScanEOF, PrintInv, Lines, Ends
<1>6. CASE Wait
  BY <1>6 DEF Wait, Return, PrintInv, pipeVars, Lines, Ends, FillsBuffer
<1>7. CASE Kill
  BY <1>7 DEF Kill, PrintInv
<1>8. CASE KubeadmWrites \/ KubeadmExits \/ KubeadmDies
  BY <1>8 DEF KubeadmWrites, KubeadmExits, KubeadmDies, PrintInv, pipeVars, Ends, Lines,
              FillsBuffer, ChildInv, NothingLeftBehind
<1> QED
  BY <1>1, <1>2, <1>3, <1>4, <1>5, <1>6, <1>7, <1>8 DEF Next, Step, KubeadmStep

-----------------------------------------------------------------------------
\* The inductive invariant.
THEOREM Invariance == Spec => []IInv
<1>1. IInv /\ [Next]_vars => IInv'
  BY TypeStep, ChildStep, BufStep, PrintStep DEF IInv
<1> QED
  BY <1>1, InitInv, PTL DEF Spec

\* The variables keep their types, the pipe its capacity and the scanner the
\* limit of its buffer.
THEOREM TypeCorrect == Spec => []TypeOK
BY Invariance, PTL DEF IInv

\* On whatever path kubeadmCmd returns, no file and no kubeadm is left, and the
\* error tells what became of kubeadm.
THEOREM ReturnsClean == Spec => []NothingLeftBehind
<1>1. IInv => NothingLeftBehind
  BY DEF IInv, ChildInv
<1> QED
  BY <1>1, Invariance, PTL

\* Whatever the sizes, nothing kubeadm wrote is lost unless a line fills the
\* buffer of the scanner.
THEOREM NothingLost == Spec => []OutputPrinted
<1>1. IInv => OutputPrinted
  BY DEF IInv, TypeOK, PrintInv, OutputPrinted, Returned
<1> QED
  BY <1>1, Invariance, PTL

\* The safety half of "kubeadmCmd returns": Wait is called on a kubeadm that
\* still runs only if a line filled the buffer of the scanner, and then the pipe
\* has room for all that is left.
THEOREM NeverDeadlocked == Spec => []NoDeadlock
<1>1. ASSUME IInv, RestFits, Deadlocked
      PROVE  FALSE
  <2>1. read \in 1 .. Len(output) /\ FillsBuffer(read)
    BY <1>1, OutputsAssumption DEF IInv, TypeOK, PrintInv, Deadlocked
  <2>2. Len(output) - read <= PipeSize
    BY <1>1, <2>1 DEF RestFits
  <2>3. Len(output) \in Nat /\ written \in Nat /\ read \in Nat /\ PipeSize \in Nat
    BY <1>1, OutputsAssumption, SizesAssumption DEF IInv, TypeOK
  <2> QED
    BY <1>1, <2>2, <2>3 DEF Deadlocked
<1>2. IInv => NoDeadlock
  BY <1>1 DEF NoDeadlock
<1> QED
  BY <1>2, Invariance, PTL
=============================================================================
