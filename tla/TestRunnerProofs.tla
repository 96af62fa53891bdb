-------------------------- MODULE TestRunnerProofs --------------------------
(***************************************************************************)
(* A test runs what it has compiled, as long as no other process uses the  *)
(* directory: whatever files were there before, and wherever rounds have   *)
(* been interrupted.                                                       *)
(***************************************************************************)
EXTENDS TestRunner, SequenceTheorems, TLAPS

(* One process at a time.                                                   *)
Alone == \A r, s \in Runners : r = s

(* What the files hold at each step of a round.                             *)
FilesFollow ==
    \A r \in Runners :
        /\ step[r] = "emitted" => kernel[r] = <<Kernel(job[r])>>
        /\ step[r] = "truncated" => src = Nothing /\ kernel[r] = <<Kernel(job[r])>>
        /\ step[r] = "written" => src = <<Kernel(job[r])>>
        /\ step[r] \in {"appended", "removed", "compiled"} => src = Program(job[r])
        /\ step[r] = "removed" => exe = Nothing
        /\ step[r] = "compiled" => exe = IF compiled[r] THEN src ELSE Nothing

Inv == TypeOK /\ FilesFollow /\ RunsCorrespondingTest

LEMMA AppendPair ==
  ASSUME NEW a, NEW b
  PROVE  Append(<<a>>, b) = <<a, b>>
  <1>1. <<a>> \in Seq({a, b}) /\ Len(<<a>>) = 1
    OBVIOUS
  <1>2. Append(<<a>>, b) \in Seq({a, b}) /\ Len(Append(<<a>>, b)) = 2
    BY <1>1
  <1>3. Append(<<a>>, b)[1] = a /\ Append(<<a>>, b)[2] = b
    BY <1>1
  <1>4. <<a, b>> \in Seq({a, b}) /\ Len(<<a, b>>) = 2 /\ <<a, b>>[1] = a /\ <<a, b>>[2] = b
    OBVIOUS
  <1>5. \A n \in 1..2 : Append(<<a>>, b)[n] = <<a, b>>[n]
    BY <1>3, <1>4
  <1> QED
    BY <1>2, <1>4, <1>5, SeqEqual

LEMMA InitInv == Init => Inv
  <1> SUFFICES ASSUME Init PROVE Inv
    OBVIOUS
  <1> USE DEF Init
  <1>1. ASSUME NEW j \in Jobs
        PROVE  Program(j) \in Seq(Pieces)
    <2>1. Kernel(j) \in Pieces /\ Test(j) \in Pieces
      BY DEF Pieces
    <2> HIDE DEF Pieces, Kernel, Test
    <2> QED
      BY <2>1 DEF Program
  <1>2. ASSUME NEW file \in Programs \cup {Nothing}
        PROVE  file \in Seq(Pieces)
    <2>1. CASE file = Nothing
      BY <2>1 DEF Nothing
    <2>2. CASE file \in Programs
      <3>1. PICK j \in Jobs : file = Program(j)
        BY <2>2 DEF Programs
      <3> QED
        BY <1>1, <3>1
    <2> QED
      BY <2>1, <2>2
  <1>3. kernel = [r \in Runners |-> Nothing] /\ ran = [r \in Runners |-> Nothing]
    OBVIOUS
  <1>4. step \in [Runners -> Steps] /\ compiled \in [Runners -> BOOLEAN]
    BY DEF Steps
  <1>5. TypeOK
    <2>1. src \in Seq(Pieces) /\ exe \in Seq(Pieces) /\ Nothing \in Seq(Pieces)
      BY <1>2
    <2>2. ran \in [Runners -> Seq(Pieces)]
      BY <1>3, <2>1
    <2>3. kernel \in [Runners -> {<<Kernel(j)>> : j \in Jobs} \cup {Nothing}]
      BY <1>3
    <2> QED
      BY <1>4, <2>1, <2>2, <2>3 DEF TypeOK
  <1>6. FilesFollow /\ RunsCorrespondingTest
    BY DEF FilesFollow, RunsCorrespondingTest
  <1> QED
    BY <1>5, <1>6 DEF Inv

(* What is left of two files is a file again.                               *)
LEMMA OverwrittenType ==
  ASSUME NEW file \in Seq(Pieces), NEW text \in Seq(Pieces), NEW new \in Overwritten(file, text)
  PROVE  new \in Seq(Pieces)
  <1>1. CASE file = Nothing
    BY <1>1 DEF Overwritten
  <1>2. CASE file # Nothing
    <2>1. PICK tail \in Tails(file) : new = text \o tail \/ new = Append(text, Fragment) \o tail
      BY <1>2 DEF Overwritten
    <2>2. tail \in Seq(Pieces)
      <3>1. PICK n \in DOMAIN file : tail = SubSeq(file, n + 1, Len(file))
        BY DEF Tails
      <3>2. n \in 1..Len(file)
        OBVIOUS
      <3> QED
        BY <3>1, <3>2, SubSeqProperties
    <2>3. Fragment \in Pieces
      BY DEF Pieces
    <2> HIDE DEF Pieces, Fragment
    <2>4. Append(text, Fragment) \in Seq(Pieces)
      BY <2>3
    <2> QED
      BY <2>1, <2>2, <2>4, ConcatProperties
  <1> QED
    BY <1>1, <1>2

LEMMA KernelsAreFiles ==
  ASSUME TypeOK, NEW r \in Runners
  PROVE  kernel[r] \in Seq(Pieces)
  <1>1. ASSUME NEW j \in Jobs PROVE <<Kernel(j)>> \in Seq(Pieces)
    <2>1. Kernel(j) \in Pieces
      BY DEF Pieces
    <2> QED
      BY <2>1
  <1>2. kernel[r] \in {<<Kernel(j)>> : j \in Jobs} \cup {Nothing}
    BY DEF TypeOK
  <1>3. Nothing \in Seq(Pieces)
    BY DEF Nothing
  <1> QED
    BY <1>1, <1>2, <1>3

(* The shape of the state is kept by any number of processes.               *)
LEMMA NextType == TypeOK /\ [Next]_vars => TypeOK'
  <1> SUFFICES ASSUME TypeOK, [Next]_vars PROVE TypeOK'
    OBVIOUS
  <1> USE DEF TypeOK, Steps, Go
  <1>1. CASE UNCHANGED vars
    BY <1>1 DEF vars
  <1>2. ASSUME NEW r \in Runners, NEW j \in Jobs, Emit(r, j)
        PROVE  TypeOK'
    <2>1. job' \in [Runners -> Jobs] /\ step' \in [Runners -> Steps]
      BY <1>2 DEF Emit
    <2>2. kernel' \in [Runners -> {<<Kernel(k)>> : k \in Jobs} \cup {Nothing}]
      BY <1>2 DEF Emit
    <2> QED
      BY <1>2, <2>1, <2>2 DEF Emit
  <1>3. ASSUME NEW r \in Runners, WriteKernel(r)
        PROVE  TypeOK'
    <2>1. kernel[r] \in Seq(Pieces)
      BY KernelsAreFiles
    <2>2. src' \in Seq(Pieces)
      BY <1>3, <2>1, OverwrittenType DEF WriteKernel
    <2> QED
      BY <1>3, <2>2 DEF WriteKernel
  <1>4. ASSUME NEW r \in Runners, AppendTest(r)
        PROVE  TypeOK'
    <2>1. Test(job[r]) \in Pieces
      BY DEF Pieces
    <2>2. src' \in Seq(Pieces)
      BY <1>4, <2>1 DEF AppendTest
    <2> QED
      BY <1>4, <2>2 DEF AppendTest
  <1>5. ASSUME NEW r \in Runners, RemoveExe(r)
        PROVE  TypeOK'
    <2>1. exe' \in Seq(Pieces)
      BY <1>5 DEF RemoveExe, Nothing
    <2> QED
      BY <1>5, <2>1 DEF RemoveExe
  <1>6. ASSUME NEW r \in Runners, Compile(r)
        PROVE  TypeOK'
    BY <1>6 DEF Compile
  <1>7. ASSUME NEW r \in Runners, FailToCompile(r)
        PROVE  TypeOK'
    BY <1>7 DEF FailToCompile
  <1>8. ASSUME NEW r \in Runners, Run(r)
        PROVE  TypeOK'
    BY <1>8 DEF Run
  <1>9. ASSUME NEW r \in Runners, Return(r)
        PROVE  TypeOK'
    BY <1>9 DEF Return
  <1>10. ASSUME NEW r \in Runners, Interrupt(r)
         PROVE  TypeOK'
    BY <1>10 DEF Interrupt
  <1>11. ASSUME NEW r \in Runners, TruncateSource(r)
         PROVE  TypeOK'
    <2>1. src' \in Seq(Pieces)
      BY <1>11 DEF TruncateSource, Nothing
    <2> QED
      BY <1>11, <2>1 DEF TruncateSource
  <1> QED
    BY <1>1, <1>2, <1>3, <1>4, <1>5, <1>6, <1>7, <1>8, <1>9, <1>10, <1>11 DEF Next

(* The invariant is kept by every step of the only process.                 *)
LEMMA NextInv ==
  ASSUME Alone
  PROVE  Inv /\ [Next]_vars => Inv'
  <1> SUFFICES ASSUME Inv, [Next]_vars PROVE FilesFollow' /\ RunsCorrespondingTest'
    BY NextType DEF Inv
  <1> USE DEF Inv, TypeOK, FilesFollow, RunsCorrespondingTest, Steps, Go
  <1>1. CASE UNCHANGED vars
    BY <1>1 DEF vars
  <1>2. ASSUME NEW r \in Runners, NEW j \in Jobs, Emit(r, j)
        PROVE  FilesFollow' /\ RunsCorrespondingTest'
    <2>1. \A s \in Runners : step'[s] = "emitted" /\ kernel'[s] = <<Kernel(job'[s])>>
      BY <1>2 DEF Emit, Alone
    <2> QED
      BY <2>1
  <1>3. ASSUME NEW r \in Runners, WriteKernel(r)
        PROVE  FilesFollow' /\ RunsCorrespondingTest'
    <2>1. src' = <<Kernel(job[r])>>
      BY <1>3 DEF WriteKernel, Overwritten
    <2> QED
      BY <1>3, <2>1 DEF WriteKernel, Alone
  <1>4. ASSUME NEW r \in Runners, AppendTest(r)
        PROVE  FilesFollow' /\ RunsCorrespondingTest'
    <2>1. src' = Append(<<Kernel(job[r])>>, Test(job[r]))
      BY <1>4 DEF AppendTest
    <2>2. src' = Program(job[r])
      BY <2>1, AppendPair DEF Program
    <2> QED
      BY <1>4, <2>2 DEF AppendTest, Alone
  <1>5. ASSUME NEW r \in Runners, RemoveExe(r)
        PROVE  FilesFollow' /\ RunsCorrespondingTest'
    BY <1>5 DEF RemoveExe, Alone
  <1>6. ASSUME NEW r \in Runners, Compile(r)
        PROVE  FilesFollow' /\ RunsCorrespondingTest'
    BY <1>6 DEF Compile, Alone
  <1>7. ASSUME NEW r \in Runners, FailToCompile(r)
        PROVE  FilesFollow' /\ RunsCorrespondingTest'
    BY <1>7 DEF FailToCompile, Alone
  <1>8. ASSUME NEW r \in Runners, Run(r)
        PROVE  FilesFollow' /\ RunsCorrespondingTest'
    BY <1>8 DEF Run, Alone
  <1>9. ASSUME NEW r \in Runners, Return(r)
        PROVE  FilesFollow' /\ RunsCorrespondingTest'
    BY <1>9 DEF Return, Alone
  <1>10. ASSUME NEW r \in Runners, Interrupt(r)
         PROVE  FilesFollow' /\ RunsCorrespondingTest'
    BY <1>10 DEF Interrupt, Alone
  <1>11. ASSUME NEW r \in Runners, TruncateSource(r)
         PROVE  FilesFollow' /\ RunsCorrespondingTest'
    BY <1>11 DEF TruncateSource, Alone
  <1> QED
    BY <1>1, <1>2, <1>3, <1>4, <1>5, <1>6, <1>7, <1>8, <1>9, <1>10, <1>11 DEF Next

(* The shape of the state, for any number of processes.                     *)
THEOREM TypeCorrect == Spec => []TypeOK
  <1>1. Init => TypeOK
    BY InitInv DEF Inv
  <1>2. TypeOK /\ [Next]_vars => TypeOK'
    BY NextType
  <1> QED
    BY <1>1, <1>2, PTL DEF Spec

(* compile_and_test runs the kernel and the test of its own round, for any  *)
(* number of tests and any history of builds and interruptions.             *)
THEOREM CorrespondingTest ==
  ASSUME Alone
  PROVE  Spec => []RunsCorrespondingTest
  <1>1. Init => Inv
    BY InitInv
  <1>2. Inv /\ [Next]_vars => Inv'
    BY NextInv
  <1>3. Inv => RunsCorrespondingTest
    BY DEF Inv
  <1> QED
    BY <1>1, <1>2, <1>3, PTL DEF Spec
=============================================================================
