----------------------------- MODULE TestRunner -----------------------------
(***************************************************************************)
(* compile_and_test (JIT.cpp) and run_test.sh: a test writes the kernel to *)
(* a file of its own, and the script makes test.cpp of it and of the test  *)
(* program, compiles it and runs it.  The names test.cpp and test.out are  *)
(* fixed, so all the runs in the directory share the two files, and so do  *)
(* the files that are there from before (both are under version control).  *)
(* The script has no `set -e', and the result of system() is not used.     *)
(***************************************************************************)
EXTENDS Naturals, Sequences

CONSTANTS
    Runners,     \* the processes that call compile_and_test
    Tests,       \* the test programs
    Builds,      \* the states of the compiler the kernels come from
    Signature    \* the parameters of the kernel of each test

VARIABLES
    step,        \* what a runner has done in its round, "idle" between rounds
    job,         \* the test of the round, and the build of the compiler
    kernel,      \* the temporary file of the round
    src,         \* test.cpp, the pieces it was put together from
    exe,         \* test.out, the source it was compiled from, or Nothing
    ran,         \* the source of what the round has run, or Nothing
    compiled     \* not in the code: whether the compiler has accepted test.cpp

vars == <<step, job, kernel, src, exe, ran, compiled>>

-----------------------------------------------------------------------------
Jobs == [test : Tests, build : Builds]

(* The pieces of a test.cpp: the kernel comes from a build of the compiler; *)
(* of a piece that has been overwritten in part, the end remains.           *)
Kernel(j) == [part |-> "kernel", test |-> j.test, build |-> j.build]
Test(j)   == [part |-> "test", test |-> j.test]
Fragment  == [part |-> "fragment"]

Program(j) == <<Kernel(j), Test(j)>>
Programs == {Program(j) : j \in Jobs}
Pieces == {Kernel(j) : j \in Jobs} \cup {Test(j) : j \in Jobs} \cup {Fragment}

Nothing == << >>

Steps == {"idle", "emitted", "truncated", "written", "appended", "removed", "compiled", "ran"}

Init ==
    /\ step = [r \in Runners |-> "idle"]
    /\ job \in [Runners -> Jobs]
    /\ kernel = [r \in Runners |-> Nothing]
    /\ src \in Programs \cup {Nothing}
    /\ exe \in Programs \cup {Nothing}
    /\ ran = [r \in Runners |-> Nothing]
    /\ compiled = [r \in Runners |-> FALSE]

Go(r, from, to) == step[r] = from /\ step' = [step EXCEPT ![r] = to]

-----------------------------------------------------------------------------
(* compile_and_test: mkstemp makes a new file, compile_to_file fills it.    *)
Emit(r, j) ==
    /\ Go(r, "idle", "emitted")
    /\ job' = [job EXCEPT ![r] = j]
    /\ kernel' = [kernel EXCEPT ![r] = <<Kernel(j)>>]
    /\ UNCHANGED <<src, exe, ran, compiled>>

(* cat $KERNEL > $TEST_FILE: the shell opens the file and truncates it ...  *)
TruncateSource(r) ==
    /\ Go(r, "emitted", "truncated")
    /\ src' = Nothing
    /\ UNCHANGED <<job, kernel, exe, ran, compiled>>

(* ... and cat writes from its start, over what another round may have put  *)
(* there meanwhile: over some of its pieces, the last of them wholly or in  *)
(* part.                                                                    *)
Tails(file) == {SubSeq(file, n + 1, Len(file)) : n \in DOMAIN file}

Overwritten(file, text) ==
    IF file = Nothing
    THEN {text}
    ELSE {text \o tail : tail \in Tails(file)}
         \cup {Append(text, Fragment) \o tail : tail \in Tails(file)}

WriteKernel(r) ==
    /\ Go(r, "truncated", "written")
    /\ src' \in Overwritten(src, kernel[r])
    /\ UNCHANGED <<job, kernel, exe, ran, compiled>>

(* Faulty variant: echo $TEST >> $TEST_FILE.                                *)
AppendName(r) ==
    /\ Go(r, "written", "appended")
    /\ src' = Append(src, [part |-> "name", test |-> job[r].test])
    /\ UNCHANGED <<job, kernel, exe, ran, compiled>>

(* cat $TEST >> $TEST_FILE: at its end, wherever that is by now.            *)
AppendTest(r) ==
    /\ Go(r, "written", "appended")
    /\ src' = Append(src, Test(job[r]))
    /\ UNCHANGED <<job, kernel, exe, ran, compiled>>

(* Faulty variant: the executable stays.                                    *)
KeepExe(r) ==
    /\ Go(r, "appended", "removed")
    /\ UNCHANGED <<job, kernel, src, exe, ran, compiled>>

(* mkdir -p $BIN_DIR; rm -f $TEST_EXE                                       *)
RemoveExe(r) ==
    /\ Go(r, "appended", "removed")
    /\ exe' = Nothing
    /\ UNCHANGED <<job, kernel, src, ran, compiled>>

(* What the compiler can make a program of: one main, a kernel with the     *)
(* parameters that it calls, of whatever test, before it, and no two        *)
(* kernels with the same parameters.  A fragment may do no harm.            *)
IsKernel(piece) == piece.part = "kernel"
IsTest(piece) == piece.part = "test"

Links(file) ==
    \E n \in DOMAIN file :
        /\ \A m \in DOMAIN file : IsTest(file[m]) <=> m = n
        /\ \E m \in DOMAIN file :
              m < n /\ IsKernel(file[m]) /\ Signature[file[m].test] = Signature[file[n].test]
        /\ \A k, m \in DOMAIN file :
              /\ IsKernel(file[k]) /\ IsKernel(file[m])
              /\ Signature[file[k].test] = Signature[file[m].test]
              => k = m

(* $CXX $CXXFLAGS $TEST_FILE -o $TEST_EXE                                   *)
Compile(r) ==
    /\ Go(r, "removed", "compiled")
    /\ Links(src)
    /\ exe' = src
    /\ compiled' = [compiled EXCEPT ![r] = TRUE]
    /\ UNCHANGED <<job, kernel, src, ran>>

(* The file is not valid C++: the kernel, or what other rounds have made of *)
(* the file.                                                                *)
FailToCompile(r) ==
    /\ Go(r, "removed", "compiled")
    /\ compiled' = [compiled EXCEPT ![r] = FALSE]
    /\ UNCHANGED <<job, kernel, src, exe, ran>>

(* ./$TEST_EXE                                                              *)
Run(r) ==
    /\ Go(r, "compiled", "ran")
    /\ ran' = [ran EXCEPT ![r] = exe]
    /\ UNCHANGED <<job, kernel, src, exe, compiled>>

(* system() returns; the temporary file is not removed.                     *)
Return(r) ==
    /\ Go(r, "ran", "idle")
    /\ UNCHANGED <<job, kernel, src, exe, ran, compiled>>

(* The user stops the round; the files stay as they are.                    *)
Interrupt(r) ==
    /\ step[r] # "idle"
    /\ step' = [step EXCEPT ![r] = "idle"]
    /\ UNCHANGED <<job, kernel, src, exe, ran, compiled>>

Next ==
    \E r \in Runners :
        \/ \E j \in Jobs : Emit(r, j)
        \/ TruncateSource(r) \/ WriteKernel(r) \/ AppendTest(r) \/ RemoveExe(r)
        \/ Compile(r) \/ FailToCompile(r) \/ Run(r) \/ Return(r)
        \/ Interrupt(r)

Spec == Init /\ [][Next]_vars

-----------------------------------------------------------------------------
(* The shape of the state.                                                  *)
TypeOK ==
    /\ step \in [Runners -> Steps]
    /\ job \in [Runners -> Jobs]
    /\ kernel \in [Runners -> {<<Kernel(j)>> : j \in Jobs} \cup {Nothing}]
    /\ src \in Seq(Pieces)
    /\ exe \in Seq(Pieces)
    /\ ran \in [Runners -> Seq(Pieces)]
    /\ compiled \in [Runners -> BOOLEAN]

(* "Compiles into a temporary file and runs the corresponding test"         *)
(* (JIT.cpp): what a round runs is the kernel of this round, from this      *)
(* build of the compiler, with the test of this round; when the kernel does *)
(* not compile nothing runs.  Never does a round report the success of an   *)
(* executable that another round, or an interrupted one, has left behind.   *)
RunsCorrespondingTest ==
    \A r \in Runners :
        step[r] = "ran" => ran[r] = IF compiled[r] THEN Program(job[r]) ELSE Nothing
=============================================================================
