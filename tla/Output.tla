-------------------------------- MODULE Output --------------------------------
(***************************************************************************)
(* The last stage of luka (src/main.c, optimize() and generate_output()):  *)
(* the LLVM module is written to a temporary file, which a child process   *)
(* links with gcc, or which is renamed, or copied by IO_copy() of          *)
(* src/io.c, to the output path.                                           *)
(*                                                                         *)
(* Every call to the system may fail.  Files are seen as what they hold:   *)
(* the generated code is the blocks 1..Blocks that IO_copy() would move.   *)
(***************************************************************************)
EXTENDS Naturals, FiniteSets

CONSTANTS
  Blocks,   \* the size of the generated file, in blocks of IO_copy()
  Failing   \* the calls that may fail

Call == {"passes", "bitcode", "mkstemps", "emit", "close", "fork", "exec",
         "gcc", "unlink", "rename", "open", "read", "write", "fclose"}

ASSUME OutputAssumptions == Blocks \in Nat \ {0} /\ Failing \subseteq Call

VARIABLES
  options,  \* the flags of the command line: bitcode, assemble, link
  parent,   \* where the compiler is in generate_output()
  child,    \* where the process that fork() made is
  status,   \* what generate_output() returned in the parent
  temp,     \* the temporary file: "none", "empty" or "code"
  output,   \* the blocks at the output path; 0 is what was there before
  block,    \* the block IO_copy() reads next
  failed    \* history: the calls that failed

vars == <<options, parent, child, status, temp, output, block, failed>>

Old == {0}
Code == 1 .. Blocks

\* get_args(): -S clears assemble and link, -c clears link
Options == {o \in [bitcode : BOOLEAN, assemble : BOOLEAN, link : BOOLEAN] :
              o.link => o.assemble}

Init ==
  /\ options \in Options
  /\ parent = "optimize" /\ child = "none"
  /\ status = "running"
  /\ temp = "none" /\ output = Old
  /\ block = 1
  /\ failed = {}

Fail(call) == call \in Failing /\ failed' = failed \union {call}
Works == UNCHANGED failed

Return(result) == parent' = "returned" /\ status' = result
Goto(pc) == parent' = pc /\ UNCHANGED status

-----------------------------------------------------------------------------
(* The compiler *)

\* The status set for a failing pass manager is overwritten with LUKA_SUCCESS.
Optimize ==
  /\ parent = "optimize"
  /\ Works \/ Fail("passes")
  /\ Goto(IF options.bitcode THEN "bitcode" ELSE "mkstemps")
  /\ UNCHANGED <<options, child, temp, output, block>>

\* The result of LLVMWriteBitcodeToFile() is not looked at.
WriteBitcode ==
  /\ parent = "bitcode"
  /\ \/ Works /\ output' = Code
     \/ Fail("bitcode") /\ output' \in {Old, {}}
  /\ Return("success")
  /\ UNCHANGED <<options, child, temp, block>>

MakeTemp ==
  /\ parent = "mkstemps"
  /\ \/ Works /\ temp' = "empty" /\ Goto("emit")
     \/ Fail("mkstemps") /\ Return("general error") /\ UNCHANGED temp
  /\ UNCHANGED <<options, child, output, block>>

EmitInPlace ==                                  \* mutant: no temporary file
  /\ parent = "emit"
  /\ temp' = "code"
  /\ \/ Works /\ Goto("close") /\ output' = Code
     \/ Fail("emit") /\ Return("llvm error") /\ output' = {}
  /\ UNCHANGED <<options, child, block>>

Emit ==
  /\ parent = "emit"
  /\ \/ Works /\ temp' = "code" /\ Goto("close")
     \/ Fail("emit") /\ Return("llvm error") /\ UNCHANGED temp
  /\ UNCHANGED <<options, child, output, block>>

Close ==
  /\ parent = "close"
  /\ \/ Works /\ Goto(IF options.link THEN "fork" ELSE "rename")
     \/ Fail("close") /\ Return("io error")
  /\ UNCHANGED <<options, child, temp, output, block>>

\* A fork() that fails returns -1, which takes the branch of the parent.
Fork ==
  /\ parent = "fork"
  /\ \/ Works /\ child' = "exec"
     \/ Fail("fork") /\ UNCHANGED child
  /\ Goto("wait")
  /\ UNCHANGED <<options, temp, output, block>>

WaitNot ==                                      \* mutant: wait() left out
  /\ parent = "wait"
  /\ Goto("unlink")
  /\ UNCHANGED <<options, child, temp, output, block, failed>>

WaitForChild ==                                 \* mutant: loops on ECHILD
  /\ parent = "wait" /\ child \in {"none", "exited", "returned"}
  /\ Goto(IF child = "none" THEN "wait" ELSE "unlink")
  /\ UNCHANGED <<options, child, temp, output, block, failed>>

\* wait(NULL) drops the status of the child; without one it returns at once.
Wait ==
  /\ parent = "wait" /\ child \in {"none", "exited", "returned"}
  /\ Goto("unlink")
  /\ UNCHANGED <<options, child, temp, output, block, failed>>

UnlinkNot ==                                    \* mutant: unlink() left out
  /\ parent = "unlink"
  /\ Return("success")
  /\ UNCHANGED <<options, child, temp, output, block, failed>>

\* The result of unlink() is cast away.
Unlink ==
  /\ parent = "unlink"
  /\ \/ Works /\ temp' = "none"
     \/ Fail("unlink") /\ UNCHANGED temp
  /\ Return("success")
  /\ UNCHANGED <<options, child, output, block>>

RenameOnly ==                                   \* mutant: no fallback to IO_copy()
  /\ parent = "rename"
  /\ \/ Works /\ temp' = "none" /\ output' = Code
     \/ Fail("rename") /\ UNCHANGED <<temp, output>>
  /\ Return("success")
  /\ UNCHANGED <<options, child, block>>

Rename ==
  /\ parent = "rename"
  /\ \/ Works /\ temp' = "none" /\ output' = Code /\ Return("success")
     \/ Fail("rename") /\ Goto("open") /\ UNCHANGED <<temp, output>>
  /\ UNCHANGED <<options, child, block>>

\* IO_copy(): the output path is truncated by fopen()
CopyOpen ==
  /\ parent = "open"
  /\ \/ Works /\ output' = {} /\ Goto("copy")
     \/ Fail("open") /\ Return("io error") /\ UNCHANGED output
  /\ UNCHANGED <<options, child, temp, block>>

\* fread() and fwrite(); the result of the latter is not looked at
CopyBlock ==
  /\ parent = "copy"
  /\ \/ Works /\ output' = output \union {block}
     \/ Fail("write") /\ UNCHANGED output
  /\ block' = block + 1
  /\ Goto(IF block = Blocks THEN "fclose" ELSE "copy")
  /\ UNCHANGED <<options, child, temp>>

\* A short read that is not the end of the file: the loop goes round again.
CopyReadFails ==
  /\ parent = "copy"
  /\ Fail("read")
  /\ UNCHANGED <<options, parent, child, status, temp, output, block>>

CopyClose ==
  /\ parent = "fclose"
  /\ \/ Works /\ Return("success")
     \/ Fail("fclose") /\ Return("io error")
  /\ UNCHANGED <<options, child, temp, output, block>>

Parent ==
  \/ Optimize \/ WriteBitcode \/ MakeTemp \/ Emit \/ Close
  \/ Fork \/ Wait \/ Unlink
  \/ Rename \/ CopyOpen \/ CopyBlock \/ CopyReadFails \/ CopyClose

-----------------------------------------------------------------------------
(* The child *)

\* An execvp() that returns leaves a second compiler, which goes on to return
\* LUKA_SUCCESS and to clean up in main().
Exec ==
  /\ child = "exec"
  /\ \/ Works /\ child' = "gcc"
     \/ Fail("exec") /\ child' = "returned"
  /\ UNCHANGED <<options, parent, status, temp, output, block>>

\* gcc needs the object file until it is done.
Link ==
  /\ child = "gcc"
  /\ \/ temp = "code" /\ Works /\ output' = Code
     \/ Fail("gcc") /\ UNCHANGED output
  /\ child' = "exited"
  /\ UNCHANGED <<options, parent, status, temp, block>>

Child == Exec \/ Link

Terminated ==
  /\ parent = "returned" /\ child \in {"none", "exited", "returned"}
  /\ UNCHANGED vars

Next == Parent \/ Child \/ Terminated

\* Both processes are scheduled by the system; gcc is taken to terminate.
Spec == Init /\ [][Next]_vars /\ WF_vars(Parent) /\ WF_vars(Child)

-----------------------------------------------------------------------------
(* Properties *)

\* Every variable has the type its C counterpart has; IO_copy() reads at most
\* one block past the last.
TypeOK ==
  /\ options \in Options
  /\ parent \in {"optimize", "bitcode", "mkstemps", "emit", "close", "fork", "wait",
                 "unlink", "rename", "open", "copy", "fclose", "returned"}
  /\ child \in {"none", "exec", "gcc", "exited", "returned"}
  /\ status \in {"running", "success", "general error", "llvm error", "io error"}
  /\ temp \in {"none", "empty", "code"}
  /\ output \subseteq 0 .. Blocks
  /\ block \in 1 .. Blocks + 1
  /\ failed \subseteq Failing

\* The object file is there as long as a linker may read it, although another
\* process is to remove it (main.c:837-846).
LinkerHasObject == child \in {"exec", "gcc"} => temp = "code"

\* Success without the whole output is reported only when a call failed whose
\* result generate_output() and IO_copy() drop (main.c:767, 837-844, io.c:166).
SuccessUnlessDropped ==
  (status = "success" /\ output # Code) =>
    failed \intersect {"bitcode", "fork", "exec", "gcc", "write"} # {}

\* An error leaves what was at the output path, unless the copy that stands in
\* for a rename across file systems had begun (main.c:850-868).
OldOutputKept ==
  status \notin {"running", "success"} => (output = Old \/ "rename" \in failed)

\* A success leaves its temporary file behind only when the result of unlink()
\* was dropped, or when the file was copied and not renamed: nothing removes it
\* after IO_copy() (main.c:843-868).
TempRemoved ==
  status = "success" => (temp = "none" \/ failed \intersect {"rename", "unlink"} # {})

\* The compiler returns, unless IO_copy() meets a read error (io.c:163-171):
\* it never waits for a child that does not exist.
Returns == <>(parent = "returned" \/ "read" \in failed)

=============================================================================
