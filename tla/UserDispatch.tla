---------------------------- MODULE UserDispatch ----------------------------
(***************************************************************************)
(* 24-syscall: a flag in the program's memory tells the kernel whether a   *)
(* system call is carried out or handed to a signal handler (SIGSYS).      *)
(*                                                                         *)
(* usyscall_init() is a stub, so that the kernel does not know of the flag *)
(* yet; "installed" says whether it does what its comments describe.  The  *)
(* handler itself makes no call but the return from it, which is exempt.   *)
(***************************************************************************)
EXTENDS Integers, SequencesExt

\* usyscall_flag starts with "allow"; calls records how each call went.
Started == [blocked |-> FALSE, calls |-> <<>>]

usyscall_enable(s, enable) == [s EXCEPT !.blocked = enable]

\* Mutant: the handler leaves the flag alone.
HandlerKeepingFlag(s) == s

\* The handler unblocks, and nothing blocks again when it returns.
usyscall_signal(s) == usyscall_enable(s, FALSE)

Call(s, installed) ==
    IF installed /\ s.blocked
    THEN usyscall_signal([s EXCEPT !.calls = Append(@, "SIGSYS")])
    ELSE [s EXCEPT !.calls = Append(@, "done")]

\* A program is a sequence of system calls and calls of usyscall_enable().
Operations == {"call", "enable", "disable"}

After(program, installed) ==
    FoldLeft(LAMBDA s, op : IF op = "call" THEN Call(s, installed)
                            ELSE usyscall_enable(s, op = "enable"),
             Started, program)

\* That of main(): three times write(2), and one call that does not exist.
MainProgram == <<"call", "enable", "call", "call", "disable", "call">>
=============================================================================
