------------------------------ MODULE Terminal ------------------------------
(***************************************************************************)
(* configure_terminal(), restore_terminal() and exec_in_pty() of 15-pty:   *)
(* the user's terminal is switched to raw mode and back, and a command is  *)
(* started on a pseudo terminal.                                           *)
(*                                                                         *)
(* The repository ships main() as a stub that calls none of the three, so  *)
(* the module lets a caller do so in any order.  Meanwhile the user may    *)
(* press C-c and other processes may send a signal that kills.             *)
(***************************************************************************)
EXTENDS Integers

CONSTANTS MaxConfigures    \* bound: calls of configure_terminal()

ASSUME MaxConfiguresAssumption == MaxConfigures \in Nat

VARIABLES table,        \* descriptor table of the program: fd -> what it names
          settings,     \* settings[d]: local flags (c_lflag) of terminal d
          orig_termios, \* the flags that were saved
          handlers,     \* how often restore_terminal is registered with atexit()
          pc,           \* where the program is
          child,        \* the command
          found,        \* history: the settings the user's terminal had at first
          configured    \* history: calls of configure_terminal()

vars == <<table, settings, orig_termios, handlers, pc, child, found, configured>>

Devices  == {"terminal", "pty"}
Flags    == {"ECHO", "ICANON", "ISIG", "IEXTEN"}
RawFlags == {"ECHO", "ICANON", "ISIG"}      \* what raw mode clears

Std == {0, 1, 2}
Fds == Std \union {3}

NoChild == [status |-> "none", std |-> [fd \in Std |-> "none"], session |-> "users"]

\* Any of stdin, stdout and stderr may be closed; orig_termios is static, zero.
Init ==
    /\ table \in {t \in [Fds -> {"terminal", "none"}] : t[3] = "none"}
    /\ found \in SUBSET Flags
    /\ settings = [d \in Devices |-> IF d = "terminal" THEN found ELSE Flags]
    /\ orig_termios = {}
    /\ handlers = 0
    /\ pc = "idle"
    /\ child = NoChild
    /\ configured = 0

Alive == pc \notin {"exited", "killed"}

-----------------------------------------------------------------------------
(* configure_terminal() *)

\* Mutant: nothing is saved.
Unfetched == orig_termios

\* tcgetattr() and tcsetattr() of stdin fail, unnoticed, if it is closed.
Fetched == IF table[0] \in Devices THEN settings[table[0]] ELSE orig_termios

SaveSettings ==
    /\ pc = "idle"
    /\ configured < MaxConfigures
    /\ configured' = configured + 1
    /\ orig_termios' = Fetched
    /\ pc' = "saved"
    /\ UNCHANGED <<table, settings, handlers, child, found>>

\* Mutant: a second registration by mistake.
RegisteredTwice == handlers + 2

Registered == handlers + 1

RegisterRestore ==
    /\ pc = "saved"
    /\ handlers' = Registered
    /\ pc' = "registered"
    /\ UNCHANGED <<table, settings, orig_termios, child, found, configured>>

SetStdin(flags) ==
    settings' = [d \in Devices |-> IF d = table[0] THEN flags ELSE settings[d]]

\* Mutant: the flags are cleared in orig_termios instead of a copy.
OrigCleared == orig_termios \ RawFlags

OrigKept == orig_termios

SetRaw ==
    /\ pc = "registered"
    /\ orig_termios' = OrigKept
    /\ SetStdin(orig_termios \ RawFlags)
    /\ pc' = "idle"
    /\ UNCHANGED <<table, handlers, child, found, configured>>

-----------------------------------------------------------------------------
(* exec_in_pty() *)

\* The caller opens the pty: at the lowest free descriptor.
OpenPty ==
    /\ pc = "idle"
    /\ \A fd \in Fds : table[fd] # "pty"
    /\ \E fd \in Fds :
          /\ table[fd] = "none"
          /\ \A lower \in Fds : lower < fd => table[lower] # "none"
          /\ table' = [table EXCEPT ![fd] = "pty"]
    /\ UNCHANGED <<settings, orig_termios, handlers, pc, child, found, configured>>

\* The three dup2() in the child: none of them overwrites pty_fd, which one of
\* them names if it is 0, 1 or 2.
Redirected(pty_fd) ==
    LET Dup2(t, fd) == [t EXCEPT ![fd] = t[pty_fd]]
        last == Dup2(Dup2(Dup2(table, 0), 1), 2)
    IN  [fd \in Std |-> last[fd]]

\* Mutant: the command stays in the session of the program.
SessionShared == "users"

SessionOfCommand == "own"

\* posix_spawnp() starts a session leader, or fails and die() exits.
ExecInPty(pty_fd) ==
    /\ pc = "idle"
    /\ table[pty_fd] = "pty"
    /\ child.status = "none"
    /\ \/ /\ child' = [status |-> "running", std |-> Redirected(pty_fd), session |-> SessionOfCommand]
          /\ UNCHANGED pc
       \/ /\ pc' = "exiting"
          /\ UNCHANGED child
    /\ UNCHANGED <<table, settings, orig_termios, handlers, found, configured>>

-----------------------------------------------------------------------------
(* How the program ends *)

\* main() returns, whether it printed its usage or not: exit() follows.
MainReturns ==
    /\ pc = "idle"
    /\ pc' = "exiting"
    /\ UNCHANGED <<table, settings, orig_termios, handlers, child, found, configured>>

\* exit() calls every handler that is registered.
RestoreTerminal ==
    /\ pc = "exiting"
    /\ handlers > 0
    /\ handlers' = handlers - 1
    /\ SetStdin(orig_termios)
    /\ UNCHANGED <<table, orig_termios, pc, child, found, configured>>

Exit ==
    /\ pc = "exiting"
    /\ handlers = 0
    /\ pc' = "exited"
    /\ UNCHANGED <<table, settings, orig_termios, handlers, child, found, configured>>

\* C-c at the user's terminal kills all of the session, if it makes a signal.
Interrupt ==
    /\ Alive
    /\ "ISIG" \in settings["terminal"]
    /\ pc' = "killed"
    /\ child' = IF child.status = "running" /\ child.session = "users"
                THEN [child EXCEPT !.status = "interrupted"] ELSE child
    /\ UNCHANGED <<table, settings, orig_termios, handlers, found, configured>>

\* Another process kills the program; no handler runs.
Kill ==
    /\ Alive
    /\ pc' = "killed"
    /\ UNCHANGED <<table, settings, orig_termios, handlers, child, found, configured>>

Ended == ~Alive /\ UNCHANGED vars

Next ==
    \/ SaveSettings \/ RegisterRestore \/ SetRaw
    \/ OpenPty \/ \E pty_fd \in Fds : ExecInPty(pty_fd)
    \/ MainReturns \/ RestoreTerminal \/ Exit
    \/ Interrupt \/ Kill
    \/ Ended

Spec == Init /\ [][Next]_vars

-----------------------------------------------------------------------------
(* Properties *)

TypeOK ==
    /\ table \in [Fds -> Devices \union {"none"}]
    /\ settings \in [Devices -> SUBSET Flags]
    /\ orig_termios \in SUBSET Flags
    /\ handlers \in 0..configured
    /\ pc \in {"idle", "saved", "registered", "exiting", "exited", "killed"}
    /\ child \in [status : {"none", "running", "interrupted"},
                  std : [Std -> Devices \union {"none"}], session : {"users", "own"}]
    /\ found \in SUBSET Flags
    /\ configured \in 0..MaxConfigures

\* However the program exits - by return or die(), before, after or without raw
\* mode, with a command running or not - the terminal is left as it was found, if
\* configure_terminal() was called at most once.
ExitRestores ==
    pc = "exited" /\ table[0] = "terminal" /\ configured <= 1 =>
        settings["terminal"] = found

\* A program that is killed leaves raw mode or what was found, and no mixture,
\* wherever it was hit: between two calls of configure_terminal(), while exit()
\* runs the handlers, or in the middle of either.
RawOrFound ==
    table[0] = "terminal" => settings["terminal"] \in {found, found \ RawFlags}

\* The command has nothing but the pty, whatever descriptor that got, and a C-c
\* at the user's terminal does not reach it.
CommandIsSetApart ==
    /\ child.status = "running" => \A fd \in Std : child.std[fd] = "pty"
    /\ child.status # "interrupted"

-----------------------------------------------------------------------------
(* What a comment promises and the code does not keep *)

\* "Register an atexit(3) handler to surely restore it when the process exits"
\* (scribble.c:91): the code does not if configure_terminal() was called twice, as
\* the second call saves the raw settings of the first.
ExitAlwaysRestores ==
    pc = "exited" /\ table[0] = "terminal" => settings["terminal"] = found
=============================================================================
