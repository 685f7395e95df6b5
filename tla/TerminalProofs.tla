--------------------------- MODULE TerminalProofs ---------------------------
(* Theorems about Terminal. *)
EXTENDS Terminal, TLAPS

\* A call that has not registered its handler yet is one the count of handlers
\* lags behind.
Pending == pc = "saved" => handlers < configured

\* The type invariant holds whatever the number of calls: no more handlers are
\* registered than calls were made.
THEOREM TerminalTypeCorrect == Spec => []TypeOK
<1>1. Init => TypeOK /\ Pending
  <2> SUFFICES ASSUME Init PROVE TypeOK /\ Pending
    OBVIOUS
  <2>1. settings \in [Devices -> SUBSET Flags]
    BY DEF Init
  <2>2. child \in [status : {"none", "running", "interrupted"},
                  std : [Std -> Devices \union {"none"}], session : {"users", "own"}]
    BY DEF Init, NoChild
  <2>3. table \in [Fds -> Devices \union {"none"}]
    BY DEF Init, Devices
  <2> QED
    BY <2>1, <2>2, <2>3, MaxConfiguresAssumption DEF Init, TypeOK, Pending
<1>2. TypeOK /\ Pending /\ [Next]_vars => TypeOK' /\ Pending'
  <2> SUFFICES ASSUME TypeOK, Pending, [Next]_vars PROVE TypeOK' /\ Pending'
    OBVIOUS
  <2> USE MaxConfiguresAssumption DEF TypeOK, Pending
  <2>1. CASE SaveSettings
    BY <2>1 DEF SaveSettings, Fetched, Devices
  <2>2. CASE RegisterRestore
    BY <2>2 DEF RegisterRestore, Registered
  <2>3. CASE SetRaw
    BY <2>3 DEF SetRaw, OrigKept, SetStdin
  <2>4. CASE OpenPty
    BY <2>4 DEF OpenPty, Devices
  <2>5. ASSUME NEW pty_fd \in Fds, ExecInPty(pty_fd) PROVE TypeOK' /\ Pending'
    <3>1. Redirected(pty_fd) \in [Std -> Devices \union {"none"}]
      BY DEF Redirected, Std, Fds
    <3> QED
      BY <2>5, <3>1 DEF ExecInPty, SessionOfCommand
  <2>6. CASE MainReturns
    BY <2>6 DEF MainReturns
  <2>7. CASE RestoreTerminal
    BY <2>7 DEF RestoreTerminal, SetStdin
  <2>8. CASE Exit
    BY <2>8 DEF Exit
  <2>9. CASE Interrupt
    BY <2>9 DEF Interrupt
  <2>10. CASE Kill
    BY <2>10 DEF Kill
  <2>11. CASE UNCHANGED vars
    BY <2>11 DEF vars
  <2> QED
    BY <2>1, <2>2, <2>3, <2>4, <2>5, <2>6, <2>7, <2>8, <2>9, <2>10, <2>11 DEF Next, Ended
<1> QED
  BY <1>1, <1>2, PTL DEF Spec

-----------------------------------------------------------------------------
\* What makes the settings come back, at every step of configure_terminal() and
\* of exit(), for a program that was started with the user's terminal as stdin.
\* Saved is what the last call saved: the raw settings from the second on.
Saved == IF configured <= 1 THEN found ELSE found \ RawFlags

Restorable ==
    table[0] = "terminal" =>
        /\ configured > 0 => orig_termios = Saved
        /\ configured = 0 => handlers = 0
        /\ pc \in {"saved", "registered"} => configured > 0
        /\ settings["terminal"] \in {found, found \ RawFlags}
        /\ pc = "registered" => handlers > 0
        /\ pc = "saved" => settings["terminal"] = Saved
        /\ pc = "idle" /\ configured > 0 =>
              /\ settings["terminal"] = found \ RawFlags
              /\ handlers > 0
        /\ pc = "idle" /\ configured = 0 => settings["terminal"] = found
        /\ pc \in {"exiting", "exited"} /\ handlers = 0 => settings["terminal"] = Saved
        /\ pc = "exited" => handlers = 0

\* The program's stdin is opened by nobody else than who started it.
LEMMA StdinStays ==
    ASSUME TypeOK, [Next]_vars, table'[0] = "terminal"
    PROVE  table[0] = "terminal"
BY DEF TypeOK, Next, vars, SaveSettings, Fetched, RegisterRestore, Registered, SetRaw, OrigKept, OpenPty, ExecInPty, SessionOfCommand,
       MainReturns, RestoreTerminal, Exit, Interrupt, Kill, Ended, Fds, Std

\* What is saved, set and registered fits together in every state.
LEMMA StaysRestorable == Spec => []Restorable
<1>1. Init => Restorable
  BY DEF Init, Restorable, Saved, Devices
<1>2. TypeOK /\ Restorable /\ [Next]_vars => Restorable'
  <2> SUFFICES ASSUME TypeOK, Restorable, [Next]_vars, table'[0] = "terminal"
               PROVE  Restorable'
    BY DEF Restorable
  <2>0. table[0] = "terminal"
    BY StdinStays
  <2> USE <2>0 DEF TypeOK, Restorable, Saved, Devices
  <2>1. CASE SaveSettings
    BY <2>1 DEF SaveSettings, Fetched
  <2>2. CASE RegisterRestore
    BY <2>2 DEF RegisterRestore, Registered
  <2>3. CASE SetRaw
    <3>1. orig_termios \ RawFlags = found \ RawFlags
      BY <2>3 DEF SetRaw, OrigKept
    <3> QED
      BY <2>3, <3>1 DEF SetRaw, OrigKept, SetStdin
  <2>4. CASE OpenPty
    BY <2>4 DEF OpenPty
  <2>5. ASSUME NEW pty_fd \in Fds, ExecInPty(pty_fd) PROVE Restorable'
    BY <2>5 DEF ExecInPty, SessionOfCommand
  <2>6. CASE MainReturns
    BY <2>6 DEF MainReturns
  <2>7. CASE RestoreTerminal
    BY <2>7 DEF RestoreTerminal, SetStdin
  <2>8. CASE Exit
    BY <2>8 DEF Exit
  <2>9. CASE Interrupt
    BY <2>9 DEF Interrupt
  <2>10. CASE Kill
    BY <2>10 DEF Kill
  <2>11. CASE UNCHANGED vars
    BY <2>11 DEF vars
  <2> QED
    BY <2>1, <2>2, <2>3, <2>4, <2>5, <2>6, <2>7, <2>8, <2>9, <2>10, <2>11 DEF Next, Ended
<1> QED
  BY <1>1, <1>2, TerminalTypeCorrect, PTL DEF Spec

\* The settings found come back whenever the process exits, if it has called
\* configure_terminal() once or never.
THEOREM TerminalIsRestored == Spec => []ExitRestores
<1>1. Restorable => ExitRestores
  BY DEF Restorable, ExitRestores, Saved
<1> QED
  BY <1>1, StaysRestorable, PTL

\* Wherever the process is hit, the settings are those found or those of raw mode,
\* however often configure_terminal() was called.
THEOREM TerminalIsRawOrFound == Spec => []RawOrFound
<1>1. Restorable => RawOrFound
  BY DEF Restorable, RawOrFound, Saved
<1> QED
  BY <1>1, StaysRestorable, PTL

-----------------------------------------------------------------------------
\* Whichever descriptor the pty has, the three dup2() leave it in all of Std.
LEMMA DupsSpreadPty ==
    ASSUME TypeOK, NEW pty_fd \in Fds, table[pty_fd] = "pty"
    PROVE  Redirected(pty_fd) = [fd \in Std |-> "pty"]
BY DEF TypeOK, Redirected, Std, Fds

\* A command that was started is the leader of a session of its own.
Apart ==
    child.status # "none" =>
        /\ child.status = "running" /\ child.session = "own"
        /\ \A fd \in Std : child.std[fd] = "pty"

\* The command has the pty as stdin, stdout and stderr, and no C-c typed at the
\* user's terminal ever reaches it.
THEOREM CommandStaysApart == Spec => []CommandIsSetApart
<1>1. Init => Apart
  BY DEF Init, NoChild, Apart
<1>2. TypeOK /\ Apart /\ [Next]_vars => Apart'
  <2> SUFFICES ASSUME TypeOK, Apart, [Next]_vars PROVE Apart'
    OBVIOUS
  <2>1. ASSUME NEW pty_fd \in Fds, ExecInPty(pty_fd) PROVE Apart'
    <3>1. Redirected(pty_fd) = [fd \in Std |-> "pty"]
      BY <2>1, DupsSpreadPty DEF ExecInPty, SessionOfCommand
    <3> QED
      BY <2>1, <3>1 DEF ExecInPty, SessionOfCommand, Apart
  <2>2. CASE Interrupt
    BY <2>2 DEF Interrupt, Apart
  <2>3. CASE UNCHANGED child
    BY <2>3 DEF Apart
  <2> QED
    BY <2>1, <2>2, <2>3 DEF Next, vars, SaveSettings, Fetched, RegisterRestore, Registered, SetRaw, OrigKept, OpenPty,
       MainReturns, RestoreTerminal, Exit, Kill, Ended
<1>3. Apart => CommandIsSetApart
  BY DEF Apart, CommandIsSetApart
<1> QED
  BY <1>1, <1>2, <1>3, TerminalTypeCorrect, PTL DEF Spec
=============================================================================
