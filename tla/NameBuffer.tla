----------------------------- MODULE NameBuffer -----------------------------
(***************************************************************************)
(* execname() of 22-netlink: the path of a process's executable, read with *)
(* readlink(2), which does not terminate it, into a buffer of the caller.  *)
(*                                                                         *)
(* A path and the buffer are sequences; the buffer starts with whatever    *)
(* was in it.  Nobody calls the function yet: main() is a stub.            *)
(***************************************************************************)
EXTENDS Integers, SequencesExt

Nul  == 0
Gone == <<>>        \* the link of a process that has exited
NULL == <<>>        \* the result if there is none

\* Mutant: no room is left for the terminator.
RoomForAll(buf) == Len(buf)

RoomForName(buf) == Len(buf) - 1

\* readlink() fails for a process that has exited, and for a size of zero.
LinkIsRead(link, buf) == link # Gone /\ RoomForName(buf) > 0

\* What the buffer holds afterwards: its index len is the element len + 1.
execname(link, buf) ==
    IF ~ LinkIsRead(link, buf) THEN [name |-> NULL, buf |-> buf]
    ELSE LET len    == IF Len(link) <= RoomForName(buf) THEN Len(link) ELSE RoomForName(buf)
             filled == SubSeq(link, 1, len) \o <<Nul>> \o SubSeq(buf, len + 2, Len(buf))
         IN  [name |-> filled, buf |-> filled]

\* The C string at the start of a buffer.
StringIn(buf) == SubSeq(buf, 1, (CHOOSE n \in DOMAIN buf : buf[n] = Nul
                                     /\ \A m \in 1..(n - 1) : buf[m] # Nul) - 1)
=============================================================================
