----------------------------- MODULE ByteStream -----------------------------
(***************************************************************************)
(* What a connection promises to the application that reads from it: the   *)
(* AsyncRead contract of a byte stream.  Bytes enter a pipe in order and   *)
(* leave it in order; when the input has ended and the pipe is empty the   *)
(* end may be reported, and nothing comes out afterwards.                  *)
(***************************************************************************)
EXTENDS Naturals, Sequences

CONSTANT MaxBytes   \* bound: how many bytes the stream carries

VARIABLES
  pipe,     \* bytes that entered and have not left
  out,      \* bytes that have left
  closed,   \* no byte enters any more
  done      \* the end has been reported

vars == <<pipe, out, closed, done>>

Init == pipe = <<>> /\ out = <<>> /\ closed = FALSE /\ done = FALSE

\* Byte k of the stream is the number k.
Entered == Len(out) + Len(pipe)

Arrive(n) ==
  /\ ~closed
  /\ pipe' = pipe \o [i \in 1..n |-> Entered + i]
  /\ UNCHANGED <<out, closed, done>>

Deliver(n) ==
  /\ out' = out \o SubSeq(pipe, 1, n)
  /\ pipe' = SubSeq(pipe, n + 1, Len(pipe))
  /\ UNCHANGED <<closed, done>>

End == ~closed /\ closed' = TRUE /\ UNCHANGED <<pipe, out, done>>

ReportEnd ==
  /\ closed /\ pipe = <<>>
  /\ done' = TRUE
  /\ UNCHANGED <<pipe, out, closed>>

Next ==
  \/ \E n \in 1..(MaxBytes - Entered) : Arrive(n)
  \/ \E n \in 1..Len(pipe) : Deliver(n)
  \/ End
  \/ ReportEnd

Spec == Init /\ [][Next]_vars
=============================================================================
