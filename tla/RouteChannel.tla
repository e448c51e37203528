---------------------------- MODULE RouteChannel ----------------------------
(***************************************************************************)
(* What a logical connection is promised by the scheduler of the tunnel,   *)
(* whatever the other connections do: a first-in-first-out channel from    *)
(* enqueue() to the socket, which may break.  A frame goes straight to the *)
(* socket or waits, but never straight past one that waits; what waits     *)
(* leaves from the front; it is only ever dropped as a whole, and the      *)
(* channel counts as broken from then on, until its slot has a fresh id.   *)
(* TunnelLink is built on this.                                            *)
(***************************************************************************)
EXTENDS Naturals, Sequences

CONSTANT Wrap   \* frames are numbered modulo Wrap

VARIABLES
  waiting,    \* the numbers of the frames that wait
  accepted,   \* the number of the last frame offered
  handed,     \* the number of the last frame given to the socket
  broken      \* a frame was refused or dropped: frames are numbered no more

vars == <<waiting, accepted, handed, broken>>

Init == waiting = <<>> /\ accepted = 0 /\ handed = 0 /\ broken = FALSE

Number ==
  IF broken THEN 0 ELSE IF accepted = Wrap - 1 THEN 0 ELSE accepted + 1

\* A frame goes straight to the socket.
Pass ==
  /\ waiting = <<>>
  /\ accepted' = Number /\ handed' = Number
  /\ UNCHANGED <<waiting, broken>>

\* A frame has to wait.
Keep ==
  /\ waiting' = Append(waiting, Number) /\ accepted' = Number
  /\ UNCHANGED <<handed, broken>>

\* A frame is refused; what waits goes on waiting.
Refuse ==
  /\ accepted' = Number /\ broken' = TRUE
  /\ UNCHANGED <<waiting, handed>>

\* The first frame that waits goes to the socket.
Hand ==
  /\ waiting # <<>>
  /\ handed' = Head(waiting) /\ waiting' = Tail(waiting)
  /\ UNCHANGED <<accepted, broken>>

\* Everything that waits is dropped.
Break ==
  /\ waiting' = <<>> /\ accepted' = 0 /\ handed' = 0 /\ broken' = TRUE

\* The channel of a fresh id.
Renew ==
  /\ broken /\ waiting = <<>>
  /\ accepted' = 0 /\ handed' = 0 /\ broken' = FALSE
  /\ UNCHANGED waiting

Next == Pass \/ Keep \/ Refuse \/ Hand \/ Break \/ Renew

Spec == Init /\ [][Next]_vars

=============================================================================
