------------------------------ MODULE SeqSums ------------------------------
(***************************************************************************)
(* Byte accounting.  The tunnel scheduler never adds up a queue: it keeps  *)
(* running counters and has to keep them right through every push, shift   *)
(* and drop.  SumsTo(s, total) says what those counters must mean, through *)
(* the running sums of the sequence rather than through a recursion, so    *)
(* that a step of the scheduler can be reasoned about by exhibiting the    *)
(* new running sums.                                                       *)
(***************************************************************************)
EXTENDS Integers, Sequences

\* p is the sequence of running sums of s: p[i] = s[1] + ... + s[i].
RunningSums(p, s) ==
  /\ p[0] = 0
  /\ \A i \in 1..Len(s) : p[i] = p[i - 1] + s[i]
  /\ \A i, j \in 0..Len(s) : i <= j => p[i] <= p[j]

\* The natural numbers of the sequence s add up to total.
SumsTo(s, total) ==
  \E p \in [0..Len(s) -> 0..total] : RunningSums(p, s) /\ p[Len(s)] = total

=============================================================================
