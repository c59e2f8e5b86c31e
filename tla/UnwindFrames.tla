---------------------------- MODULE UnwindFrames ----------------------------
(***************************************************************************)
(* What an unwind promises, without stack limits, cursors or dispositions  *)
(* (spec section 4.6): frames leave the chain only at its front, in chain  *)
(* order, and each has had its unwind handler run (by this unwind, or by   *)
(* the outer unwind it collided with) when it leaves; the unwind either    *)
(* resumes execution with the target frame at the head of the chain, or   *)
(* raises.                                                                 *)
(***************************************************************************)
EXTENDS StackLimits

CONSTANT Targets

VARIABLES
  head,     \* the chain head
  next,     \* the Next links (never written by an unwind)
  target,   \* the target frame
  status,   \* "unwinding", "resumed" or "raised"
  done      \* frames whose unwind handler has run

avars == <<head, next, target, status, done>>

\* The frames in front of b on the chain from a (a included, b excluded).
Before(a, b) ==
  LET w == Walk(next, a)
  IN  {w[k] : k \in {i \in 0 .. Cardinality(Addrs) :
                       \A j \in 0 .. i : w[j] # b}} \cap Addrs

Init ==
  /\ head \in Addrs \cup {ChainEnd}
  /\ next \in Memory
  /\ Intact(next)
  /\ target \in Targets
  /\ status = "unwinding"
  /\ done = {}

\* The frames in front of a later frame h of the chain leave it; their
\* handlers have run.
PopTo(h) ==
  /\ status = "unwinding"
  /\ h \in After(next, head) \cup {ChainEnd}
  /\ head' = h
  /\ done' = done \cup Before(head, h)
  /\ UNCHANGED <<next, target, status>>

\* Execution resumes at the target frame, which heads the chain.
Resume ==
  /\ status = "unwinding"
  /\ head = target
  /\ status' = "resumed"
  /\ UNCHANGED <<head, next, target, done>>

\* The unwind raises; the handler of the front frame may have run.
Raise ==
  /\ status = "unwinding"
  /\ status' = "raised"
  /\ done' \in {done, done \cup ({head} \cap Addrs)}
  /\ UNCHANGED <<head, next, target>>

ANext == (\E h \in Addrs \cup {ChainEnd} : PopTo(h)) \/ Resume \/ Raise

ASpec == Init /\ [][ANext]_avars /\ WF_avars(ANext)
=============================================================================
