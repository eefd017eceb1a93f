---------------------------- MODULE SampleStream ----------------------------
(***************************************************************************)
(* What a FLAC stream promises the code that records into it: the samples  *)
(* it accepts reach the file once each and in the order they were handed   *)
(* over, and a closed stream holds all of them.  Sample number i is the    *)
(* i-th sample the stream accepted.  A stream that has failed promises     *)
(* nothing any more.                                                       *)
(***************************************************************************)
EXTENDS Naturals, Sequences

VARIABLES accepted,   \* how many samples the stream has taken from its user
          persisted,  \* the samples in the file, in file order
          closed,     \* the stream has been closed
          failed      \* the stream has failed

vars == <<accepted, persisted, closed, failed>>

Samples(n) == [i \in 1..n |-> i]

Init ==
    /\ accepted = 0
    /\ persisted = <<>>
    /\ closed = FALSE
    /\ failed = FALSE

Working == ~closed /\ ~failed

Accept ==
    /\ Working
    /\ accepted' \in Nat
    /\ accepted' >= accepted
    /\ UNCHANGED <<persisted, closed, failed>>

Persist ==
    /\ Working
    /\ Len(persisted') \in Len(persisted)..accepted
    /\ persisted' = Samples(Len(persisted'))
    /\ UNCHANGED <<accepted, closed, failed>>

Close ==
    /\ Working
    /\ persisted = Samples(accepted)
    /\ closed' = TRUE
    /\ UNCHANGED <<accepted, persisted, failed>>

\* From its failure on, the stream may do anything but recover.
Fail ==
    /\ ~closed \/ failed
    /\ failed' = TRUE

Next == Accept \/ Persist \/ Close \/ Fail

Spec == Init /\ [][Next]_vars
=============================================================================
