----------------------------- MODULE AudioConfig -----------------------------
(***************************************************************************)
(* How FLACRecorder.run() looks for an audio configuration the device      *)
(* supports: it tries every sample format, rate and channel layout until   *)
(* an AudioRecord can be set up.  AudioRecord is external: what it answers *)
(* is chosen anew at each trial.                                           *)
(***************************************************************************)
EXTENDS Integers, Sequences

CONSTANTS Formats, Rates, Layouts   \* how many there are of each

ASSUME ConfigAssumption ==
    /\ Formats \in Nat \ {0}
    /\ Rates \in Nat \ {0}
    /\ Layouts \in Nat \ {0}

\* AudioRecord.ERROR and ERROR_BAD_VALUE; one size stands for all others.
ERROR == -1
ERROR_BAD_VALUE == -2
MinBufferSizes == {ERROR, ERROR_BAD_VALUE, 640}

VARIABLES
    x, y, z,     \* the indices of the three loops, from 1
    bufsize,     \* twice what getMinBufferSize() answered last
    recorder,    \* the last AudioRecord, or "null"
    outcome,     \* how the search has ended
    tried,       \* the configurations tried so far, in order
    worked       \* whether the device could be set up at each trial

loops == <<x, y, z>>
searchVars == <<loops, bufsize, recorder, outcome, tried, worked>>

Outcomes == {"searching", "found", "hardware_unavailable", "invalid_format"}

Recorders == {"null", "uninitialized", "initialized"}

\* What new AudioRecord() may come to: it throws, or sets up nothing, or works.
\* It throws when the size is an error code.
SetUp(size) == IF size > 0 THEN Recorders ELSE {"null"}

Configs == (1..Formats) \X (1..Rates) \X (1..Layouts)

SearchTypeOK ==
    /\ x \in 1..(Formats + 1)
    /\ y \in 1..Rates
    /\ z \in 1..Layouts
    /\ bufsize \in {2 * size : size \in MinBufferSizes}
    /\ recorder \in Recorders
    /\ outcome \in Outcomes
    /\ tried \in Seq(Configs)
    /\ worked \in Seq(BOOLEAN) /\ Len(worked) = Len(tried)

SearchInit ==
    /\ x = 1 /\ y = 1 /\ z = 1
    /\ bufsize = ERROR_BAD_VALUE
    /\ recorder = "null"
    /\ outcome = "searching"
    /\ tried = <<>>
    /\ worked = <<>>

\* Slip: <= for < in the innermost loop.
ContinueTooFar ==
    \/ z <= Layouts /\ z' = z + 1 /\ UNCHANGED <<x, y>>
    \/ z > Layouts /\ y < Rates /\ y' = y + 1 /\ z' = 1 /\ x' = x
    \/ z > Layouts /\ y = Rates /\ x' = x + 1 /\ y' = 1 /\ z' = 1

\* On to the next layout, or rate, or format.
Continue ==
    \/ z < Layouts /\ z' = z + 1 /\ UNCHANGED <<x, y>>
    \/ z = Layouts /\ y < Rates /\ y' = y + 1 /\ z' = 1 /\ x' = x
    \/ z = Layouts /\ y = Rates /\ x' = x + 1 /\ y' = 1 /\ z' = 1

\* Slip: whether the device has been initialised is not looked at.
VerdictUninitialized(size, record) ==
    CASE size = ERROR_BAD_VALUE -> "searching"
      [] size = ERROR -> "hardware_unavailable"
      [] OTHER -> IF record = "null" THEN "searching" ELSE "found"

\* What becomes of a trial in which the buffer size came out as `size' and
\* setting up the device as `record'.
Verdict(size, record) ==
    CASE size = ERROR_BAD_VALUE -> "searching"
      [] size = ERROR -> "hardware_unavailable"
      [] OTHER -> IF record = "initialized" THEN "found" ELSE "searching"

\* The error codes are compared with twice the answer, so that ERROR passes
\* for ERROR_BAD_VALUE, and ERROR_BAD_VALUE for a size.  A trial that ends at
\* the comparison leaves the AudioRecord of an earlier one where it was.
Try ==
    /\ outcome = "searching"
    /\ x <= Formats
    /\ \E answer \in MinBufferSizes : bufsize' = 2 * answer
    /\ \E record \in SetUp(bufsize') :
          /\ recorder' = IF bufsize' \in {ERROR, ERROR_BAD_VALUE}
                         THEN recorder ELSE record
          /\ outcome' = Verdict(bufsize', record)
          /\ worked' = Append(worked, bufsize' > 0 /\ record = "initialized")
    /\ tried' = Append(tried, <<x, y, z>>)
    /\ IF outcome' = "searching" THEN Continue ELSE UNCHANGED loops

InvalidFormat ==
    /\ outcome = "searching"
    /\ x > Formats
    /\ outcome' = "invalid_format"
    /\ UNCHANGED <<loops, bufsize, recorder, tried, worked>>

SearchNext == Try \/ InvalidFormat

SearchSpec == SearchInit /\ [][SearchNext]_searchVars

-----------------------------------------------------------------------------
(***************************************************************************)
(* Properties.                                                             *)
(***************************************************************************)

\* The place of a configuration in the order of preference: 16 bit before
\* 8 bit, then the higher rate, then mono.
Rank(c) == ((c[1] - 1) * Rates + (c[2] - 1)) * Layouts + c[3]

\* The configurations are tried in the order of preference, each of them
\* once; the one settled on is the first that works, with the device and the
\* buffer size of that trial, and the search is given up only when all have
\* been tried and none works (FLACRecorder.java:248-294).
FirstWorkingConfig ==
    /\ \A i \in 1..Len(tried) : Rank(tried[i]) = i
    /\ outcome = "found" =>
          /\ recorder = "initialized" /\ bufsize > 0
          /\ tried[Len(tried)] = <<x, y, z>>
          /\ \A i \in 1..Len(worked) : worked[i] <=> i = Len(worked)
    /\ outcome = "invalid_format" =>
          /\ Len(tried) = Formats * Rates * Layouts
          /\ \A i \in 1..Len(worked) : ~worked[i]
=============================================================================
