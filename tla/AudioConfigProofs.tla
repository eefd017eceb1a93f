--------------------------- MODULE AudioConfigProofs ---------------------------
(***************************************************************************)
(* Proofs about AudioConfig, for any number of formats, rates and layouts  *)
(* and whatever the device answers: the configurations are tried in the    *)
(* order of preference, and the search ends at the first that works.       *)
(* Last, the two phases of FLACRecorder.run() (module RecordingThread)     *)
(* behave as the two modules say.                                          *)
(***************************************************************************)
EXTENDS RecordingThread, SequenceTheorems, TLAPS

\* How many configurations there are.
Count == Formats * Rates * Layouts

\* While searching, the next configuration is the one after those tried; past
\* the last format the other loops are at their start.
PlaceInv ==
    /\ outcome = "searching" => Rank(<<x, y, z>>) = Len(tried) + 1
    /\ x = Formats + 1 => y = 1 /\ z = 1

\* What has been tried, in the order of preference.
OrderInv == \A i \in 1..Len(tried) : Rank(tried[i]) = i

\* What came of it.  The search never ends by an error of the hardware, which
\* twice the answer cannot be.
OutcomeInv ==
    /\ outcome # "hardware_unavailable"
    /\ outcome = "searching" => \A i \in 1..Len(worked) : ~worked[i]
    /\ outcome = "found" =>
          /\ Len(tried) > 0 /\ tried[Len(tried)] = <<x, y, z>>
          /\ recorder = "initialized" /\ bufsize > 0
          /\ \A i \in 1..Len(worked) : worked[i] <=> i = Len(worked)
    /\ outcome = "invalid_format" =>
          /\ Len(tried) = Count
          /\ \A i \in 1..Len(worked) : ~worked[i]

SearchInv == SearchTypeOK /\ PlaceInv /\ OrderInv /\ OutcomeInv

-----------------------------------------------------------------------------
(***************************************************************************)
(* The order of preference.                                                *)
(***************************************************************************)

LEMMA ProductOrder == \A m, n \in Int, p \in Nat : m <= n => m * p <= n * p
<1> SUFFICES ASSUME NEW m \in Int, NEW n \in Int, NEW p \in Nat, m <= n
             PROVE  m * p <= n * p
  OBVIOUS
<1>1. n - m \in Nat /\ n = m + (n - m)
  OBVIOUS
<1>2. (n - m) * p \in Nat
  BY <1>1
<1>3. n * p = m * p + (n - m) * p
  OBVIOUS
<1>4. m * p \in Int /\ n * p \in Int
  OBVIOUS
<1> QED BY <1>2, <1>3, <1>4

LEMMA NextMultiple == \A m, n \in Int : (m + 1) * n = m * n + n
  OBVIOUS

LEMMA ProductInt == \A m, n \in Int : m * n \in Int
  OBVIOUS

\* The place of a configuration is a number, ...
LEMMA RankType ==
    ASSUME NEW a \in Int, NEW b \in Int, NEW c \in Int
    PROVE  Rank(<<a, b, c>>) \in Int
<1>1. Rates \in Int /\ Layouts \in Int
  BY ConfigAssumption
<1>2. (a - 1) * Rates \in Int
  BY <1>1, ProductInt
<1> DEFINE m == (a - 1) * Rates
<1>3. Rank(<<a, b, c>>) = (m + (b - 1)) * Layouts + c
  BY DEF Rank
<1> HIDE DEF m
<1>4. (m + (b - 1)) * Layouts \in Int
  BY <1>1, <1>2, ProductInt DEF m
<1> QED BY <1>3, <1>4

\* ... and the loops go from one place to the next.
LEMMA RankStep ==
    ASSUME NEW a \in Int, NEW b \in Int, NEW c \in Int
    PROVE  /\ Rank(<<a, b, c + 1>>) = Rank(<<a, b, c>>) + 1
           /\ Rank(<<a, b + 1, 1>>) = Rank(<<a, b, Layouts>>) + 1
           /\ Rank(<<a + 1, 1, 1>>) = Rank(<<a, Rates, Layouts>>) + 1
<1>1. Rates \in Int /\ Layouts \in Int
  BY ConfigAssumption
<1> DEFINE m == (a - 1) * Rates
<1>2. m \in Int
  BY <1>1, ProductInt
<1>3. a * Rates = m + Rates
  <2>1. a = (a - 1) + 1
    OBVIOUS
  <2> QED BY <1>1, <2>1, NextMultiple
<1>4. /\ Rank(<<a, b, c + 1>>) = (m + (b - 1)) * Layouts + (c + 1)
      /\ Rank(<<a, b, c>>) = (m + (b - 1)) * Layouts + c
      /\ Rank(<<a, b + 1, 1>>) = (m + ((b + 1) - 1)) * Layouts + 1
      /\ Rank(<<a, b, Layouts>>) = (m + (b - 1)) * Layouts + Layouts
      /\ Rank(<<a, Rates, Layouts>>) = (m + (Rates - 1)) * Layouts + Layouts
  BY DEF Rank
<1>5. Rank(<<a + 1, 1, 1>>) = (a * Rates) * Layouts + 1
  <2>1. (a + 1) - 1 = a /\ a * Rates + (1 - 1) = a * Rates
    BY <1>1, <1>2, <1>3
  <2>2. Rank(<<a + 1, 1, 1>>) = (((a + 1) - 1) * Rates + (1 - 1)) * Layouts + 1
    BY DEF Rank
  <2> QED BY <2>1, <2>2
<1> HIDE DEF m
<1>6. (m + (b - 1)) * Layouts \in Int
  BY <1>1, <1>2, ProductInt
<1>7. (m + ((b + 1) - 1)) * Layouts = (m + (b - 1)) * Layouts + Layouts
  <2>1. m + ((b + 1) - 1) = (m + (b - 1)) + 1
    BY <1>2
  <2> QED BY <1>1, <1>2, <2>1, NextMultiple
<1>8. (a * Rates) * Layouts = (m + (Rates - 1)) * Layouts + Layouts
  <2>1. a * Rates = (m + (Rates - 1)) + 1
    BY <1>1, <1>2, <1>3
  <2> QED BY <1>1, <1>2, <2>1, NextMultiple
<1>9. (m + (Rates - 1)) * Layouts \in Int
  BY <1>1, <1>2, ProductInt
<1> QED BY <1>1, <1>4, <1>5, <1>6, <1>7, <1>8, <1>9

\* Past the last format comes the place after the last configuration.
LEMMA RankPastEnd == Rank(<<Formats + 1, 1, 1>>) = Count + 1
<1>1. Formats \in Int /\ Rates \in Int /\ Layouts \in Int
  BY ConfigAssumption
<1>2. Formats * Rates \in Int
  BY <1>1, ProductInt
<1>3. (Formats + 1) - 1 = Formats /\ Formats * Rates + (1 - 1) = Formats * Rates
  BY <1>1, <1>2
<1>4. Rank(<<Formats + 1, 1, 1>>) =
          (((Formats + 1) - 1) * Rates + (1 - 1)) * Layouts + 1
  BY DEF Rank
<1> QED BY <1>3, <1>4 DEF Count

LEMMA CountType == Count \in Nat
<1>1. Formats \in Nat /\ Rates \in Nat /\ Layouts \in Nat
  BY ConfigAssumption
<1>2. Formats * Rates \in Nat
  BY <1>1
<1> QED BY <1>1, <1>2 DEF Count

\* No configuration comes after the last.
LEMMA RankBound ==
    ASSUME NEW a \in 1..Formats, NEW b \in 1..Rates, NEW c \in 1..Layouts
    PROVE  Rank(<<a, b, c>>) <= Count
<1>1. Formats \in Nat /\ Rates \in Nat /\ Layouts \in Nat
  BY ConfigAssumption
<1> DEFINE m == (a - 1) * Rates
<1>2. m + Rates <= Formats * Rates
  <2>1. a * Rates <= Formats * Rates
    BY <1>1, ProductOrder
  <2>2. a * Rates = m + Rates
    <3>1. a = (a - 1) + 1 /\ a - 1 \in Int
      OBVIOUS
    <3> QED BY <1>1, <3>1, NextMultiple
  <2> QED BY <2>1, <2>2
<1>3. m \in Int /\ Formats * Rates \in Int
  BY <1>1, ProductInt
<1>4. Rank(<<a, b, c>>) = (m + (b - 1)) * Layouts + c
  BY DEF Rank
<1> HIDE DEF m
<1>5. ((m + (b - 1)) + 1) * Layouts <= (Formats * Rates) * Layouts
  <2>1. (m + (b - 1)) + 1 <= Formats * Rates /\ (m + (b - 1)) + 1 \in Int
    BY <1>1, <1>2, <1>3
  <2> QED BY <1>1, <1>3, <2>1, ProductOrder
<1>6. ((m + (b - 1)) + 1) * Layouts = (m + (b - 1)) * Layouts + Layouts
  <2>1. m + (b - 1) \in Int
    BY <1>1, <1>3
  <2> QED BY <1>1, <2>1, NextMultiple
<1>7. (m + (b - 1)) * Layouts \in Int /\ (Formats * Rates) * Layouts \in Int
  <2>1. m + (b - 1) \in Int
    BY <1>1, <1>3
  <2> QED BY <1>1, <1>3, <2>1, ProductInt
<1> QED BY <1>1, <1>4, <1>5, <1>6, <1>7 DEF Count

-----------------------------------------------------------------------------
(***************************************************************************)
(* The search.                                                             *)
(***************************************************************************)

LEMMA InitSearch == SearchInit => SearchInv
<1> SUFFICES ASSUME SearchInit
             PROVE  SearchInv
  OBVIOUS
<1>1. tried \in Seq(Configs) /\ Len(tried) = 0
  BY DEF SearchInit
<1>2. worked \in Seq(BOOLEAN) /\ Len(worked) = 0
  BY DEF SearchInit
<1>3. SearchTypeOK
  <2>1. bufsize \in {2 * size : size \in MinBufferSizes}
    BY DEF SearchInit, MinBufferSizes, ERROR, ERROR_BAD_VALUE
  <2>2. x \in 1..(Formats + 1) /\ y \in 1..Rates /\ z \in 1..Layouts
    BY ConfigAssumption DEF SearchInit
  <2> QED BY <1>1, <1>2, <2>1, <2>2 DEF SearchInit, SearchTypeOK, Recorders, Outcomes
<1>4. PlaceInv
  <2>1. Rank(<<1, 1, 1>>) = 1
    <3>1. Rates \in Int /\ Layouts \in Int
      BY ConfigAssumption
    <3>2. Rank(<<1, 1, 1>>) = ((1 - 1) * Rates + (1 - 1)) * Layouts + 1
      BY DEF Rank
    <3> QED BY <3>1, <3>2
  <2> QED BY <1>1, <2>1, ConfigAssumption DEF SearchInit, PlaceInv
<1> QED BY <1>1, <1>2, <1>3, <1>4 DEF SearchInit, SearchInv, OrderInv, OutcomeInv

\* A trial's answer: only a size can be worked with, and an error of the
\* hardware passes for an unsupported configuration.
LEMMA Answers ==
    ASSUME \E answer \in MinBufferSizes : bufsize' = 2 * answer
    PROVE  /\ bufsize' \in {2 * size : size \in MinBufferSizes}
           /\ bufsize' \in {ERROR_BAD_VALUE, -4, 1280}
           /\ bufsize' # ERROR
  BY DEF MinBufferSizes, ERROR, ERROR_BAD_VALUE

LEMMA TryStep ==
    ASSUME SearchInv, Try
    PROVE  SearchInv'
<1>1. PICK record \in SetUp(bufsize') :
        /\ recorder' = IF bufsize' \in {ERROR, ERROR_BAD_VALUE}
                       THEN recorder ELSE record
        /\ outcome' = Verdict(bufsize', record)
        /\ worked' = Append(worked, bufsize' > 0 /\ record = "initialized")
  BY DEF Try
<1> DEFINE works == bufsize' > 0 /\ record = "initialized"
<1>2. /\ bufsize' \in {2 * size : size \in MinBufferSizes}
      /\ bufsize' \in {ERROR_BAD_VALUE, -4, 1280} /\ bufsize' # ERROR
  BY Answers DEF Try
<1>3. record \in Recorders /\ recorder' \in Recorders
  BY <1>1 DEF SetUp, Recorders, SearchInv, SearchTypeOK
<1>4. outcome' = IF works THEN "found" ELSE "searching"
  <2>1. CASE bufsize' = ERROR_BAD_VALUE
    BY <1>1, <2>1 DEF Verdict, ERROR, ERROR_BAD_VALUE
  <2>2. CASE bufsize' = -4
    BY <1>1, <2>2 DEF Verdict, SetUp, ERROR, ERROR_BAD_VALUE
  <2>3. CASE bufsize' = 1280
    BY <1>1, <2>3 DEF Verdict, ERROR, ERROR_BAD_VALUE
  <2> QED BY <1>2, <2>1, <2>2, <2>3
<1>5. works => recorder' = "initialized"
  BY <1>1, <1>2 DEF ERROR_BAD_VALUE
<1>6. works \in BOOLEAN
  OBVIOUS
<1>7. worked' = Append(worked, works)
  BY <1>1
<1> HIDE DEF works
<1>8. /\ outcome = "searching" /\ x \in 1..Formats
      /\ y \in 1..Rates /\ z \in 1..Layouts
  BY ConfigAssumption DEF Try, SearchInv, SearchTypeOK
<1>9. tried' = Append(tried, <<x, y, z>>) /\ <<x, y, z>> \in Configs
  BY <1>8 DEF Try, Configs
<1>10. /\ tried' \in Seq(Configs) /\ Len(tried') = Len(tried) + 1
       /\ tried'[Len(tried')] = <<x, y, z>>
       /\ \A i \in 1..Len(tried) : tried'[i] = tried[i]
  BY <1>9 DEF SearchInv, SearchTypeOK
<1>11. /\ worked' \in Seq(BOOLEAN) /\ Len(worked') = Len(worked) + 1
       /\ \A i \in 1..Len(worked) : worked'[i] = worked[i]
  BY <1>6, <1>7 DEF SearchInv, SearchTypeOK
<1>12. worked'[Len(worked')] = works
  BY <1>6, <1>7 DEF SearchInv, SearchTypeOK
<1>13. Rank(<<x, y, z>>) = Len(tried) + 1
  BY <1>8 DEF SearchInv, PlaceInv
<1>14. Len(tried) \in Nat /\ Len(worked) = Len(tried)
  BY DEF SearchInv, SearchTypeOK
<1>15. \A i \in 1..Len(worked) : ~worked[i]
  BY <1>8 DEF SearchInv, OutcomeInv
<1>16. OrderInv'
  <2>1. ASSUME NEW i \in 1..Len(tried')
        PROVE  Rank(tried'[i]) = i
    <3>1. CASE i = Len(tried')
      BY <1>10, <1>13, <3>1
    <3>2. CASE i # Len(tried')
      <4>1. i \in 1..Len(tried)
        BY <1>10, <1>14, <3>2
      <4> QED BY <1>10, <4>1 DEF SearchInv, OrderInv
    <3> QED BY <3>1, <3>2
  <2> QED BY <2>1 DEF OrderInv
<1>17. /\ x' \in 1..(Formats + 1) /\ y' \in 1..Rates /\ z' \in 1..Layouts
       /\ outcome' = "searching" => Rank(<<x', y', z'>>) = Len(tried') + 1
       /\ x' = Formats + 1 => y' = 1 /\ z' = 1
       /\ outcome' = "found" => x' = x /\ y' = y /\ z' = z
  <2>1. CASE works
    BY <1>4, <1>8, <2>1, ConfigAssumption DEF Try, loops
  <2>2. CASE ~works
    <3>1. outcome' = "searching" /\ Continue
      BY <1>4, <2>2 DEF Try
    <3>2. /\ Rank(<<x, y, z + 1>>) = Rank(<<x, y, z>>) + 1
          /\ Rank(<<x, y + 1, 1>>) = Rank(<<x, y, Layouts>>) + 1
          /\ Rank(<<x + 1, 1, 1>>) = Rank(<<x, Rates, Layouts>>) + 1
      BY <1>8, ConfigAssumption, RankStep
    <3>3. Rank(<<x', y', z'>>) = Rank(<<x, y, z>>) + 1
      <4>1. CASE z < Layouts /\ z' = z + 1 /\ UNCHANGED <<x, y>>
        BY <3>2, <4>1
      <4>2. CASE z = Layouts /\ y < Rates /\ y' = y + 1 /\ z' = 1 /\ x' = x
        BY <3>2, <4>2
      <4>3. CASE z = Layouts /\ y = Rates /\ x' = x + 1 /\ y' = 1 /\ z' = 1
        BY <3>2, <4>3
      <4> QED BY <3>1, <4>1, <4>2, <4>3 DEF Continue
    <3>4. /\ x' \in 1..(Formats + 1) /\ y' \in 1..Rates /\ z' \in 1..Layouts
          /\ x' = Formats + 1 => y' = 1 /\ z' = 1
      BY <1>8, <3>1, ConfigAssumption DEF Continue
    <3> QED BY <1>10, <1>13, <1>14, <3>1, <3>3, <3>4
  <2> QED BY <2>1, <2>2
<1>18. SearchTypeOK'
  BY <1>2, <1>3, <1>4, <1>10, <1>11, <1>14, <1>17 DEF SearchTypeOK, Outcomes
<1>19. PlaceInv'
  BY <1>17 DEF PlaceInv
<1>20. OutcomeInv'
  <2>1. CASE works
    <3>1. outcome' = "found" /\ recorder' = "initialized" /\ bufsize' > 0
      BY <1>4, <1>5, <2>1 DEF works
    <3>2. Len(tried') > 0 /\ tried'[Len(tried')] = <<x', y', z'>>
      BY <1>10, <1>14, <1>17, <3>1
    <3>3. ASSUME NEW i \in 1..Len(worked')
          PROVE  worked'[i] <=> i = Len(worked')
      <4>1. CASE i = Len(worked')
        BY <1>12, <2>1, <4>1
      <4>2. CASE i # Len(worked')
        <5>1. i \in 1..Len(worked)
          BY <1>11, <1>14, <4>2
        <5> QED BY <1>11, <1>15, <4>2, <5>1
      <4> QED BY <4>1, <4>2
    <3> QED BY <3>1, <3>2, <3>3 DEF OutcomeInv
  <2>2. CASE ~works
    <3>1. outcome' = "searching"
      BY <1>4, <2>2
    <3>2. ASSUME NEW i \in 1..Len(worked')
          PROVE  ~worked'[i]
      <4>1. CASE i = Len(worked')
        BY <1>12, <2>2, <4>1
      <4>2. CASE i # Len(worked')
        <5>1. i \in 1..Len(worked)
          BY <1>11, <1>14, <4>2
        <5> QED BY <1>11, <1>15, <5>1
      <4> QED BY <4>1, <4>2
    <3> QED BY <3>1, <3>2 DEF OutcomeInv
  <2> QED BY <2>1, <2>2
<1> QED BY <1>16, <1>18, <1>19, <1>20 DEF SearchInv

LEMMA InvalidStep ==
    ASSUME SearchInv, InvalidFormat
    PROVE  SearchInv'
<1>1. UNCHANGED <<x, y, z, bufsize, recorder, tried, worked>>
  BY DEF InvalidFormat, loops
<1>2. outcome = "searching" /\ outcome' = "invalid_format"
  BY DEF InvalidFormat
<1>3. x = Formats + 1 /\ y = 1 /\ z = 1
  BY ConfigAssumption DEF InvalidFormat, SearchInv, SearchTypeOK, PlaceInv
<1>4. Len(tried) = Count
  <2>1. Rank(<<x, y, z>>) = Len(tried) + 1
    BY <1>2 DEF SearchInv, PlaceInv
  <2>2. Count + 1 = Len(tried) + 1
    BY <1>3, <2>1, RankPastEnd
  <2>3. Count \in Int
    <3>1. Formats \in Int /\ Rates \in Int /\ Layouts \in Int
      BY ConfigAssumption
    <3>2. Formats * Rates \in Int
      BY <3>1, ProductInt
    <3> QED BY <3>1, <3>2, ProductInt DEF Count
  <2>4. Len(tried) \in Int
    BY DEF SearchInv, SearchTypeOK
  <2> HIDE DEF Count
  <2> QED BY <2>2, <2>3, <2>4
<1>5. SearchTypeOK'
  BY <1>1, <1>2 DEF SearchInv, SearchTypeOK, Outcomes
<1>6. PlaceInv' /\ OrderInv'
  BY <1>1, <1>2 DEF SearchInv, PlaceInv, OrderInv
<1>7. OutcomeInv'
  BY <1>1, <1>2, <1>4 DEF SearchInv, OutcomeInv, Count
<1> QED BY <1>5, <1>6, <1>7 DEF SearchInv

LEMMA NextSearch == SearchInv /\ [SearchNext]_searchVars => SearchInv'
<1> SUFFICES ASSUME SearchInv, [SearchNext]_searchVars
             PROVE  SearchInv'
  OBVIOUS
<1>1. CASE UNCHANGED searchVars
  <2>1. UNCHANGED <<x, y, z, bufsize, recorder, outcome, tried, worked>>
    BY <1>1 DEF searchVars, loops
  <2> QED BY <2>1 DEF SearchInv, SearchTypeOK, PlaceInv, OrderInv, OutcomeInv
<1> QED BY <1>1, TryStep, InvalidStep DEF SearchNext

-----------------------------------------------------------------------------
(***************************************************************************)
(* Theorems.                                                               *)
(***************************************************************************)

\* The loops stand at the configuration after those tried, whatever the device
\* answers (FLACRecorder.java:248-286).
THEOREM SearchInvariance == SearchSpec => []SearchInv
  BY InitSearch, NextSearch, PTL DEF SearchSpec

\* The search's variables keep their types, for any number of configurations.
THEOREM SearchTypes == SearchSpec => []SearchTypeOK
<1>1. SearchInv => SearchTypeOK
  BY DEF SearchInv
<1> QED BY <1>1, SearchInvariance, PTL

\* The configuration settled on is the first in the order of preference that
\* works, and the search is given up only when all have been tried
\* (FLACRecorder.java:248-294).
THEOREM FirstThatWorks == SearchSpec => []FirstWorkingConfig
<1>1. SearchInv => FirstWorkingConfig
  BY DEF SearchInv, OrderInv, OutcomeInv, FirstWorkingConfig, Count
<1> QED BY <1>1, SearchInvariance, PTL

\* The search is over after as many trials as there are configurations,
\* whatever the device answers: none is tried twice (FLACRecorder.java:248-286).
THEOREM SearchIsBounded == SearchSpec => [](Len(tried) <= Count)
<1>1. SearchInv => Len(tried) <= Count
  <2> SUFFICES ASSUME SearchInv
               PROVE  Len(tried) <= Count
    OBVIOUS
  <2>1. Len(tried) \in Nat /\ Count \in Nat
    BY CountType DEF SearchInv, SearchTypeOK
  <2>2. CASE Len(tried) = 0
    BY <2>1, <2>2
  <2>3. CASE Len(tried) # 0
    <3> DEFINE last == tried[Len(tried)]
    <3>1. last \in Configs
      BY <2>1, <2>3 DEF SearchInv, SearchTypeOK
    <3>2. Rank(last) = Len(tried)
      BY <2>1, <2>3 DEF SearchInv, OrderInv
    <3>3. PICK a \in 1..Formats, b \in 1..Rates, c \in 1..Layouts :
             last = <<a, b, c>>
      BY <3>1 DEF Configs
    <3> HIDE DEF last
    <3>4. Rank(<<a, b, c>>) <= Count
      BY RankBound
    <3> QED BY <3>2, <3>3, <3>4
  <2> QED BY <2>2, <2>3
<1> QED BY <1>1, SearchInvariance, PTL

\* Whatever holds of the search and of the recording by themselves holds of
\* FLACRecorder.run(): neither phase touches what the other works on
\* (FLACRecorder.java:233-490).
THEOREM PhasesKeepApart == RunSpec => SearchSpec /\ Spec
<1>1. RunInit => SearchInit /\ Init
  BY DEF RunInit
<1>2. [RunNext]_runVars => [SearchNext]_searchVars /\ [Next]_vars
  BY DEF RunNext, Search, Record, runVars
<1> QED BY <1>1, <1>2, PTL DEF RunSpec, SearchSpec, Spec
=============================================================================
