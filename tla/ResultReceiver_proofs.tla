------------------------ MODULE ResultReceiver_proofs ------------------------
(***************************************************************************)
(* No failing line is lost and no pass invented by TestResultReceiver, for *)
(* any names, any number of lines and any moments of draining.  FailuresKept *)
(* is inductive once the types are known; PassesEarned needs Sectioned,    *)
(* which ties the receiver's flags to what the section really contained.   *)
(***************************************************************************)
EXTENDS ResultReceiver, TLAPS

\* The flags of the receiver are those of the lines since the last header.
Sectioned ==
  /\ current = section.name /\ failing = section.bad
  /\ current # NoName /\ ~failing => success = section.ok
  /\ framework = "auto" => current = NoName

IInv == TypeOK /\ FailuresKept /\ PassesEarned /\ Sectioned

LEMMA AppendedOne ==
  ASSUME NEW bag \in [Result -> Nat], NEW r \in Result
  PROVE  /\ Append1(bag, r) \in [Result -> Nat]
         /\ \A s \in Result : Append1(bag, r)[s] = IF s = r THEN bag[s] + 1 ELSE bag[s]
BY DEF Append1

LEMMA NamesDistinct ==
  /\ \A n \in Names : n \in ResultName /\ n # Unknown /\ n # AllTests /\ n # NoName
  /\ Unknown \in ResultName /\ AllTests \in ResultName /\ Unknown # AllTests
  /\ \A n \in ResultName : Passing(n) \in Result /\ Failing(n) \in Result
  /\ \A m, n : Failing(m) # Passing(n)
  /\ \A m, n : Failing(m) = Failing(n) => m = n
  /\ \A m, n : Passing(m) = Passing(n) => m = n
<1>1. \A m, n : Failing(m) # Passing(n)
  BY DEF Failing, Passing
<1>2. \A m, n : Failing(m) = Failing(n) => m = n
  BY DEF Failing
<1>3. \A m, n : Passing(m) = Passing(n) => m = n
  BY DEF Passing
<1> QED
  BY <1>1, <1>2, <1>3, NamesAssumption DEF ResultName, Result

LEMMA InForceName ==
  ASSUME TypeOK
  PROVE  InForce \in ResultName
BY NamesDistinct DEF TypeOK, InForce, ResultName

\* _finalize_doctest_failure adds the pending failure and nothing else.
LEMMA FinalizedFailure ==
  ASSUME TypeOK
  PROVE  /\ FinalizeFailure(results) \in [Result -> Nat]
         /\ \A n \in ResultName :
              /\ FinalizeFailure(results)[Failing(n)]
                   = results[Failing(n)] + Pending(n)
              /\ FinalizeFailure(results)[Passing(n)] = results[Passing(n)]
<1>1. /\ Failing(InForce) \in Result /\ results \in [Result -> Nat]
      /\ \A n \in ResultName : results[Failing(n)] \in Nat /\ results[Passing(n)] \in Nat
  BY InForceName, NamesDistinct DEF TypeOK
<1>2. CASE failing
  <2>1. FinalizeFailure(results) = Append1(results, Failing(InForce))
    BY <1>2 DEF FinalizeFailure
  <2>2. /\ FinalizeFailure(results) \in [Result -> Nat]
        /\ \A s \in Result : FinalizeFailure(results)[s]
                            = IF s = Failing(InForce) THEN results[s] + 1 ELSE results[s]
    BY <1>1, <2>1, AppendedOne
  <2> QED
    BY <1>1, <1>2, <2>2, NamesDistinct DEF Pending
<1>3. CASE ~failing
  BY <1>1, <1>3 DEF FinalizeFailure, Pending
<1> QED
  BY <1>2, <1>3

\* _finalize_doctest_case adds a pass on top of it if Passed.
LEMMA FinalizedCase ==
  ASSUME TypeOK
  PROVE  /\ FinalizeCase(results) \in [Result -> Nat]
         /\ \A n \in ResultName :
              /\ FinalizeCase(results)[Failing(n)]
                   = results[Failing(n)] + Pending(n)
              /\ FinalizeCase(results)[Passing(n)]
                   = results[Passing(n)] + (IF Passed /\ current = n THEN 1 ELSE 0)
<1>1. /\ FinalizeFailure(results) \in [Result -> Nat]
      /\ results \in [Result -> Nat]
  BY FinalizedFailure DEF TypeOK
<1>2. CASE Passed
  <2>1. Passing(current) \in Result
    BY <1>2, NamesDistinct DEF Passed, TypeOK
  <2>2. FinalizeCase(results) = Append1(FinalizeFailure(results), Passing(current))
    BY <1>2 DEF FinalizeCase
  <2>3. /\ FinalizeCase(results) \in [Result -> Nat]
        /\ \A s \in Result :
             FinalizeCase(results)[s]
               = IF s = Passing(current) THEN FinalizeFailure(results)[s] + 1
                 ELSE FinalizeFailure(results)[s]
    BY <1>1, <2>1, <2>2, AppendedOne
  <2> QED
    BY <1>1, <1>2, <2>3, FinalizedFailure, NamesDistinct
<1>3. CASE ~Passed
  BY <1>1, <1>3, FinalizedFailure, NamesDistinct DEF FinalizeCase
<1> QED
  BY <1>2, <1>3

\* What a section has earned when it ends is the pass FinalizeCase adds.
LEMMA EarnedByPass ==
  ASSUME IInv, EndSection
  PROVE  /\ earned' \in [ResultName -> Nat]
         /\ \A n \in ResultName : earned'[n] = earned[n] + (IF Passed /\ current = n THEN 1 ELSE 0)
<1>1. Passed <=> section.name # NoName /\ section.ok /\ ~section.bad
  BY DEF IInv, Sectioned, Passed, TypeOK
<1>2. section.name = current /\ (Passed => current \in ResultName)
  BY NamesDistinct DEF IInv, Sectioned, TypeOK, Passed
<1>3. earned \in [ResultName -> Nat]
  BY DEF IInv, TypeOK
<1> QED
  BY <1>1, <1>2, <1>3 DEF EndSection

LEMMA PendingType ==
  ASSUME NEW n
  PROVE  /\ Pending(n) \in Nat
         /\ ~failing => Pending(n) = 0
         /\ failing => Pending(n) = IF InForce = n THEN 1 ELSE 0
BY DEF Pending

\* Both counts for one name, before a line is fed.
LEMMA Balance ==
  ASSUME IInv, NEW n \in ResultName
  PROVE  /\ results[Failing(n)] \in Nat /\ drained[Failing(n)] \in Nat
         /\ results[Passing(n)] \in Nat /\ drained[Passing(n)] \in Nat
         /\ failures[n] = results[Failing(n)] + drained[Failing(n)]
                            + Pending(n)
         /\ n \in Names => earned[n] = results[Passing(n)] + drained[Passing(n)]
<1>1. Failing(n) \in Result /\ Passing(n) \in Result
  BY NamesDistinct
<1> QED
  BY <1>1, PendingType DEF IInv, TypeOK, FailuresKept, PassesEarned, Returned

LEMMA FedType ==
  ASSUME TypeOK, Fed
  PROVE  speaks' = speaks /\ lines' \in Nat /\ drained' = drained
BY DEF TypeOK, Fed

\* With the flags of the primed state as formulas: arithmetic and Boolean
\* values do not go well together.
LEMMA NoPending ==
  ASSUME failing' = FALSE, NEW n
  PROVE  Pending(n)' = 0
BY Zenon DEF Pending

LEMMA InitIInv == Init => IInv
<1> SUFFICES ASSUME Init PROVE IInv
  OBVIOUS
<1>1. TypeOK
  BY DEF Init, TypeOK, None, NewSection
<1>2. \A r \in Result : results[r] = 0 /\ drained[r] = 0
  BY DEF Init, None
<1>3. \A n \in ResultName : failures[n] = 0 /\ earned[n] = 0
  BY DEF Init
<1>4. \A n : Pending(n) = 0
  BY Zenon DEF Init, Pending
<1>5. FailuresKept
  <2> SUFFICES ASSUME NEW n \in ResultName
               PROVE  results[Failing(n)] + drained[Failing(n)] + Pending(n) = failures[n]
    BY DEF FailuresKept, Returned
  <2>1. Failing(n) \in Result
    BY NamesDistinct
  <2> QED
    BY <1>2, <1>3, <1>4, <2>1
<1>6. PassesEarned
  <2> SUFFICES ASSUME NEW n \in Names
               PROVE  results[Passing(n)] + drained[Passing(n)] = earned[n]
    BY DEF PassesEarned, Returned
  <2>1. Passing(n) \in Result /\ n \in ResultName
    BY NamesDistinct
  <2> QED
    BY <1>2, <1>3, <2>1
<1>7. Sectioned
  BY DEF Init, Sectioned, NewSection
<1> QED
  BY <1>1, <1>5, <1>6, <1>7 DEF IInv

LEMMA DoctestCaseIInv == IInv /\ DoctestCase => IInv'
<1> SUFFICES ASSUME IInv, DoctestCase PROVE IInv'
  OBVIOUS
<1>1. PICK n \in Names : current' = n /\ section' = [NewSection EXCEPT !.name = n]
  BY DEF DoctestCase, Detects
<1>2. n # NoName /\ section'.name = n /\ section'.ok = FALSE /\ section'.bad = FALSE
      /\ section' \in [name : Names \cup {NoName}, ok : BOOLEAN, bad : BOOLEAN]
  BY <1>1, NamesDistinct DEF NewSection
<1>3. /\ results' = FinalizeCase(results) /\ success' = FALSE /\ failing' = FALSE
      /\ failures' = failures /\ complete' = complete /\ EndSection /\ Fed /\ framework' = speaks
  BY DEF DoctestCase, Detects
<1>4. TypeOK'
  BY <1>1, <1>2, <1>3, FinalizedCase, EarnedByPass, FedType DEF IInv, TypeOK
<1>5. FailuresKept'
  <2> SUFFICES ASSUME NEW m \in ResultName
               PROVE  results'[Failing(m)] + drained'[Failing(m)] + Pending(m)' = failures'[m]
    BY DEF FailuresKept, Returned
  <2>2. Pending(m)' = 0
    BY <1>3, NoPending
  <2>1. results'[Failing(m)] = results[Failing(m)] + Pending(m)
    BY <1>3, FinalizedCase DEF IInv
  <2>3. drained' = drained
    BY <1>3 DEF Fed
  <2> QED
    BY <1>3, <2>1, <2>2, <2>3, Balance, PendingType
<1>6. PassesEarned'
  <2> SUFFICES ASSUME NEW m \in Names
               PROVE  results'[Passing(m)] + drained'[Passing(m)] = earned'[m]
    BY DEF PassesEarned, Returned
  <2>1. m \in ResultName
    BY NamesDistinct
  <2>2. results'[Passing(m)] = results[Passing(m)] + (IF Passed /\ current = m THEN 1 ELSE 0)
    BY <1>3, <2>1, FinalizedCase DEF IInv
  <2>3. earned'[m] = earned[m] + (IF Passed /\ current = m THEN 1 ELSE 0)
    BY <1>3, <2>1, EarnedByPass
  <2>4. drained' = drained
    BY <1>3 DEF Fed
  <2> QED
    BY <1>3, <2>1, <2>2, <2>3, <2>4, Balance
<1>7. Sectioned'
  <2>1. framework' # "auto"
    BY <1>3 DEF IInv, TypeOK
  <2> QED
    BY <1>1, <1>2, <1>3, <2>1, Zenon DEF Sectioned
<1> QED
  BY <1>4, <1>5, <1>6, <1>7 DEF IInv

LEMMA DoctestSuccessIInv == IInv /\ DoctestSuccess => IInv'
<1> SUFFICES ASSUME IInv, DoctestSuccess PROVE IInv'
  OBVIOUS
<1>1. /\ Fed /\ framework' = framework /\ success' = (success \/ framework = "doctest") /\ speaks = "doctest"
      /\ results' = results /\ complete' = complete /\ current' = current
      /\ failing' = failing /\ failures' = failures /\ earned' = earned
  BY DEF DoctestSuccess
<1>2. section'.name = section.name /\ section'.bad = section.bad /\ section'.ok = TRUE
      /\ section' \in [name : Names \cup {NoName}, ok : BOOLEAN, bad : BOOLEAN]
  BY DEF DoctestSuccess, IInv, TypeOK
<1>3. TypeOK'
  BY <1>1, <1>2, FedType DEF IInv, TypeOK
<1>4. FailuresKept' /\ PassesEarned'
  BY <1>1, Zenon DEF IInv, FailuresKept, PassesEarned, Returned, Pending, InForce, Fed
<1>5. current # NoName => success'
  BY <1>1 DEF IInv, Sectioned, TypeOK
<1>6. Sectioned'
  BY <1>1, <1>2, <1>5, FedType DEF IInv, Sectioned
<1> QED
  BY <1>3, <1>4, <1>6 DEF IInv

LEMMA DoctestFailureIInv == IInv /\ DoctestFailure => IInv'
<1> SUFFICES ASSUME IInv, DoctestFailure PROVE IInv'
  OBVIOUS
<1>1. /\ Fed /\ framework' = speaks /\ results' = FinalizeFailure(results) /\ failing'
      /\ success' = (success /\ ~failing) /\ failures' = [failures EXCEPT ![InForce] = @ + 1]
      /\ complete' = complete /\ current' = current /\ earned' = earned
  BY DEF DoctestFailure, Detects
<1>2. section'.name = section.name /\ section'.bad = TRUE
      /\ section' \in [name : Names \cup {NoName}, ok : BOOLEAN, bad : BOOLEAN]
  BY DEF DoctestFailure, IInv, TypeOK
<1>3. InForce' = InForce /\ InForce \in ResultName /\ failures \in [ResultName -> Nat]
  BY <1>1, InForceName DEF InForce, IInv, TypeOK
<1>4. TypeOK'
  BY <1>1, <1>2, <1>3, FedType, FinalizedFailure DEF IInv, TypeOK
<1>5. FailuresKept'
  <2> SUFFICES ASSUME NEW m \in ResultName
               PROVE  results'[Failing(m)] + drained'[Failing(m)] + Pending(m)' = failures'[m]
    BY DEF FailuresKept, Returned
  <2>1. results'[Failing(m)] = results[Failing(m)] + Pending(m)
    BY <1>1, FinalizedFailure DEF IInv
  <2>2. drained' = drained
    BY <1>1 DEF Fed
  <2>3. Pending(m)' = IF InForce = m THEN 1 ELSE 0
    BY <1>1, <1>3, Zenon DEF Pending
  <2>4. failures'[m] = IF InForce = m THEN failures[m] + 1 ELSE failures[m]
    BY <1>1, <1>3
  <2> QED
    BY <2>1, <2>2, <2>3, <2>4, Balance, PendingType
<1>6. PassesEarned'
  BY <1>1, FedType, FinalizedFailure, NamesDistinct DEF IInv, TypeOK, PassesEarned, Returned
<1>7. Sectioned'
  <2>1. framework' # "auto" /\ section.name = current
    BY <1>1 DEF IInv, TypeOK, Sectioned
  <2> QED
    BY <1>1, <1>2, <2>1, Zenon DEF Sectioned
<1> QED
  BY <1>4, <1>5, <1>6, <1>7 DEF IInv

LEMMA DoctestSummaryIInv == IInv /\ DoctestSummary => IInv'
<1> SUFFICES ASSUME IInv, DoctestSummary PROVE IInv'
  OBVIOUS
<1>1. /\ Fed /\ framework' = speaks /\ complete' = TRUE /\ current' = NoName /\ success' = FALSE
      /\ failing' = FALSE /\ section' = NewSection /\ EndSection /\ failures' = failures
  BY DEF DoctestSummary, Detects
<1>2. \/ results' = FinalizeCase(results)
      \/ FinalizeCase(results) = None /\ results' = Append1(None, Passing(AllTests))
  BY DEF DoctestSummary, Detects
<1>3. None \in [Result -> Nat] /\ Passing(AllTests) \in Result
  BY NamesDistinct DEF None
<1>4. /\ results' \in [Result -> Nat]
      /\ \A n \in ResultName : results'[Failing(n)] = FinalizeCase(results)[Failing(n)]
      /\ \A n \in Names : results'[Passing(n)] = FinalizeCase(results)[Passing(n)]
  <2>1. CASE results' = FinalizeCase(results)
    BY <2>1, FinalizedCase DEF IInv
  <2>2. CASE FinalizeCase(results) = None /\ results' = Append1(None, Passing(AllTests))
    BY <2>2, <1>3, AppendedOne, NamesDistinct
  <2> QED
    BY <1>2, <2>1, <2>2
<1>5. section'.name = NoName /\ section'.bad = FALSE
      /\ section' \in [name : Names \cup {NoName}, ok : BOOLEAN, bad : BOOLEAN]
  BY <1>1 DEF NewSection
<1>6. TypeOK'
  BY <1>1, <1>4, <1>5, FedType, EarnedByPass DEF IInv, TypeOK
<1>7. FailuresKept'
  <2> SUFFICES ASSUME NEW m \in ResultName
               PROVE  results'[Failing(m)] + drained'[Failing(m)] + Pending(m)' = failures'[m]
    BY DEF FailuresKept, Returned
  <2>1. results'[Failing(m)] = results[Failing(m)] + Pending(m)
    BY <1>4, FinalizedCase DEF IInv
  <2>2. drained' = drained /\ failures' = failures /\ Pending(m)' = 0
    BY <1>1, NoPending DEF Fed
  <2> QED
    BY <2>1, <2>2, Balance, PendingType
<1>8. PassesEarned'
  BY <1>1, <1>4, FinalizedCase, FedType, EarnedByPass, NamesDistinct
  DEF IInv, TypeOK, PassesEarned, Returned
<1>9. Sectioned'
  BY <1>1, <1>5 DEF Sectioned
<1> QED
  BY <1>6, <1>7, <1>8, <1>9 DEF IInv

LEMMA UnityResultIInv == IInv /\ UnityResult => IInv'
<1> SUFFICES ASSUME IInv, UnityResult PROVE IInv'
  OBVIOUS
<1>1. /\ Fed /\ framework' = speaks /\ complete' = complete /\ current' = current /\ success' = success
      /\ failing' = failing /\ section' = section
  BY DEF UnityResult, Detects
<1>2. PICK n \in Names, r \in Result :
        /\ results' = Append1(results, r)
        /\ \/ r = Passing(n) /\ earned' = [earned EXCEPT ![n] = @ + 1] /\ failures' = failures
           \/ r = Failing(n) /\ failures' = [failures EXCEPT ![n] = @ + 1] /\ earned' = earned
  BY NamesDistinct DEF UnityResult
<1>3. n \in ResultName
  BY NamesDistinct
<1>4. /\ results' \in [Result -> Nat]
      /\ \A s \in Result : results'[s] = IF s = r THEN results[s] + 1 ELSE results[s]
  BY <1>2, AppendedOne DEF IInv, TypeOK
<1>5. TypeOK'
  BY <1>1, <1>2, <1>3, <1>4, FedType DEF IInv, TypeOK
<1>6. FailuresKept'
  <2> SUFFICES ASSUME NEW m \in ResultName
               PROVE  results'[Failing(m)] + drained'[Failing(m)] + Pending(m)' = failures'[m]
    BY DEF FailuresKept, Returned
  <2>1. Pending(m)' = Pending(m)
    BY <1>1, Zenon DEF Pending, InForce
  <2>2. drained' = drained /\ failures \in [ResultName -> Nat]
    BY <1>1 DEF Fed, IInv, TypeOK
  <2>3. results'[Failing(m)] = IF r = Failing(m) THEN results[Failing(m)] + 1 ELSE results[Failing(m)]
    BY <1>4, NamesDistinct
  <2>4. r = Failing(m) => r = Failing(n) /\ m = n
    BY <1>2, NamesDistinct
  <2>5. failures'[m] = IF r = Failing(m) THEN failures[m] + 1 ELSE failures[m]
    BY <1>2, <1>3, <2>2, <2>4, NamesDistinct
  <2> QED
    BY <2>1, <2>2, <2>3, <2>5, Balance, PendingType
<1>7. PassesEarned'
  BY <1>1, <1>2, <1>3, <1>4, FedType, NamesDistinct DEF IInv, TypeOK, PassesEarned, Returned
<1>8. Sectioned'
  <2>1. framework' # "auto"
    BY <1>1 DEF IInv, TypeOK
  <2> QED
    BY <1>1, <2>1, Zenon DEF IInv, Sectioned
<1> QED
  BY <1>5, <1>6, <1>7, <1>8 DEF IInv

LEMMA UnitySummaryIInv == IInv /\ UnitySummary => IInv'
<1> SUFFICES ASSUME IInv, UnitySummary PROVE IInv'
  OBVIOUS
<1>1. /\ Fed /\ framework' = speaks /\ complete' = TRUE /\ results' = results /\ current' = current
      /\ success' = success /\ failing' = failing /\ failures' = failures
      /\ earned' = earned /\ section' = section
  BY DEF UnitySummary, Detects
<1>2. TypeOK'
  BY <1>1, FedType DEF IInv, TypeOK
<1>3. FailuresKept' /\ PassesEarned'
  BY <1>1, Zenon DEF IInv, FailuresKept, PassesEarned, Returned, Pending, InForce, Fed
<1>4. framework' # "auto"
  BY <1>1 DEF IInv, TypeOK
<1>5. Sectioned'
  BY <1>1, <1>4, Zenon DEF IInv, Sectioned
<1> QED
  BY <1>2, <1>3, <1>5 DEF IInv

LEMMA DrainIInv == IInv /\ Drain => IInv'
<1> SUFFICES ASSUME IInv, Drain PROVE IInv'
  OBVIOUS
<1>1. /\ results' = None /\ drained' = [r \in Result |-> drained[r] + results[r]]
      /\ framework' = framework /\ complete' = complete /\ current' = current
      /\ success' = success /\ failing' = failing /\ speaks' = speaks /\ lines' = lines
      /\ failures' = failures /\ earned' = earned /\ section' = section
  BY DEF Drain
<1>2. results \in [Result -> Nat] /\ drained \in [Result -> Nat]
  BY DEF IInv, TypeOK
<1>3. results' \in [Result -> Nat] /\ drained' \in [Result -> Nat]
  BY <1>1, <1>2 DEF None
<1>4. \A r \in Result : results'[r] + drained'[r] = results[r] + drained[r]
  BY <1>1, <1>2 DEF None
<1>5. TypeOK'
  BY <1>1, <1>3 DEF IInv, TypeOK
<1>6. FailuresKept'
  <2>1. \A n : Pending(n)' = Pending(n)
    BY <1>1, Zenon DEF Pending, InForce
  <2> QED
    BY <1>1, <1>4, <2>1, NamesDistinct DEF IInv, FailuresKept, Returned
<1>7. PassesEarned'
  BY <1>1, <1>4, NamesDistinct DEF IInv, PassesEarned, Returned
<1> QED
  BY <1>1, <1>5, <1>6, <1>7 DEF IInv, Sectioned

LEMMA NextIInv == IInv /\ [Next]_vars => IInv'
<1> SUFFICES ASSUME IInv, [Next]_vars PROVE IInv'
  OBVIOUS
<1>1. CASE UNCHANGED vars
  BY <1>1, Zenon DEF vars, IInv, TypeOK, FailuresKept, PassesEarned, Returned, Pending, InForce,
     Sectioned
<1> QED
  BY <1>1, DoctestCaseIInv, DoctestSuccessIInv, DoctestFailureIInv, DoctestSummaryIInv,
     UnityResultIInv, UnitySummaryIInv, DrainIInv DEF Next

\* The receiver's bookkeeping: types, both counts and the section's flags.
THEOREM Inductive == Spec => []IInv
BY InitIInv, NextIInv, PTL DEF Spec

\* Every failing line fed before the summary is one failing result, for any
\* names, outputs and drains.
THEOREM NoFailureLost == Spec => []FailuresKept
<1>1. IInv => FailuresKept
  BY DEF IInv
<1> QED
  BY <1>1, Inductive, PTL

\* And a test passes once per section that succeeded without a failure.
THEOREM NoPassInvented == Spec => []PassesEarned
<1>1. IInv => PassesEarned
  BY DEF IInv
<1> QED
  BY <1>1, Inductive, PTL
=============================================================================
