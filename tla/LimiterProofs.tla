------------------------------ MODULE LimiterProofs ------------------------------
(***************************************************************************)
(* The rate limiter, for any keys, limit, window and horizon.                *)
(***************************************************************************)
EXTENDS RateLimiter, FiniteSetTheorems, TLAPS

\* What LimiterInv says of the calls of one key.
KeyOK(k) ==
  /\ IsFiniteSet(admitted[k])
  /\ \A e \in admitted[k] : e.n <= Cardinality(admitted[k]) /\ e.at <= clock
  /\ calls[k] \subseteq admitted[k]
  /\ \A e \in admitted[k] : e.at > clock - Window => e \in calls[k]
  /\ \A r \in refused[k], e \in admitted[k] : e.at <= r

\* LimiterInv, key by key.
LEMMA InvByKey ==
  LimiterInv <=> LimiterTypeOK /\ (\A k \in Keys : KeyOK(k)) /\ WindowBound
BY DEF LimiterInv, KeyOK

\* The stamps is_allowed keeps are those of the window that ends now.
LEMMA KeptIsWindow ==
  ASSUME LimiterInv, NEW k \in Keys
  PROVE  /\ Kept(k) = Within(admitted[k], clock)
         /\ IsFiniteSet(Kept(k)) /\ Cardinality(Kept(k)) \in Nat
         /\ IsFiniteSet(admitted[k]) /\ Cardinality(admitted[k]) \in Nat
         /\ Kept(k) \subseteq admitted[k]
<1>1. KeyOK(k) /\ LimiterTypeOK
  BY InvByKey
<1>2. Kept(k) \subseteq admitted[k]
  BY <1>1 DEF KeyOK, Kept
<1>3. Kept(k) = Within(admitted[k], clock)
  BY <1>1 DEF KeyOK, Kept, Within
<1>4. IsFiniteSet(admitted[k]) /\ IsFiniteSet(Kept(k))
  BY <1>1, <1>2, FS_Subset DEF KeyOK
<1>5. QED
  BY <1>2, <1>3, <1>4, FS_CardinalityType

\* The next entry is new to the key's history.
LEMMA NextEntryNew ==
  ASSUME LimiterInv, NEW k \in Keys
  PROVE  NextEntry(k) \in Entry /\ NextEntry(k) \notin admitted[k]
<1>1. KeyOK(k) /\ LimiterTypeOK /\ Cardinality(admitted[k]) \in Nat
  BY InvByKey, KeptIsWindow
<1>2. NextEntry(k).n = Cardinality(admitted[k]) + 1
  BY DEF NextEntry
<1>3. \A e \in admitted[k] : e.n <= Cardinality(admitted[k]) /\ e.n \in Nat
  BY <1>1 DEF KeyOK, LimiterTypeOK, Entry
<1>4. NextEntry(k) \in Entry
  BY <1>1, WindowAssumption DEF NextEntry, Entry, LimiterTypeOK
<1>5. QED
  BY <1>1, <1>2, <1>3, <1>4

\* An empty process satisfies LimiterInv.
LEMMA LimiterStart == LimiterInit => LimiterInv
<1> SUFFICES ASSUME LimiterInit PROVE LimiterInv
  OBVIOUS
<1>1. LimiterTypeOK
  BY WindowAssumption DEF LimiterInit, WindowInit, LimiterTypeOK
<1>2. \A k \in Keys : KeyOK(k)
  BY FS_EmptySet DEF LimiterInit, WindowInit, KeyOK
<1>3. WindowBound
  <2> SUFFICES ASSUME NEW k \in Keys, NEW end \in 0..clock
               PROVE  Cardinality(Within(admitted[k], end)) <= MaxCalls
    BY DEF WindowBound
  <2>1. Within(admitted[k], end) = {}
    BY DEF LimiterInit, WindowInit, Within
  <2>2. QED
    BY <2>1, FS_EmptySet, WindowAssumption
<1>4. QED
  BY <1>1, <1>2, <1>3, InvByKey

\* Time only lets admissions expire.
LEMMA TimePassesKeeps == LimiterInv /\ TimePasses => LimiterInv'
<1> SUFFICES ASSUME LimiterInv, TimePasses PROVE LimiterInv'
  OBVIOUS
<1>1. LimiterTypeOK /\ (\A k \in Keys : KeyOK(k)) /\ WindowBound
  BY InvByKey
<1>2. /\ clock' = clock + 1 /\ clock < Horizon
      /\ admitted' = admitted /\ refused' = refused /\ calls' = calls
  BY DEF TimePasses, Tick
<1>3. LimiterTypeOK'
  BY <1>1, <1>2, WindowAssumption DEF LimiterTypeOK
<1>4. ASSUME NEW k \in Keys PROVE KeyOK(k)'
  <2>1. KeyOK(k)
    BY <1>1
  <2>2. \A e \in admitted[k] : e.at \in Nat /\ e.n \in Nat
    BY <1>1 DEF LimiterTypeOK, Entry
  <2>3. \A e \in admitted[k] : e.at <= clock'
    BY <2>1, <2>2, <1>1, <1>2 DEF KeyOK, LimiterTypeOK
  <2>4. \A e \in admitted[k] : e.at > clock' - Window => e \in calls[k]
    BY <2>1, <2>2, <1>1, <1>2, WindowAssumption DEF KeyOK, LimiterTypeOK
  <2>5. QED
    BY <2>1, <2>3, <2>4, <1>2 DEF KeyOK
<1>5. WindowBound'
  <2> SUFFICES ASSUME NEW k \in Keys, NEW end \in 0..clock'
               PROVE  Cardinality(Within(admitted[k], end)) <= MaxCalls
    BY <1>2 DEF WindowBound, Within
  <2>1. CASE end <= clock
    BY <2>1, <1>1, <1>2 DEF WindowBound, LimiterTypeOK
  <2>2. CASE end = clock + 1
    <3>1. \A e \in admitted[k] : e.at \in Nat /\ e.at <= clock
      BY <1>1 DEF LimiterTypeOK, Entry, KeyOK
    <3>2. Within(admitted[k], end) \subseteq Within(admitted[k], clock)
      BY <2>2, <3>1, <1>1, WindowAssumption DEF Within, LimiterTypeOK
    <3>3. Within(admitted[k], clock) = Kept(k) /\ IsFiniteSet(Kept(k))
      BY KeptIsWindow
    <3>4. Cardinality(Within(admitted[k], end)) <= Cardinality(Within(admitted[k], clock))
      BY <3>2, <3>3, FS_Subset
    <3>5. Cardinality(Within(admitted[k], clock)) <= MaxCalls
      BY <1>1 DEF WindowBound, LimiterTypeOK
    <3>6. IsFiniteSet(Within(admitted[k], end))
      BY <3>2, <3>3, FS_Subset
    <3>7. QED
      BY <3>3, <3>4, <3>5, <3>6, FS_CardinalityType, WindowAssumption
  <2>3. QED
    BY <2>1, <2>2, <1>1, <1>2 DEF LimiterTypeOK
<1>6. QED
  BY <1>3, <1>4, <1>5, InvByKey DEF LimiterInv, KeyOK

\* A restart forgets the entries, and the window starts anew.
LEMMA RestartKeeps == LimiterInv /\ Restart => LimiterInv'
<1> SUFFICES ASSUME LimiterInv, Restart PROVE LimiterInv'
  OBVIOUS
<1>1. /\ clock' = clock
      /\ \A k \in Keys : admitted'[k] = {} /\ refused'[k] = {} /\ calls'[k] = {}
  BY DEF Restart, Forget
<1>2. LimiterTypeOK'
  BY InvByKey DEF LimiterTypeOK, Restart, Forget
<1>3. \A k \in Keys : KeyOK(k)'
  BY <1>1, FS_EmptySet DEF KeyOK
<1>4. WindowBound'
  <2> SUFFICES ASSUME NEW k \in Keys, NEW end \in 0..clock
               PROVE  Cardinality(Within(admitted'[k], end)) <= MaxCalls
    BY <1>1 DEF WindowBound, Within
  <2>1. Within(admitted'[k], end) = {}
    BY <1>1 DEF Within
  <2>2. QED
    BY <2>1, FS_EmptySet, WindowAssumption
<1>5. QED
  BY <1>2, <1>3, <1>4 DEF LimiterInv, KeyOK

\* The heart of it: a window that holds the new call, and with it no later one, holds of
\* the older ones at most those is_allowed has just counted.
LEMMA AdmissionKeepsBound ==
  ASSUME LimiterInv, NEW k \in Keys, WouldAdmit(k), NEW end \in 0..clock
  PROVE  Cardinality(Within(admitted[k] \cup {NextEntry(k)}, end)) <= MaxCalls
<1>1. LimiterTypeOK /\ KeyOK(k) /\ WindowBound
  BY InvByKey
<1>2. \A e \in admitted[k] : e.at \in Nat /\ e.at <= clock
  BY <1>1 DEF LimiterTypeOK, Entry, KeyOK
<1>3. NextEntry(k).at = clock
  BY DEF NextEntry
<1>4. CASE end < clock
  <2>1. Within(admitted[k] \cup {NextEntry(k)}, end) = Within(admitted[k], end)
    BY <1>3, <1>4, <1>1 DEF Within, LimiterTypeOK
  <2>2. QED
    BY <2>1, <1>1 DEF WindowBound
<1>5. CASE end = clock
  <2>1. Within(admitted[k] \cup {NextEntry(k)}, end) = Kept(k) \cup {NextEntry(k)}
    <3>1. Kept(k) = Within(admitted[k], clock)
      BY KeptIsWindow
    <3>2. NextEntry(k).at > end - Window /\ NextEntry(k).at <= end
      BY <1>1, <1>3, <1>5, WindowAssumption DEF LimiterTypeOK
    <3>3. QED
      BY <3>1, <3>2, <1>5 DEF Within
  <2>2. Cardinality(Kept(k)) < MaxCalls
    BY DEF WouldAdmit
  <2>3. Cardinality(Kept(k)) \in Nat /\ IsFiniteSet(Kept(k))
    BY KeptIsWindow
  <2>4. \/ Cardinality(Kept(k) \cup {NextEntry(k)}) = Cardinality(Kept(k))
        \/ Cardinality(Kept(k) \cup {NextEntry(k)}) = Cardinality(Kept(k)) + 1
    BY <2>3, FS_AddElement
  <2>5. Cardinality(Kept(k) \cup {NextEntry(k)}) <= MaxCalls
    BY <2>2, <2>3, <2>4, WindowAssumption
  <2>6. QED
    BY <2>1, <2>5
<1>6. QED
  BY <1>1, <1>4, <1>5 DEF LimiterTypeOK

\* A call of is_allowed, admitted or refused.
LEMMA IsAllowedKeeps ==
  ASSUME LimiterInv, NEW k \in Keys, IsAllowed(k)
  PROVE  LimiterInv'
<1>1. LimiterTypeOK /\ (\A j \in Keys : KeyOK(j)) /\ WindowBound /\ clock' = clock
  BY InvByKey DEF IsAllowed, Answer
<1>2. /\ Kept(k) \subseteq admitted[k]
      /\ IsFiniteSet(admitted[k]) /\ Cardinality(admitted[k]) \in Nat
  BY KeptIsWindow
<1>3. \A e \in admitted[k] : e.at > clock - Window => e \in Kept(k)
  BY <1>1 DEF KeyOK, Kept
<1>4. Kept(k) \subseteq Entry
  BY <1>1, <1>2 DEF LimiterTypeOK
<1>5. \A e \in admitted[k] : e.n \in Nat /\ e.at \in Nat /\ e.at <= clock
  BY <1>1 DEF LimiterTypeOK, Entry, KeyOK
<1>6. CASE ~WouldAdmit(k)
  <2>1. /\ calls' = [calls EXCEPT ![k] = Kept(k)]
        /\ refused' = [refused EXCEPT ![k] = FirstRefusal(k)]
        /\ admitted' = admitted
    BY <1>6 DEF IsAllowed, Answer, WouldAdmit
  <2>2. FirstRefusal(k) \subseteq Nat
    BY <1>1, WindowAssumption DEF FirstRefusal, LimiterTypeOK
  <2>3. LimiterTypeOK'
    BY <1>1, <1>4, <2>1, <2>2 DEF LimiterTypeOK
  <2>4. \A r \in FirstRefusal(k), e \in admitted[k] : e.at <= r
    BY <1>1, <1>5 DEF KeyOK, FirstRefusal
  <2>5. KeyOK(k)'
    BY <1>1, <1>2, <1>3, <2>1, <2>4 DEF KeyOK, LimiterTypeOK
  <2>6. \A j \in Keys \ {k} : KeyOK(j)'
    BY <1>1, <2>1 DEF KeyOK, LimiterTypeOK
  <2>7. WindowBound'
    BY <1>1, <2>1 DEF WindowBound, Within
  <2>8. QED
    BY <2>3, <2>5, <2>6, <2>7 DEF LimiterInv, KeyOK
<1>7. CASE WouldAdmit(k)
  <2> DEFINE e1 == NextEntry(k)
             A1 == admitted[k] \cup {e1}
  <2>1. /\ calls' = [calls EXCEPT ![k] = Kept(k) \cup {e1}]
        /\ admitted' = [admitted EXCEPT ![k] = A1]
        /\ refused' = [refused EXCEPT ![k] = {}]
    BY <1>7, KeptIsWindow, WindowAssumption DEF IsAllowed, Answer, WouldAdmit
  <2>2. e1 \in Entry /\ e1 \notin admitted[k]
    BY NextEntryNew
  <2>3. e1.n = Cardinality(admitted[k]) + 1 /\ e1.at = clock
    BY DEF NextEntry
  <2>4. IsFiniteSet(A1) /\ Cardinality(A1) = Cardinality(admitted[k]) + 1
    BY <1>2, <2>2, FS_AddElement
  <2> HIDE DEF e1
  <2>5. LimiterTypeOK'
    BY <1>1, <1>4, <2>1, <2>2 DEF LimiterTypeOK
  <2>6. calls'[k] = Kept(k) \cup {e1} /\ admitted'[k] = A1 /\ refused'[k] = {}
    BY <1>1, <2>1 DEF LimiterTypeOK
  <2>7. \A e \in A1 : e.n <= Cardinality(A1) /\ e.at <= clock
    <3>1. \A e \in admitted[k] : e.n <= Cardinality(admitted[k])
      BY <1>1 DEF KeyOK
    <3>2. \A e \in admitted[k] : e.n <= Cardinality(A1) /\ e.at <= clock
      BY <1>2, <1>5, <2>4, <3>1
    <3>3. QED
      BY <1>1, <1>2, <2>3, <2>4, <3>2 DEF LimiterTypeOK
  <2>8. \A e \in A1 : e.at > clock - Window => e \in Kept(k) \cup {e1}
    BY <1>3
  <2>9. KeyOK(k)'
    BY <1>1, <1>2, <2>4, <2>6, <2>7, <2>8 DEF KeyOK
  <2>10. \A j \in Keys \ {k} : KeyOK(j)'
    BY <1>1, <2>1 DEF KeyOK, LimiterTypeOK
  <2>11. WindowBound'
    <3> SUFFICES ASSUME NEW j \in Keys, NEW end \in 0..clock
                 PROVE  Cardinality(Within(admitted'[j], end)) <= MaxCalls
      BY <1>1 DEF WindowBound, Within
    <3>1. CASE j = k
      BY <3>1, <2>6, <1>7, AdmissionKeepsBound DEF e1
    <3>2. CASE j # k
      BY <3>2, <1>1, <2>1 DEF WindowBound, LimiterTypeOK
    <3>3. QED
      BY <3>1, <3>2
  <2>12. QED
    BY <2>5, <2>9, <2>10, <2>11 DEF LimiterInv, KeyOK
<1>8. QED
  BY <1>6, <1>7

\* The invariant of the limiter: the list of a key holds every call of the window that
\* ends now, and no window ever held too many.
THEOREM LimiterInvariance == LimiterSpec => []LimiterInv
<1>1. LimiterInit => LimiterInv
  BY LimiterStart
<1>2. LimiterInv /\ [LimiterNext]_limiterVars => LimiterInv'
  <2> SUFFICES ASSUME LimiterInv, [LimiterNext]_limiterVars PROVE LimiterInv'
    OBVIOUS
  <2>1. CASE TimePasses
    BY <2>1, TimePassesKeeps
  <2>2. CASE Restart
    BY <2>2, RestartKeeps
  <2>3. ASSUME NEW k \in Keys, IsAllowed(k) PROVE LimiterInv'
    BY <2>3, IsAllowedKeeps
  <2>4. CASE UNCHANGED limiterVars
    BY <2>4 DEF limiterVars, LimiterInv, LimiterTypeOK, WindowBound, Within
  <2>5. QED
    BY <2>1, <2>2, <2>3, <2>4 DEF LimiterNext
<1>3. QED
  BY <1>1, <1>2, PTL DEF LimiterSpec

\* No window of the given length, wherever it ends, admits more than max_calls calls of
\* one key.
THEOREM LimiterWindowBound == LimiterSpec => []WindowBound
<1>1. LimiterInv => WindowBound
  BY DEF LimiterInv
<1>2. QED
  BY <1>1, LimiterInvariance, PTL

\* A refused caller gets in one window later.
THEOREM LimiterRetryAdmitted == LimiterSpec => []RetryAdmitted
<1>1. LimiterInv => RetryAdmitted
  <2> SUFFICES ASSUME LimiterInv, NEW k \in Keys, NEW r \in refused[k],
                      clock >= r + Window
               PROVE  WouldAdmit(k)
    BY DEF RetryAdmitted
  <2>1. KeyOK(k) /\ LimiterTypeOK
    BY InvByKey
  <2>2. r \in Nat /\ \A e \in calls[k] : e.at \in Nat /\ e.at <= r
    BY <2>1 DEF KeyOK, LimiterTypeOK, Entry
  <2>3. Kept(k) = {}
    BY <2>1, <2>2, WindowAssumption DEF Kept, LimiterTypeOK
  <2>4. QED
    BY <2>3, FS_EmptySet, WindowAssumption DEF WouldAdmit
<1>2. QED
  BY <1>1, LimiterInvariance, PTL

\* The limiter that throws stamps away implements the one that never forgets.
THEOREM LimiterImplementsWindow == LimiterSpec => ImplementsWindow
<1>1. LimiterInit => WindowInit
  BY DEF LimiterInit
<1>2. LimiterInv /\ [LimiterNext]_limiterVars => [WindowNext]_windowVars
  <2> SUFFICES ASSUME LimiterInv, [LimiterNext]_limiterVars
               PROVE  [WindowNext]_windowVars
    OBVIOUS
  <2>1. CASE TimePasses
    BY <2>1 DEF TimePasses, WindowNext
  <2>2. CASE Restart
    BY <2>2 DEF Restart, WindowNext
  <2>3. ASSUME NEW k \in Keys, IsAllowed(k) PROVE WindowNext
    <3>1. Kept(k) = Within(admitted[k], clock) /\ Cardinality(Kept(k)) \in Nat
      BY KeptIsWindow
    <3>2. CASE WouldAdmit(k)
      <4>1. Admit(k)
        BY <2>3, <3>1, <3>2, WindowAssumption DEF IsAllowed, Answer, Admit, WouldAdmit
      <4>2. QED
        BY <4>1 DEF WindowNext
    <3>3. CASE ~WouldAdmit(k)
      <4>1. Cardinality(Within(admitted[k], clock)) >= MaxCalls
        BY <3>1, <3>3, WindowAssumption DEF WouldAdmit
      <4>2. Refuse(k)
        BY <2>3, <3>1, <3>3, <4>1, WindowAssumption DEF IsAllowed, Answer, WouldAdmit, Refuse
      <4>3. QED
        BY <4>2 DEF WindowNext
    <3>4. QED
      BY <3>2, <3>3
  <2>4. CASE UNCHANGED limiterVars
    BY <2>4 DEF limiterVars, windowVars
  <2>5. QED
    BY <2>1, <2>2, <2>3, <2>4 DEF LimiterNext
<1>3. QED
  BY <1>1, <1>2, LimiterInvariance, PTL DEF LimiterSpec, WindowSpec, ImplementsWindow
================================================================================
