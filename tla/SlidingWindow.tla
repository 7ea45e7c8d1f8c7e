------------------------------ MODULE SlidingWindow ------------------------------
(***************************************************************************)
(* What a sliding-window rate limiter promises: a call of a key is admitted  *)
(* if and only if fewer than MaxCalls calls of that key were admitted in the *)
(* Window before it.  It remembers everything it ever admitted.              *)
(***************************************************************************)
EXTENDS Integers, FiniteSets

CONSTANTS Keys,       \* callers, told apart by their address
          MaxCalls,   \* max_calls
          Window,     \* window_seconds, in ticks of the clock
          Horizon     \* bound: the last tick the clock reaches

ASSUME WindowAssumption ==
  MaxCalls \in Nat \ {0} /\ Window \in Nat \ {0} /\ Horizon \in Nat

VARIABLES clock,      \* time.monotonic()
          admitted,   \* the calls admitted since the process started, by key
          refused     \* when a key was first refused since its last admission
windowVars == <<clock, admitted, refused>>

\* An admitted call: the how many-th of its key it was, and when.
Entry == [n : Nat, at : Nat]

Within(entries, end) == {e \in entries : e.at > end - Window /\ e.at <= end}

NextEntry(k) == [n |-> Cardinality(admitted[k]) + 1, at |-> clock]

FirstRefusal(k) == IF refused[k] = {} THEN {clock} ELSE refused[k]

WindowInit ==
  /\ clock = 0
  /\ admitted = [k \in Keys |-> {}]
  /\ refused = [k \in Keys |-> {}]

Tick == clock < Horizon /\ clock' = clock + 1 /\ UNCHANGED <<admitted, refused>>

Admit(k) ==
  /\ Cardinality(Within(admitted[k], clock)) < MaxCalls
  /\ admitted' = [admitted EXCEPT ![k] = @ \cup {NextEntry(k)}]
  /\ refused' = [refused EXCEPT ![k] = {}]
  /\ UNCHANGED clock

Refuse(k) ==
  /\ Cardinality(Within(admitted[k], clock)) >= MaxCalls
  /\ refused' = [refused EXCEPT ![k] = FirstRefusal(k)]
  /\ UNCHANGED <<clock, admitted>>

\* A new process knows nothing of the calls before it.
Forget ==
  /\ admitted' = [k \in Keys |-> {}]
  /\ refused' = [k \in Keys |-> {}]
  /\ UNCHANGED clock

WindowNext == Tick \/ Forget \/ \E k \in Keys : Admit(k) \/ Refuse(k)

WindowSpec == WindowInit /\ [][WindowNext]_windowVars
================================================================================
