------------------------------- MODULE RateLimiter -------------------------------
(***************************************************************************)
(* api/rate_limit.py, and _check_rate_limit of api/main.py, which every      *)
(* endpoint but /api/health calls first.  The endpoints are coroutines of    *)
(* one event loop and is_allowed does not await, so that a call of it is one *)
(* step.  The list of a key is a set here: no two of its entries are the     *)
(* same call, and nothing depends on their order.                            *)
(* admitted and refused are history: what the callers were told.             *)
(***************************************************************************)
EXTENDS SlidingWindow

VARIABLES calls   \* _calls: the stamps a key's list holds
limiterVars == <<clock, admitted, refused, calls>>

LimiterTypeOK ==
  /\ clock \in 0..Horizon
  /\ admitted \in [Keys -> SUBSET Entry]
  /\ refused \in [Keys -> SUBSET Nat]
  /\ calls \in [Keys -> SUBSET Entry]

LimiterInit == WindowInit /\ calls = [k \in Keys |-> {}]

\* Seeded fault: a call exactly one window old still counts.
KeptAtEdge(k) == {e \in calls[k] : e.at >= clock - Window}

\* What the list comprehension keeps: t > cutoff.
Kept(k) == {e \in calls[k] : e.at > clock - Window}

WouldAdmit(k) == Cardinality(Kept(k)) < MaxCalls

\* The rest of is_allowed, once the list is pruned: entry is what goes into it.
Answer(k, kept, entry) ==
  /\ UNCHANGED clock
  /\ \/ /\ Cardinality(kept) >= MaxCalls
        /\ calls' = [calls EXCEPT ![k] = kept]
        /\ refused' = [refused EXCEPT ![k] = FirstRefusal(k)]
        /\ UNCHANGED admitted
     \/ /\ Cardinality(kept) < MaxCalls
        /\ calls' = [calls EXCEPT ![k] = kept \cup {entry}]
        /\ admitted' = [admitted EXCEPT ![k] = @ \cup {entry}]
        /\ refused' = [refused EXCEPT ![k] = {}]

\* Seeded fault: the cutoff is recorded in the place of the time of the call.
IsAllowedCutoff(k) == Answer(k, Kept(k), [NextEntry(k) EXCEPT !.at = clock - Window])

\* Seeded fault: a key's list starts anew one window after its oldest call.
IsAllowedFixedWindow(k) ==
  Answer(k, IF Kept(k) = calls[k] THEN calls[k] ELSE {}, NextEntry(k))

IsAllowed(k) == Answer(k, Kept(k), NextEntry(k))

TimePasses == Tick /\ UNCHANGED calls

\* The limiter is in memory: a new process starts with an empty one.
Restart == Forget /\ calls' = [k \in Keys |-> {}]

LimiterNext == TimePasses \/ Restart \/ \E k \in Keys : IsAllowed(k)

LimiterSpec == LimiterInit /\ [][LimiterNext]_limiterVars

--------------------------------------------------------------------------------
\* No window of that length, wherever it ends, has seen more than MaxCalls calls of one
\* key admitted by one process, although is_allowed only looks at windows that end now and
\* throws stamps away.
WindowBound ==
  \A k \in Keys, end \in 0..clock : Cardinality(Within(admitted[k], end)) <= MaxCalls

\* "Rate limit exceeded. Please try again in a minute." (api/main.py): whoever was refused
\* gets in one window later, however often they tried in between, unless somebody else
\* with the same key was let in first.
RetryAdmitted ==
  \A k \in Keys : \A r \in refused[k] : clock >= r + Window => WouldAdmit(k)

\* Throwing stamps away changes no answer: the limiter admits and refuses exactly as one
\* that remembers every call, each key by itself.
ImplementsWindow == WindowSpec

\* The inductive invariant: the list holds every call of the window that ends now, and a
\* refusal since the last admission is no older than that.
LimiterInv ==
  /\ LimiterTypeOK
  /\ \A k \in Keys :
       /\ IsFiniteSet(admitted[k])
       /\ \A e \in admitted[k] : e.n <= Cardinality(admitted[k]) /\ e.at <= clock
       /\ calls[k] \subseteq admitted[k]
       /\ \A e \in admitted[k] : e.at > clock - Window => e \in calls[k]
       /\ \A r \in refused[k], e \in admitted[k] : e.at <= r
  /\ WindowBound
================================================================================
