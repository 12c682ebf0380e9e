------------------------------ MODULE LoginLimits ------------------------------
(***************************************************************************)
(* How fast passwords and codes can be tried (access-manager/lib/          *)
(* rate-limiter and totp).  AuthenticationLimiter admits a login before    *)
(* its password is verified and counts it when it is released; the code    *)
(* limiter checks and counts in one step.  Time is the age of what has     *)
(* been counted.                                                           *)
(***************************************************************************)
EXTENDS Naturals, Sequences, FiniteSets

CONSTANTS
  Sources,                   \* browser sources
  Logins,                    \* requests a login can be
  Window,                    \* length of the rolling window
  SourceLimit, GlobalLimit,  \* failures in a window
  MaxConcurrent,             \* logins being verified
  BackoffThreshold, MaxBackoff

ASSUME LimitAssumption ==
  /\ "none" \notin Sources /\ MaxConcurrent \in Nat
  /\ SourceLimit \in Nat \ {0} /\ GlobalLimit \in Nat \ {0}

VARIABLES
  failures,  \* the ages of the failures counted, for each source, oldest first
  allFailures, \* and for the instance
  streak,    \* consecutive failures of a source, and the wait that is left
  verifying  \* the source of each login that is being verified, and whether
             \* the list it will be counted in is still the source's

limitVars == <<failures, allFailures, streak, verifying>>

(* prune shifts the oldest away. *)
Younger(ages) ==
  LET kept == Cardinality({i \in DOMAIN ages : ages[i] + 1 < Window})
  IN  [i \in 1 .. kept |-> ages[Len(ages) - kept + i] + 1]
Least(m, n) == IF m < n THEN m ELSE n
NoFailures == [failed |-> 0, wait |-> 0]
NoLogin == [source |-> "none", counted |-> FALSE]
Verifying == {l \in Logins : verifying[l] # NoLogin}

LimitInit ==
  /\ failures = [s \in Sources |-> << >>] /\ allFailures = << >>
  /\ streak = [s \in Sources |-> NoFailures] /\ verifying = [l \in Logins |-> NoLogin]

DefectAdmissible(s) ==
  /\ streak[s].wait = 0
  /\ Len(failures[s]) < SourceLimit /\ Len(allFailures) < GlobalLimit

(* enter. *)
Admissible(s) ==
  /\ streak[s].wait = 0 /\ Cardinality(Verifying) < MaxConcurrent
  /\ Len(failures[s]) < SourceLimit /\ Len(allFailures) < GlobalLimit
Enter(s) ==
  /\ Admissible(s)
  /\ \E l \in Logins \ Verifying :
       verifying' = [verifying EXCEPT ![l] = [source |-> s, counted |-> TRUE]]
  /\ UNCHANGED <<failures, allFailures, streak>>

(* release. *)
VerificationFails(n) ==
  [failed |-> Least(n, BackoffThreshold + MaxBackoff),
   wait |-> IF n < BackoffThreshold THEN 0 ELSE Least(MaxBackoff, 2 ^ (n - BackoffThreshold))]
ReleaseFailed(l) ==
  /\ verifying' = [verifying EXCEPT ![l] = NoLogin]
  /\ failures' = [failures EXCEPT ![verifying[l].source] = IF verifying[l].counted THEN Append(@, 0) ELSE @]
  /\ allFailures' = Append(allFailures, 0)
  /\ streak' = [streak EXCEPT ![verifying[l].source] = VerificationFails(@.failed + 1)]

(* When the list of a source is dropped, a login of this source that is    *)
(* still being verified will be counted in the list that was dropped.      *)
Dropped(sources) ==
  [l \in Logins |->
     IF verifying[l].source \in sources THEN [verifying[l] EXCEPT !.counted = FALSE] ELSE verifying[l]]
ReleaseSucceeded(l) ==
  /\ verifying' = [Dropped({verifying[l].source}) EXCEPT ![l] = NoLogin]
  /\ failures' = [failures EXCEPT ![verifying[l].source] = << >>]
  /\ streak' = [streak EXCEPT ![verifying[l].source] = NoFailures]
  /\ UNCHANGED allFailures
Release(l) == ReleaseFailed(l) \/ ReleaseSucceeded(l)

(* clear, from the root console. *)
ClearRetry ==
  /\ streak' = [s \in Sources |-> NoFailures]
  /\ failures' = [s \in Sources |-> << >>] /\ allFailures' = << >>
  /\ verifying' = Dropped(Sources)
(* clearGlobal. *)
ClearGlobal == allFailures' = << >> /\ UNCHANGED <<failures, streak, verifying>>

(* Time passes; windows are pruned, and empty lists dropped now and then.  *)
Tick ==
  /\ failures' = [s \in Sources |-> Younger(failures[s])] /\ allFailures' = Younger(allFailures)
  /\ streak' = [s \in Sources |-> [streak[s] EXCEPT !.wait = IF @ = 0 THEN 0 ELSE @ - 1]]
  /\ \/ UNCHANGED verifying
     \/ verifying' = Dropped({s \in Sources : Younger(failures[s]) = << >>})

LimitNext ==
  \/ \E s \in Sources : Enter(s)
  \/ \E l \in Verifying : Release(l)
  \/ Tick \/ ClearRetry \/ ClearGlobal
LimitSpec == LimitInit /\ [][LimitNext]_limitVars

(* Passwords that are wrong are not tried faster than the window allows,     *)
(* though a login is counted only after it was verified: at most the limit,  *)
(* and the logins that were being verified when it was reached.              *)
GuessesBounded ==
  /\ Len(allFailures) < GlobalLimit + MaxConcurrent
  /\ \A s \in Sources : Len(failures[s]) < SourceLimit + MaxConcurrent

=============================================================================
