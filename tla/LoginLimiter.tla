---------------------------- MODULE LoginLimiter ----------------------------
(***************************************************************************)
(* auth.LoginLimiter and the two places that ask it: AuthAPI.Login and the *)
(* middleware of the WebDAV authenticator, each with a limiter of its own. *)
(*                                                                         *)
(* A limiter is asked (Allow), the password is verified without any lock,  *)
(* and then the outcome is reported (Fail or Reset): an attempt is in      *)
(* flight in between, next to others of the same address.                  *)
(*                                                                         *)
(* Time is told by the age of an entry, in ticks, counted up to Window: an *)
(* older one is treated alike.                                             *)
(***************************************************************************)
EXTENDS Integers, FiniteSets

CONSTANTS Doors,    \* the limiters: that of Login and that of WebDAV
          IPs,      \* Meta(r).IP
          Tries,    \* the requests that may be in flight at a time
          Limit,    \* 10 in NewLoginLimiter
          Window    \* 5 minutes in NewLoginLimiter

ASSUME LimiterAssumption ==
  /\ IsFiniteSet(Tries) /\ Tries # {}
  /\ {Limit, Window} \subseteq Nat \ {0}

VARIABLES entries,  \* the map of each limiter
          tries,    \* the requests
          recent    \* [k]: the failures of the last k ticks

limiterVars == <<entries, tries, recent>>

\* An absent entry and one whose window is over are the same to the limiter.
NoFailedLogin == [age |-> Window, count |-> 0]

LimiterEntry == {NoFailedLogin} \cup [age : 0 .. Window, count : Nat \ {0}]

NoAttempt == [at |-> "idle"]

AtDoor(step, d, i) == [at |-> step, door |-> d, ip |-> i]

TryState == {NoAttempt} \cup {AtDoor(s, d, i) :
              s \in {"checking", "refused"}, d \in Doors, i \in IPs}

NoFailures == [k \in 1 .. Window |-> 0]

Recent == [1 .. Window -> Nat]

LimiterInit ==
  /\ entries = [d \in Doors |-> [i \in IPs |-> NoFailedLogin]]
  /\ tries = [t \in Tries |-> NoAttempt]
  /\ recent = [d \in Doors |-> [i \in IPs |-> NoFailures]]

-----------------------------------------------------------------------------
(* The limiter.                                                            *)

\* Seeded fault: a window that is over a tick early.
FaultyOver(e) == e.age + 1 >= Window

Over(e) == e.age >= Window

\* Seeded fault: one attempt too many.
FaultyAllow(e) == Over(e) \/ e.count <= Limit

Allow(e) == Over(e) \/ e.count < Limit

Fail(e) == IF Over(e) THEN [age |-> 0, count |-> 1]
                      ELSE [e EXCEPT !.count = @ + 1]

\* Seeded fault: an attempt that is refused starts the window again.
FaultyRefusal(e) == [e EXCEPT !.age = 0]

\* RateLimited answers 429 and records nothing.
Refusal(e) == e

-----------------------------------------------------------------------------
(* The requests.                                                           *)

Attempt(t, d, i) ==
  /\ tries[t] = NoAttempt
  /\ Allow(entries[d][i])
  /\ tries' = [tries EXCEPT ![t] = AtDoor("checking", d, i)]
  /\ UNCHANGED <<entries, recent>>

Refuse(t, d, i) ==
  /\ tries[t] = NoAttempt
  /\ ~Allow(entries[d][i])
  /\ entries' = [entries EXCEPT ![d][i] = Refusal(@)]
  /\ tries' = [tries EXCEPT ![t] = AtDoor("refused", d, i)]
  /\ UNCHANGED recent

OneMore(f) == [k \in 1 .. Window |-> f[k] + 1]

\* Unknown user, disabled user, wrong password, or no Basic credentials at all.
WrongCredentials(t, d, i) ==
  /\ tries[t] = AtDoor("checking", d, i)
  /\ entries' = [entries EXCEPT ![d][i] = Fail(@)]
  /\ recent' = [recent EXCEPT ![d][i] = OneMore(@)]
  /\ tries' = [tries EXCEPT ![t] = NoAttempt]

RightCredentials(t, d, i) ==
  /\ tries[t] = AtDoor("checking", d, i)
  /\ entries' = [entries EXCEPT ![d][i] = NoFailedLogin]
  /\ recent' = [recent EXCEPT ![d][i] = NoFailures]
  /\ tries' = [tries EXCEPT ![t] = NoAttempt]

Refused(t) ==
  /\ tries[t].at = "refused"
  /\ tries' = [tries EXCEPT ![t] = NoAttempt]
  /\ UNCHANGED <<entries, recent>>

Older(e) == [e EXCEPT !.age = IF @ < Window THEN @ + 1 ELSE @]

Shifted(f) == [k \in 1 .. Window |-> IF k = 1 THEN 0 ELSE f[k - 1]]

LimiterTick ==
  /\ entries' = [d \in Doors |-> [i \in IPs |-> Older(entries[d][i])]]
  /\ recent' = [d \in Doors |-> [i \in IPs |-> Shifted(recent[d][i])]]
  /\ UNCHANGED tries

\* The limiters live in memory.
LimiterRestart ==
  /\ entries' = [d \in Doors |-> [i \in IPs |-> NoFailedLogin]]
  /\ tries' = [t \in Tries |-> NoAttempt]
  /\ recent' = [d \in Doors |-> [i \in IPs |-> NoFailures]]

LimiterNext ==
  \/ \E t \in Tries, d \in Doors, i \in IPs :
        \/ Attempt(t, d, i)
        \/ Refuse(t, d, i)
        \/ WrongCredentials(t, d, i)
        \/ RightCredentials(t, d, i)
  \/ \E t \in Tries : Refused(t)
  \/ LimiterTick
  \/ LimiterRestart

\* Time passes.
LimiterSpec == LimiterInit /\ [][LimiterNext]_limiterVars /\ WF_limiterVars(LimiterTick)

-----------------------------------------------------------------------------
(* Properties.                                                             *)

\* Type invariant: an entry that is there has counted a failure.
LimiterTypeOK ==
  /\ entries \in [Doors -> [IPs -> LimiterEntry]]
  /\ tries \in [Tries -> TryState]
  /\ recent \in [Doors -> [IPs -> Recent]]

\* What Allow lets pass: of one window, Limit - 1 attempts fail before the last
\* one, and as many as can be in flight may have been let in by then.
PerWindow == Limit - 1 + Cardinality(Tries)

\* However the calls of Allow and Fail of concurrent requests interleave, no
\* window counts more failures than PerWindow.
FailuresBounded ==
  \A d \in Doors, i \in IPs : entries[d][i].count <= PerWindow

\* Windows start at a first failure and do not slide: wherever a stretch of
\* Window ticks is laid, it meets two windows at the most, and the earlier one
\* without the failure that opened it.
AnyStretchBounded ==
  \A d \in Doors, i \in IPs : recent[d][i][Window] <= 2 * PerWindow - 1

\* Whatever requests are in flight or are made meanwhile, an address that is
\* refused is let in again.
LockoutEnds ==
  \A d \in Doors, i \in IPs : ~Allow(entries[d][i]) ~> Allow(entries[d][i])
=============================================================================
