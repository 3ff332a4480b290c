----------------------------- MODULE LockSystem -----------------------------
(***************************************************************************)
(* What the interface LockSystem promises its callers, without the tree of *)
(* reference counts, the token index and the expiry heap that implement    *)
(* it: a set of granted locks no two of which conflict, of which some are  *)
(* claimed by a Confirm whose release has not been called yet.             *)
(*                                                                         *)
(* Every call first forgets the locks whose deadline has passed by the     *)
(* clock reading it was given, except those that are claimed.              *)
(***************************************************************************)
EXTENDS Integers

CONSTANTS Name, WalkToRoot, Duration, MaxGen, MaxTime, Caller

VARIABLES locks,    \* the granted locks, by token
          issued,   \* the number of tokens issued so far
          claims,   \* per caller: the resources named and the tokens claimed
          clock,    \* wall-clock time
          reply     \* the result of the last call

vars == <<locks, issued, claims, clock, reply>>

Infinite == -1

NoClaim == [named |-> {}, tokens |-> {}]

Claimed == UNION {claims[p].tokens : p \in Caller}

Alive(now) ==
  [t \in {u \in DOMAIN locks : \/ u \in Claimed
                               \/ locks[u].deadline = Infinite
                               \/ locks[u].deadline > now} |-> locks[t]]

Deadline(now, duration) ==
  IF duration = Infinite THEN Infinite ELSE now + duration

CoveredBy(lock, x) ==
  x = lock.root \/ (~lock.zeroDepth /\ lock.root \in WalkToRoot[x])

Conflict(k, l) == CoveredBy(k, l.root) \/ CoveredBy(l, k.root)

Init ==
  /\ locks = << >>
  /\ issued = 0
  /\ claims = [p \in Caller |-> NoClaim]
  /\ clock = 0
  /\ reply = "none"

Tick ==
  /\ clock < MaxTime
  /\ clock' = clock + 1
  /\ UNCHANGED <<locks, issued, claims, reply>>

\* Each call is given live, the locks it has not just forgotten.
Create(live, now, root, zeroDepth, duration) ==
  LET lock == [root |-> root, zeroDepth |-> zeroDepth,
               deadline |-> Deadline(now, duration)]
      free == \A t \in DOMAIN live : ~Conflict(lock, live[t])
  IN  /\ UNCHANGED <<claims, clock>>
      /\ IF free
         THEN /\ issued < MaxGen
              /\ reply' = "ok"
              /\ issued' = issued + 1
              /\ locks' = [t \in DOMAIN live \cup {issued + 1} |->
                            IF t = issued + 1 THEN lock ELSE live[t]]
         ELSE /\ reply' = "locked"
              /\ UNCHANGED issued
              /\ locks' = live

\* What Refresh and Unlock say of a token, before anything else.
Verdict(live, token) ==
  IF token \notin DOMAIN live THEN "no such lock"
  ELSE IF token \in Claimed THEN "locked" ELSE "ok"

Refresh(live, now, token, duration) ==
  /\ UNCHANGED <<issued, claims, clock>>
  /\ reply' = Verdict(live, token)
  /\ locks' = IF Verdict(live, token) = "ok"
              THEN [live EXCEPT ![token].deadline = Deadline(now, duration)]
              ELSE live

Unlock(live, token) ==
  /\ UNCHANGED <<issued, claims, clock>>
  /\ reply' = Verdict(live, token)
  /\ locks' = IF Verdict(live, token) = "ok"
              THEN [t \in DOMAIN live \ {token} |-> live[t]]
              ELSE live

\* A claim succeeds if each resource is covered by an unclaimed lock whose
\* token the caller presented.
Usable(live, x, tokens) ==
  {t \in tokens \cap DOMAIN live : t \notin Claimed /\ CoveredBy(live[t], x)}

Confirm(p, live, x, y, tokens) ==
  /\ UNCHANGED <<issued, clock>>
  /\ claims[p] = NoClaim
  /\ \/ /\ reply' = "ok"
        /\ \E t \in Usable(live, x, tokens), u \in Usable(live, y, tokens) :
             claims' = [claims EXCEPT ![p] =
                          [named |-> {x, y}, tokens |-> {t, u}]]
     \/ /\ reply' = "confirmation failed"
        /\ UNCHANGED claims
        /\ Usable(live, x, tokens) = {} \/ Usable(live, y, tokens) = {}
  /\ locks' = live

Release(p) ==
  /\ UNCHANGED <<issued, clock>>
  /\ claims[p] # NoClaim
  /\ claims' = [claims EXCEPT ![p] = NoClaim]
  /\ reply' = "ok"
  /\ UNCHANGED locks

Call(live, now) ==
  \/ \E token \in 1 .. MaxGen : Unlock(live, token)
  \/ \E token \in 1 .. MaxGen, duration \in Duration \cup {Infinite} :
       Refresh(live, now, token, duration)
  \/ \E root \in Name, zeroDepth \in BOOLEAN,
        duration \in Duration \cup {Infinite} :
       Create(live, now, root, zeroDepth, duration)
  \/ \E p \in Caller, x, y \in Name, tokens \in SUBSET (1 .. MaxGen) :
       Confirm(p, live, x, y, tokens)

Next ==
  \/ Tick
  \/ \E p \in Caller : Release(p)
  \/ \E now \in 0 .. clock : Call(Alive(now), now)

Spec == Init /\ [][Next]_vars

=============================================================================
