-------------------------------- MODULE MemLS --------------------------------
(***************************************************************************)
(* server/webdav/lock.go: memLS, the lock system of the WebDAV server.     *)
(* The locked names and all names above them are nodes with a count of the *)
(* locks at or below them; walkToRoot climbs from a name to "/", which is  *)
(* the set Up[name] here.  byExpiry is a heap of the nodes that can        *)
(* expire, here the set of their names.  Every operation runs under m.mu   *)
(* and begins by removing the expired locks.                               *)
(***************************************************************************)
EXTENDS Integers, Sequences, FiniteSets

CONSTANTS
  Names,      \* canonical names (slashClean)
  Up,         \* name -> itself and the names above it
  NoName,     \* the empty name of Confirm
  Durations,  \* -1 is infiniteTimeout
  MaxClock,   \* bound
  MaxTokens,  \* bound: locks created
  MaxConds    \* bound: conditions of one If list

NoToken == 0

ASSUME MemLSAssumption ==
  /\ IsFiniteSet(Names) /\ NoName \notin Names
  /\ Up \in [Names -> SUBSET Names]
  /\ \A n \in Names : n \in Up[n]
  /\ \A n \in Names : \A m \in Up[n] : Up[m] \subseteq Up[n]
  /\ \A n \in Names : \A m \in Up[n] : n \in Up[m] => m = n
  /\ \A n \in Names : \A a, b \in Up[n] : a \in Up[b] \/ b \in Up[a]
  /\ Durations \subseteq Nat \cup {-1}
  /\ MaxClock \in Nat /\ MaxTokens \in Nat /\ MaxConds \in Nat

VARIABLES
  ls,      \* the memLS: byName, byToken, byExpiry, gen
  claims,  \* the release functions Confirm has returned: names asked, nodes held
  clock    \* time.Now

vars == <<ls, claims, clock>>

Node == [token : Nat, ref : Nat, dur : Nat \cup {-1}, expiry : Nat,
         zero : BOOLEAN, held : BOOLEAN]

TypeOK ==
  /\ DOMAIN ls.byName \subseteq Names /\ ls.byName \in [DOMAIN ls.byName -> Node]
  /\ DOMAIN ls.byToken \subseteq 1 .. ls.gen /\ ls.byToken \in [DOMAIN ls.byToken -> DOMAIN ls.byName]
  /\ ls.byExpiry \subseteq DOMAIN ls.byName
  /\ ls.gen \in Nat
  /\ claims \subseteq [names : SUBSET Names, nodes : SUBSET Names]
  /\ clock \in Nat

Init ==
  /\ ls = [byName |-> << >>, byToken |-> << >>, byExpiry |-> {}, gen |-> 0]
  /\ claims = {}
  /\ clock = 0

-----------------------------------------------------------------------------
(* The helpers: functions from one state of the memLS to the next          *)

Below(n) == {m \in Names : n \in Up[m]}

\* A node that create makes for a name that has none.
NewNode == [token |-> NoToken, ref |-> 0, dur |-> 0, expiry |-> 0, zero |-> FALSE, held |-> FALSE]

Token(s, n) == IF n \in DOMAIN s.byName THEN s.byName[n].token ELSE NoToken

\* remove, for each name of S: one lock less at and above it, and nodes without
\* a lock at or below them go.
Remove(s, S) ==
  LET ref(m) == s.byName[m].ref - Cardinality(Below(m) \cap S) IN
  [byName |-> [m \in {n \in DOMAIN s.byName : ref(n) # 0} |->
                 [s.byName[m] EXCEPT !.ref = ref(m), !.token = IF m \in S THEN NoToken ELSE @]],
   byToken |-> [t \in DOMAIN s.byToken \ {Token(s, n) : n \in S} |-> s.byToken[t]],
   byExpiry |-> s.byExpiry \ S,
   gen |-> s.gen]

\* collectExpiredNodes
Expired(s, now) == {n \in s.byExpiry : s.byName[n].expiry <= now}
Collect(s, now) == IF Expired(s, now) = {} THEN s ELSE Remove(s, Expired(s, now))

\* canCreate
CanCreate(s, root, zero) ==
  \A m \in Up[root] :
    m \in DOMAIN s.byName =>
      IF m = root THEN s.byName[m].token = NoToken /\ zero
                  ELSE s.byName[m].token = NoToken \/ s.byName[m].zero

\* create, and what Create does with the node
Insert(s, now, root, dur, zero) ==
  LET t == s.gen + 1
      node(m) == IF m \in DOMAIN s.byName THEN s.byName[m] ELSE NewNode
      up(m) == [node(m) EXCEPT !.ref = @ + 1]
  IN [byName |-> [m \in DOMAIN s.byName \cup Up[root] |->
                    IF m = root
                      THEN [up(m) EXCEPT !.token = t, !.dur = dur, !.zero = zero,
                                         !.expiry = IF dur >= 0 THEN now + dur ELSE @]
                    ELSE IF m \in Up[root] THEN up(m)
                    ELSE s.byName[m]],
      byToken |-> [u \in DOMAIN s.byToken \cup {t} |-> IF u = t THEN root ELSE s.byToken[u]],
      byExpiry |-> IF dur >= 0 THEN s.byExpiry \cup {root} ELSE s.byExpiry,
      gen |-> t]

\* Bug: a lock that a request holds is confirmed to another.
BugMatches(s, name, t) ==
  /\ t \in DOMAIN s.byToken
  /\ LET n == s.byToken[t] IN n = name \/ (~s.byName[n].zero /\ n \in Up[name])

\* Condition t of an If list matches: its lock is free and covers the name.
Matches(s, name, t) ==
  /\ t \in DOMAIN s.byToken
  /\ LET n == s.byToken[t] IN
       /\ ~s.byName[n].held
       /\ n = name \/ (~s.byName[n].zero /\ n \in Up[name])

\* lookup: the node of the first condition that matches, if one does.
Found(s, name, conds) ==
  {s.byToken[conds[i]] : i \in {j \in DOMAIN conds :
     Matches(s, name, conds[j]) /\ \A k \in 1 .. j - 1 : ~Matches(s, name, conds[k])}}

\* Bug: the held lock may expire.
BugHold(s, N) ==
  [byName |-> [m \in DOMAIN s.byName |->
                 IF m \in N THEN [s.byName[m] EXCEPT !.held = TRUE] ELSE s.byName[m]],
   byToken |-> s.byToken,
   byExpiry |-> s.byExpiry,
   gen |-> s.gen]

\* hold, for each node of N: a held lock does not expire.
Hold(s, N) ==
  [byName |-> [m \in DOMAIN s.byName |->
                 IF m \in N THEN [s.byName[m] EXCEPT !.held = TRUE] ELSE s.byName[m]],
   byToken |-> s.byToken,
   byExpiry |-> s.byExpiry \ N,
   gen |-> s.gen]

\* Bug: an infinite lock is queued too.
BugUnhold(s, N) ==
  [byName |-> [m \in DOMAIN s.byName |->
                 IF m \in N THEN [s.byName[m] EXCEPT !.held = FALSE] ELSE s.byName[m]],
   byToken |-> s.byToken,
   byExpiry |-> s.byExpiry \cup N,
   gen |-> s.gen]

\* unhold
Unhold(s, N) ==
  [byName |-> [m \in DOMAIN s.byName |->
                 IF m \in N THEN [s.byName[m] EXCEPT !.held = FALSE] ELSE s.byName[m]],
   byToken |-> s.byToken,
   byExpiry |-> s.byExpiry \cup {m \in N : s.byName[m].dur >= 0},
   gen |-> s.gen]

\* Bug: a refreshed lock's time is added to what it had left.
BugRenew(s, now, n, dur) ==
  [byName |-> [s.byName EXCEPT ![n].dur = dur,
                               ![n].expiry = IF dur >= 0 THEN @ + dur ELSE @],
   byToken |-> s.byToken,
   byExpiry |-> IF dur >= 0 THEN s.byExpiry \cup {n} ELSE s.byExpiry \ {n},
   gen |-> s.gen]

\* What Refresh does with the node of the token
Renew(s, now, n, dur) ==
  [byName |-> [s.byName EXCEPT ![n].dur = dur, ![n].expiry = IF dur >= 0 THEN now + dur ELSE @],
   byToken |-> s.byToken,
   byExpiry |-> IF dur >= 0 THEN s.byExpiry \cup {n} ELSE s.byExpiry \ {n},
   gen |-> s.gen]

-----------------------------------------------------------------------------
(* The operations.  A caller's now may be older than the clock: it is read *)
(* before m.mu is taken, or, for the unlocks of confirmLocks, long before. *)

Create(now, root, dur, zero) ==
  LET s == Collect(ls, now) IN
  /\ ls' = IF CanCreate(s, root, zero) THEN Insert(s, now, root, dur, zero) ELSE s
  /\ UNCHANGED <<claims, clock>>

\* Bug: a held lock is refreshed too.
BugRefresh(now, t, dur) ==
  LET s == Collect(ls, now) IN
  /\ ls' = IF t \notin DOMAIN s.byToken THEN s ELSE Renew(s, now, s.byToken[t], dur)
  /\ UNCHANGED <<claims, clock>>

Refresh(now, t, dur) ==
  LET s == Collect(ls, now) IN
  /\ ls' = IF t \notin DOMAIN s.byToken \/ s.byName[s.byToken[t]].held THEN s
           ELSE Renew(s, now, s.byToken[t], dur)
  /\ UNCHANGED <<claims, clock>>

Unlock(now, t) ==
  LET s == Collect(ls, now) IN
  /\ ls' = IF t \notin DOMAIN s.byToken \/ s.byName[s.byToken[t]].held THEN s
           ELSE Remove(s, {s.byToken[t]})
  /\ UNCHANGED <<claims, clock>>

\* A caller names one resource or two.
Named(name0, name1) == {name0, name1} \ {NoName}

ConfirmFails(now, name0, name1, conds) ==
  LET s == Collect(ls, now) IN
  /\ \E name \in Named(name0, name1) : Found(s, name, conds) = {}
  /\ ls' = s
  /\ UNCHANGED <<claims, clock>>

ConfirmHolds(now, name0, name1, conds) ==
  LET s == Collect(ls, now)
      N == UNION {Found(s, name, conds) : name \in Named(name0, name1)}
  IN /\ \A name \in Named(name0, name1) : Found(s, name, conds) # {}
     /\ ls' = Hold(s, N)
     /\ claims' = claims \cup {[names |-> Named(name0, name1), nodes |-> N]}
     /\ UNCHANGED clock

Release(c) ==
  /\ c \in claims
  /\ ls' = Unhold(ls, c.nodes)
  /\ claims' = claims \ {c}
  /\ UNCHANGED clock

Tick ==
  /\ clock < MaxClock
  /\ clock' = clock + 1
  /\ UNCHANGED <<ls, claims>>

Given == 1 .. ls.gen

Next ==
  \/ \E now \in 0 .. clock :
       \/ \E root \in Names, dur \in Durations, zero \in BOOLEAN :
            ls.gen < MaxTokens /\ Create(now, root, dur, zero)
       \/ \E t \in Given : Unlock(now, t)
       \/ \E t \in Given, dur \in Durations : Refresh(now, t, dur)
       \/ \E name0 \in Names, name1 \in Names \cup {NoName},
             k \in 1 .. MaxConds : \E conds \in [1 .. k -> Given] :
            \/ ConfirmFails(now, name0, name1, conds)
            \/ ConfirmHolds(now, name0, name1, conds)
  \/ \E c \in claims : Release(c)
  \/ Tick

Spec == Init /\ [][Next]_vars

-----------------------------------------------------------------------------
(* Properties                                                              *)

Locked == {n \in DOMAIN ls.byName : ls.byName[n].token # NoToken}

\* "A node's refCount should be the number of self-or-descendents that are
\* locked" (lock_test.go, consistent), it is positive, and nodes reach the root:
\* create and remove count the same nodes, whatever was removed in between.
RefCountsExact ==
  \A n \in Names :
    /\ n \in DOMAIN ls.byName <=> Below(n) \cap Locked # {}
    /\ n \in DOMAIN ls.byName => ls.byName[n].ref = Cardinality(Below(n) \cap Locked)

\* byToken and the nodes' tokens are inverse to each other.
TokensExact ==
  /\ \A t \in DOMAIN ls.byToken : ls.byName[ls.byToken[t]].token = t
  /\ \A n \in Locked : ls.byName[n].token \in DOMAIN ls.byToken /\ ls.byToken[ls.byName[n].token] = n

\* "byExpiry only contains those nodes whose LockDetails have a finite Duration"
\* (lock.go:128) and that no request holds, and all of them: no finite lock is
\* forgotten when it is held, refreshed or released.
ExpiryExact ==
  ls.byExpiry = {n \in Locked : ls.byName[n].dur >= 0 /\ ~ls.byName[n].held}

\* No two locks conflict: none is at or below one of infinite depth.
NoConflict ==
  \A m, n \in Locked : m # n /\ m \in Up[n] => ls.byName[m].zero

\* canCreate looks at the nodes above a name and at the name's own node only; that
\* is enough to refuse every conflicting lock, and no other: the name's node says
\* whether anything below it is locked.
CreateExact ==
  \A r \in Names, zero \in BOOLEAN :
    CanCreate(ls, r, zero) <=>
      \A n \in Locked : /\ n # r
                        /\ n \in Up[r] => ls.byName[n].zero
                        /\ r \in Up[n] => zero

\* The nodes of a claim are locked and held, nothing else is held, and no node
\* is in two claims.
ClaimsHeld ==
  /\ {n \in DOMAIN ls.byName : ls.byName[n].held} = UNION {c.nodes : c \in claims}
  /\ \A c \in claims :
       /\ c.nodes # {} /\ c.nodes \subseteq Locked
       /\ \A n \in c.nodes : \E name \in c.names : n \in Up[name]
       /\ \A name \in c.names : \E n \in c.nodes : n = name \/ (n \in Up[name] /\ ~ls.byName[n].zero)
       /\ \A d \in claims : c # d => c.nodes \cap d.nodes = {}

\* What the fields of memLS promise each other.
Consistent == RefCountsExact /\ TokensExact /\ ExpiryExact /\ CreateExact /\ ClaimsHeld

\* Confirm "gives exclusive access to all of the named resources" (lock.go:40):
\* two requests that are confirmed at the same time name different resources.
ClaimsExclusive ==
  \A c, d \in claims : c # d => c.names \cap d.names = {}

SameLock(a, b) ==
  a.token = b.token /\ a.dur = b.dur /\ a.expiry = b.expiry /\ a.zero = b.zero /\ a.held = b.held

\* A lock that a request holds stays as it is until the request releases it, even
\* when it is past its expiry or its owner unlocks or refreshes it.
HeldStays ==
  [][\A c \in claims \cap claims' : \A n \in c.nodes :
       n \in DOMAIN ls'.byName /\ SameLock(ls'.byName[n], ls.byName[n])]_vars

-----------------------------------------------------------------------------
(* The refinement                                                          *)

LockOf(t) ==
  LET n == ls.byToken[t]  d == ls.byName[n] IN
  [root |-> n, zero |-> d.zero,
   dur |-> d.dur, expiry |-> IF d.dur >= 0 THEN d.expiry ELSE 0]

Service == INSTANCE LockService WITH
  Tokens <- 1 .. MaxTokens,
  locks  <- [t \in DOMAIN ls.byToken |-> LockOf(t)],
  used   <- 1 .. ls.gen,
  claims <- {[names |-> c.names, tokens |-> {ls.byName[n].token : n \in c.nodes}] : c \in claims},
  clock  <- clock

\* memLS implements the lock table its interface describes.
ImplementsLockService == Service!ServiceSpec
=============================================================================
