----------------------------- MODULE LockService -----------------------------
(***************************************************************************)
(* What the LockSystem interface of server/webdav/lock.go (38-94) promises *)
(* its callers: a table of locks on a tree of names.  A lock covers its    *)
(* root, and everything below it unless it has zero depth.  Locks never    *)
(* conflict; a claim (Confirm) holds locks until it is released, and a     *)
(* held lock is not refreshed, unlocked or expired.  How the table is kept *)
(* is MemLS's business.                                                    *)
(***************************************************************************)
EXTENDS Integers, Sequences

CONSTANTS Names, Up, Durations, Tokens

VARIABLES
  locks,   \* token -> lock
  used,    \* the tokens given out so far
  claims,  \* the confirmed requests: the names they name, the tokens they hold
  clock

svars == <<locks, used, claims, clock>>

Covers(l, name) == l.root = name \/ (~l.zero /\ l.root \in Up[name])

\* A lock of the given root and depth cannot exist beside l.
Conflicts(l, root, zero) == Covers(l, root) \/ (~zero /\ root \in Up[l.root])

Held(t) == \E c \in claims : t \in c.tokens

\* Every operation first drops the locks that have expired at its time.
LiveAt(now) ==
  {t \in DOMAIN locks : Held(t) \/ locks[t].dur < 0 \/ now < locks[t].expiry}

\* A lock of infinite duration has no expiry.
Expiry(now, dur) == IF dur >= 0 THEN now + dur ELSE 0

Only(T) == [t \in T |-> locks[t]]

ServiceInit ==
  /\ locks = << >>
  /\ used = {}
  /\ claims = {}
  /\ clock \in Nat

ServiceCreate(now, root, dur, zero) ==
  /\ IF \E t \in LiveAt(now) : Conflicts(locks[t], root, zero)
       THEN locks' = Only(LiveAt(now)) /\ UNCHANGED used
       ELSE \E t \in Tokens \ used :
              /\ used' = used \cup {t}
              /\ locks' = [u \in LiveAt(now) \cup {t} |->
                             IF u # t THEN locks[u]
                             ELSE [root |-> root, zero |-> zero,
                                   dur |-> dur, expiry |-> Expiry(now, dur)]]
  /\ UNCHANGED <<claims, clock>>

ServiceRefresh(now, t, dur) ==
  /\ IF t \notin LiveAt(now) \/ Held(t)
       THEN locks' = Only(LiveAt(now))
       ELSE locks' = [Only(LiveAt(now)) EXCEPT
                        ![t].dur = dur, ![t].expiry = Expiry(now, dur)]
  /\ UNCHANGED <<used, claims, clock>>

ServiceUnlock(now, t) ==
  /\ locks' = Only(IF Held(t) THEN LiveAt(now) ELSE LiveAt(now) \ {t})
  /\ UNCHANGED <<used, claims, clock>>

\* Either every name is covered by a lock of the request that nobody holds, and
\* these are held from now on, or nothing is.
ServiceConfirm(now, named) ==
  /\ locks' = Only(LiveAt(now))
  /\ \/ UNCHANGED claims
     \/ \E f \in [named -> LiveAt(now)] :
          /\ \A n \in named : ~Held(f[n]) /\ Covers(locks[f[n]], n)
          /\ claims' = claims \cup {[names |-> named, tokens |-> {f[n] : n \in named}]}
  /\ UNCHANGED <<used, clock>>

ServiceRelease(c) ==
  /\ c \in claims
  /\ claims' = claims \ {c}
  /\ UNCHANGED <<locks, used, clock>>

ServiceTick == clock' \in Nat /\ clock' > clock /\ UNCHANGED <<locks, used, claims>>

ServiceNext ==
  \/ \E now \in 0 .. clock :
       \/ \E root \in Names, dur \in Durations, zero \in BOOLEAN :
            ServiceCreate(now, root, dur, zero)
       \/ \E t \in Tokens :
            ServiceUnlock(now, t) \/ \E dur \in Durations : ServiceRefresh(now, t, dur)
       \/ \E m, n \in Names : ServiceConfirm(now, {m, n})
  \/ \E c \in claims : ServiceRelease(c)
  \/ ServiceTick

ServiceSpec == ServiceInit /\ [][ServiceNext]_svars
=============================================================================
