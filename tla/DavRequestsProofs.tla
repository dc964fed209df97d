-------------------------- MODULE DavRequestsProofs --------------------------
(***************************************************************************)
(* Proofs about MemLS and DavRequests, for every tree of names, every set  *)
(* of durations and any number of requests and clients.                    *)
(*                                                                         *)
(* First the lock system alone: the table stays consistent, locks never    *)
(* conflict, claims are exclusive, and memLS implements LockService.  The  *)
(* lemmas are about the functions from one table s to the next; the        *)
(* theorems apply them to ls.  Then the requests on top of it: tokens name *)
(* one lock, no lock is left behind, and a request works under its own     *)
(* locks only.                                                             *)
(***************************************************************************)
EXTENDS DavRequests, FiniteSetTheorems, TLAPS

-----------------------------------------------------------------------------
(* The lock system                                                         *)

LockedIn(s) == {n \in DOMAIN s.byName : s.byName[n].token # NoToken}
HeldIn(s)   == {n \in DOMAIN s.byName : s.byName[n].held}

TableType(s) ==
  /\ DOMAIN s.byName \subseteq Names /\ s.byName \in [DOMAIN s.byName -> Node]
  /\ DOMAIN s.byToken \subseteq 1 .. s.gen /\ s.byToken \in [DOMAIN s.byToken -> DOMAIN s.byName]
  /\ s.gen \in Nat
  /\ s.byExpiry \subseteq DOMAIN s.byName

RefCounts(s) ==
  \A n \in Names :
    /\ n \in DOMAIN s.byName <=> Below(n) \cap LockedIn(s) # {}
    /\ n \in DOMAIN s.byName => s.byName[n].ref = Cardinality(Below(n) \cap LockedIn(s))

Tokens(s) ==
  /\ \A t \in DOMAIN s.byToken : s.byName[s.byToken[t]].token = t
  /\ \A n \in LockedIn(s) : s.byName[n].token \in DOMAIN s.byToken /\ s.byToken[s.byName[n].token] = n

Expiry(s) == s.byExpiry = {n \in LockedIn(s) : s.byName[n].dur >= 0 /\ ~s.byName[n].held}

Conflictless(s) == \A m, n \in LockedIn(s) : m # n /\ m \in Up[n] => s.byName[m].zero

\* The inductive invariant, of a table.
Table(s) ==
  TableType(s) /\ RefCounts(s) /\ Tokens(s) /\ Expiry(s) /\ Conflictless(s) /\ HeldIn(s) \subseteq LockedIn(s)

\* What operations that only drop locks do: no lock changes, none that is held goes.
Drops(s, r) ==
  /\ r.gen = s.gen
  /\ LockedIn(r) \subseteq LockedIn(s)
  /\ HeldIn(r) = HeldIn(s)
  /\ \A n \in LockedIn(r) : SameLock(r.byName[n], s.byName[n])

-----------------------------------------------------------------------------
\* Sets of names are finite, so that Cardinality is defined on them.
LEMMA Finite ==
  ASSUME NEW A, A \subseteq Names
  PROVE  IsFiniteSet(A) /\ Cardinality(A) \in Nat /\ (Cardinality(A) = 0 <=> A = {})
PROOF
  BY FS_Subset, FS_CardinalityType, FS_EmptySet, MemLSAssumption

\* remove, for locks that nobody holds: the table stays consistent and loses
\* these locks only.
LEMMA RemoveTable ==
  ASSUME NEW s, Table(s), NEW S, S \subseteq LockedIn(s) \ HeldIn(s)
  PROVE  /\ Table(Remove(s, S))
         /\ Drops(s, Remove(s, S))
         /\ LockedIn(Remove(s, S)) = LockedIn(s) \ S
PROOF
  <1> DEFINE r == Remove(s, S)
             L == LockedIn(s)
             ref(m) == s.byName[m].ref - Cardinality(Below(m) \cap S)
             Keep == {m \in DOMAIN s.byName : ref(m) # 0}
  <1>0. TableType(s) /\ RefCounts(s) /\ Tokens(s) /\ Expiry(s) /\ Conflictless(s) /\ HeldIn(s) \subseteq L
    BY DEF Table
  <1>1. /\ s.gen \in Nat /\ DOMAIN s.byName \subseteq Names /\ s.byName \in [DOMAIN s.byName -> Node]
        /\ DOMAIN s.byToken \subseteq 1 .. s.gen /\ s.byToken \in [DOMAIN s.byToken -> DOMAIN s.byName]
    BY <1>0 DEF TableType
  <1>2. /\ r.gen = s.gen
        /\ r.byExpiry = s.byExpiry \ S
        /\ r.byToken = [t \in DOMAIN s.byToken \ {Token(s, n) : n \in S} |-> s.byToken[t]]
        /\ r.byName = [m \in Keep |-> [s.byName[m] EXCEPT !.ref = ref(m),
                                          !.token = IF m \in S THEN NoToken ELSE @]]
    BY DEF Remove
  <1> HIDE DEF r
  <1>3. \A m \in DOMAIN s.byName : ref(m) = Cardinality(Below(m) \cap (L \ S)) /\ ref(m) \in Nat
    <2> TAKE m \in DOMAIN s.byName
    <2>1. m \in Names /\ s.byName[m].ref = Cardinality(Below(m) \cap L)
      BY <1>0, <1>1 DEF RefCounts
    <2>2. Below(m) \cap L \subseteq Names
      BY DEF Below
    <2>3. IsFiniteSet(Below(m) \cap L)
      BY <2>2, Finite
    <2>4. Cardinality((Below(m) \cap L) \ S) = Cardinality(Below(m) \cap L) - Cardinality((Below(m) \cap L) \cap S)
      BY <2>3, FS_Difference
    <2>5. (Below(m) \cap L) \cap S = Below(m) \cap S /\ (Below(m) \cap L) \ S = Below(m) \cap (L \ S)
      OBVIOUS
    <2>6. Below(m) \cap (L \ S) \subseteq Names
      BY DEF Below
    <2> QED BY <2>1, <2>4, <2>5, <2>6, Finite
  <1>4. Keep = {m \in DOMAIN s.byName : Below(m) \cap (L \ S) # {}}
    <2>1. \A m \in DOMAIN s.byName : Below(m) \cap (L \ S) \subseteq Names
      BY DEF Below
    <2> QED BY <1>3, <2>1, Finite
  <1>5. \A m \in Keep : /\ r.byName[m] \in Node
                        /\ r.byName[m].ref = ref(m)
                        /\ r.byName[m].token = IF m \in S THEN NoToken ELSE s.byName[m].token
                        /\ r.byName[m].dur = s.byName[m].dur
                        /\ r.byName[m].expiry = s.byName[m].expiry
                        /\ r.byName[m].zero = s.byName[m].zero
                        /\ r.byName[m].held = s.byName[m].held
    <2> TAKE m \in Keep
    <2>1. s.byName[m] \in Node /\ ref(m) \in Nat
      BY <1>1, <1>3
    <2> HIDE DEF ref
    <2>2. r.byName[m] = [s.byName[m] EXCEPT !.ref = ref(m), !.token = IF m \in S THEN NoToken ELSE @]
      BY <1>2
    <2> DEFINE a == s.byName[m]  k == ref(m)  t == IF m \in S THEN NoToken ELSE a.token
    <2>3. r.byName[m] = [token |-> t, ref |-> k, dur |-> a.dur, expiry |-> a.expiry,
                         zero |-> a.zero, held |-> a.held]
      BY <2>1, <2>2 DEF Node
    <2>4. t \in Nat
      BY <2>1 DEF Node, NoToken
    <2> QED BY <2>1, <2>3, <2>4 DEF Node
  <1>6. DOMAIN r.byName = Keep
    BY <1>2
  <1>7. L \ S \subseteq Keep
    <2>1. \A m \in L \ S : m \in Below(m)
      BY <1>1, MemLSAssumption DEF Below, LockedIn
    <2> QED BY <1>4, <2>1 DEF LockedIn
  <1>8. LockedIn(r) = L \ S
    BY <1>4, <1>5, <1>6, <1>7 DEF LockedIn
  <1>9. HeldIn(r) = HeldIn(s)
    <2>1. HeldIn(s) \subseteq L \ S
      BY <1>0
    <2> QED BY <1>5, <1>6, <1>7, <2>1 DEF HeldIn
  <1>10. \A n \in LockedIn(r) : SameLock(r.byName[n], s.byName[n])
    BY <1>5, <1>7, <1>8 DEF SameLock
  <1>11. \A t \in DOMAIN r.byToken : /\ t \in DOMAIN s.byToken /\ r.byToken[t] = s.byToken[t]
                                     /\ s.byToken[t] \in L \ S
    <2> TAKE t \in DOMAIN r.byToken
    <2>1. t \in DOMAIN s.byToken /\ r.byToken[t] = s.byToken[t] /\ t \notin {Token(s, n) : n \in S}
      BY <1>2
    <2>2. s.byToken[t] \in DOMAIN s.byName /\ s.byName[s.byToken[t]].token = t
      BY <1>0, <2>1 DEF TableType, Tokens
    <2>3. t # NoToken
      BY <1>1, <2>1 DEF NoToken
    <2>4. s.byToken[t] \in L
      BY <2>2, <2>3 DEF LockedIn
    <2>5. s.byToken[t] \notin S
      BY <2>1, <2>2 DEF Token
    <2> QED BY <2>1, <2>4, <2>5
  <1>12. TableType(r)
    <2>1. r.byName \in [DOMAIN r.byName -> Node]
      BY <1>2, <1>5, <1>6
    <2>2. r.byToken \in [DOMAIN r.byToken -> DOMAIN r.byName]
      BY <1>2, <1>6, <1>7, <1>11
    <2>3. DOMAIN r.byToken \subseteq 1 .. r.gen
      BY <1>1, <1>2, <1>11
    <2>4. r.byExpiry \subseteq L \ S
      BY <1>0, <1>2 DEF Expiry
    <2>5. r.byExpiry \subseteq DOMAIN r.byName
      BY <2>4, <1>6, <1>7
    <2> QED BY <1>1, <1>2, <1>6, <2>1, <2>2, <2>3, <2>5 DEF TableType
  <1>13. RefCounts(r)
    <2> SUFFICES ASSUME NEW n \in Names
                 PROVE  /\ n \in DOMAIN r.byName <=> Below(n) \cap LockedIn(r) # {}
                        /\ n \in DOMAIN r.byName => r.byName[n].ref = Cardinality(Below(n) \cap LockedIn(r))
      BY DEF RefCounts
    <2>1. Below(n) \cap (L \ S) # {} => n \in DOMAIN s.byName
      BY <1>0 DEF RefCounts
    <2> QED BY <1>3, <1>4, <1>5, <1>6, <1>8, <2>1
  <1>14. Tokens(r)
    <2>1. ASSUME NEW t \in DOMAIN r.byToken PROVE r.byName[r.byToken[t]].token = t
      <3>1. t \in DOMAIN s.byToken /\ r.byToken[t] = s.byToken[t] /\ s.byToken[t] \in L \ S
        BY <1>11
      <3>2. s.byName[s.byToken[t]].token = t
        BY <1>0, <3>1 DEF Tokens
      <3> QED BY <1>5, <1>7, <3>1, <3>2
    <2>2. ASSUME NEW n \in LockedIn(r)
          PROVE  r.byName[n].token \in DOMAIN r.byToken /\ r.byToken[r.byName[n].token] = n
      <3>1. n \in L \ S /\ r.byName[n].token = s.byName[n].token
        BY <1>5, <1>7, <1>8
      <3>2. s.byName[n].token \in DOMAIN s.byToken /\ s.byToken[s.byName[n].token] = n
        BY <1>0, <3>1 DEF Tokens
      <3>3. s.byName[n].token \notin {Token(s, m) : m \in S}
        <4> SUFFICES ASSUME NEW m \in S, s.byName[n].token = Token(s, m) PROVE FALSE
          OBVIOUS
        <4>1. m \in L /\ Token(s, m) = s.byName[m].token
          BY DEF Token, LockedIn
        <4>2. s.byToken[s.byName[m].token] = m
          BY <1>0, <4>1 DEF Tokens
        <4> QED BY <3>1, <3>2, <4>1, <4>2
      <3>4. DOMAIN r.byToken = DOMAIN s.byToken \ {Token(s, m) : m \in S}
        BY <1>2
      <3>5. r.byName[n].token \in DOMAIN r.byToken
        BY <3>1, <3>2, <3>3, <3>4
      <3>6. r.byToken[r.byName[n].token] = s.byToken[r.byName[n].token]
        BY <1>11, <3>5
      <3> QED BY <3>1, <3>2, <3>5, <3>6
    <2> QED BY <2>1, <2>2 DEF Tokens
  <1>15. Expiry(r)
    BY <1>0, <1>2, <1>5, <1>7, <1>8 DEF Expiry
  <1>16. Conflictless(r)
    BY <1>0, <1>5, <1>7, <1>8 DEF Conflictless
  <1>17. HeldIn(r) \subseteq LockedIn(r)
    BY <1>0, <1>8, <1>9
  <1> QED BY <1>2, <1>8, <1>9, <1>10, <1>12, <1>13, <1>14, <1>15, <1>16, <1>17 DEF Table, Drops, r

\* collectExpiredNodes drops expired locks and keeps the table consistent.
LEMMA CollectTable ==
  ASSUME NEW s, Table(s), NEW now
  PROVE  Table(Collect(s, now)) /\ Drops(s, Collect(s, now))
PROOF
  <1>1. Expired(s, now) \subseteq LockedIn(s) \ HeldIn(s)
    BY DEF Expired, Table, Expiry, HeldIn
  <1>2. CASE Expired(s, now) = {}
    BY <1>2 DEF Collect, Drops, SameLock
  <1>3. CASE Expired(s, now) # {}
    BY <1>1, <1>3, RemoveTable DEF Collect
  <1> QED BY <1>2, <1>3

\* canCreate answers for the whole table although it looks at the nodes at and
\* above the name only.
LEMMA CanCreateTable ==
  ASSUME NEW s, Table(s), NEW r \in Names, NEW zero \in BOOLEAN
  PROVE  CanCreate(s, r, zero) <=>
           \A n \in LockedIn(s) : /\ n # r
                                  /\ n \in Up[r] => s.byName[n].zero
                                  /\ r \in Up[n] => zero
PROOF
  <1>0. TableType(s) /\ RefCounts(s)
    BY DEF Table
  <1>1. DOMAIN s.byName \subseteq Names /\ LockedIn(s) \subseteq DOMAIN s.byName
    BY <1>0 DEF TableType, LockedIn
  <1>2. Up[r] \subseteq Names /\ r \in Up[r]
    BY MemLSAssumption
  <1>3. r \in DOMAIN s.byName <=> \E n \in LockedIn(s) : r \in Up[n]
    BY <1>0, <1>1 DEF RefCounts, Below
  <1>4. ASSUME CanCreate(s, r, zero), NEW n \in LockedIn(s)
        PROVE  n # r /\ (n \in Up[r] => s.byName[n].zero) /\ (r \in Up[n] => zero)
    <2>1. n \in DOMAIN s.byName /\ s.byName[n].token # NoToken
      BY DEF LockedIn
    <2>2. r \in Up[n] => r \in DOMAIN s.byName
      BY <1>3
    <2> QED BY <1>2, <1>4, <2>1, <2>2 DEF CanCreate
  <1>5. ASSUME \A n \in LockedIn(s) : /\ n # r
                                      /\ n \in Up[r] => s.byName[n].zero
                                      /\ r \in Up[n] => zero
        PROVE  CanCreate(s, r, zero)
    <2> SUFFICES ASSUME NEW m \in Up[r], m \in DOMAIN s.byName
                 PROVE  IF m = r THEN s.byName[m].token = NoToken /\ zero
                                 ELSE s.byName[m].token = NoToken \/ s.byName[m].zero
      BY DEF CanCreate
    <2> QED BY <1>3, <1>5 DEF LockedIn
  <1> QED BY <1>4, <1>5

\* What create builds are functions: the domain says how they are written back.
LEMMA InsertShape ==
  ASSUME NEW s, NEW r, NEW zero, NEW now, NEW dur
  PROVE  LET i == Insert(s, now, r, dur, zero) IN
         /\ i.byName = [m \in DOMAIN i.byName |-> i.byName[m]]
         /\ i.byToken = [u \in DOMAIN i.byToken |-> i.byToken[u]]
PROOF
  <1> DEFINE i == Insert(s, now, r, dur, zero)
             node(m) == IF m \in DOMAIN s.byName THEN s.byName[m] ELSE NewNode
             up(m) == [node(m) EXCEPT !.ref = @ + 1]
             name(m) == IF m = r
                          THEN [up(m) EXCEPT !.token = s.gen + 1, !.dur = dur, !.zero = zero,
                                             !.expiry = IF dur >= 0 THEN now + dur ELSE @]
                        ELSE IF m \in Up[r] THEN up(m)
                        ELSE s.byName[m]
  <1>1. i.byName = [m \in DOMAIN s.byName \cup Up[r] |-> name(m)]
    BY DEF Insert
  <1>2. i.byToken = [u \in DOMAIN s.byToken \cup {s.gen + 1} |->
                       IF u = s.gen + 1 THEN r ELSE s.byToken[u]]
    BY DEF Insert
  <1> HIDE DEF i, name
  <1>3. i.byName = [m \in DOMAIN i.byName |-> i.byName[m]]
    BY <1>1, Zenon
  <1>4. i.byToken = [u \in DOMAIN i.byToken |-> i.byToken[u]]
    BY <1>2, Zenon
  <1> QED BY <1>3, <1>4 DEF i

\* create and the rest of Create: one lock more, for a name whose lock conflicts
\* with none.
LEMMA InsertTable ==
  ASSUME NEW s, Table(s), NEW r \in Names, NEW zero \in BOOLEAN, NEW now \in Nat,
         NEW dur \in Nat \cup {-1}, CanCreate(s, r, zero)
  PROVE  LET i == Insert(s, now, r, dur, zero) IN
         /\ Table(i)
         /\ r \notin LockedIn(s)
         /\ LockedIn(i) = LockedIn(s) \cup {r}
         /\ HeldIn(i) = HeldIn(s)
         /\ \A n \in LockedIn(s) : SameLock(i.byName[n], s.byName[n])
PROOF
  <1> DEFINE i == Insert(s, now, r, dur, zero)
             L == LockedIn(s)
             D == DOMAIN s.byName
             node(m) == IF m \in D THEN s.byName[m] ELSE NewNode
             t == s.gen + 1
  <1>0. TableType(s) /\ RefCounts(s) /\ Tokens(s) /\ Expiry(s) /\ Conflictless(s) /\ HeldIn(s) \subseteq L
    BY DEF Table
  <1>1. /\ s.gen \in Nat /\ D \subseteq Names /\ s.byName \in [D -> Node]
        /\ DOMAIN s.byToken \subseteq 1 .. s.gen /\ s.byToken \in [DOMAIN s.byToken -> D]
        /\ s.byExpiry \subseteq D /\ L \subseteq D
    BY <1>0 DEF TableType, LockedIn
  <1>2. Up[r] \subseteq Names /\ r \in Up[r]
    BY MemLSAssumption
  <1>3. /\ r \notin L
        /\ \A n \in L : (n \in Up[r] => s.byName[n].zero) /\ (r \in Up[n] => zero)
    BY CanCreateTable
  <1>4. /\ i.gen = t
        /\ DOMAIN i.byName = D \cup Up[r]
        /\ DOMAIN i.byToken = DOMAIN s.byToken \cup {t}
        /\ i.byToken[t] = r
        /\ \A u \in DOMAIN s.byToken : u # t => i.byToken[u] = s.byToken[u]
        /\ i.byExpiry = IF dur >= 0 THEN s.byExpiry \cup {r} ELSE s.byExpiry
    BY DEF Insert
  <1>5. \A m \in D \cup Up[r] : node(m) \in Node
    BY <1>1 DEF NewNode, Node, NoToken
  <1>6. \A m \in D \cup Up[r] :
          i.byName[m] = IF m = r THEN [token |-> t, ref |-> node(m).ref + 1, dur |-> dur,
                                       expiry |-> IF dur >= 0 THEN now + dur ELSE node(m).expiry,
                                       zero |-> zero, held |-> node(m).held]
                        ELSE IF m \in Up[r] THEN [node(m) EXCEPT !.ref = @ + 1]
                        ELSE node(m)
    <2> TAKE m \in D \cup Up[r]
    <2>1. i.byName[m] = IF m = r
                          THEN [[node(m) EXCEPT !.ref = @ + 1] EXCEPT !.token = t, !.dur = dur, !.zero = zero,
                                         !.expiry = IF dur >= 0 THEN now + dur ELSE @]
                        ELSE IF m \in Up[r] THEN [node(m) EXCEPT !.ref = @ + 1]
                        ELSE s.byName[m]
      BY DEF Insert
    <2>2. node(m) \in Node
      BY <1>5
    <2>3. m \notin Up[r] => node(m) = s.byName[m]
      OBVIOUS
    <2> HIDE DEF node
    <2> QED BY <2>1, <2>2, <2>3 DEF Node
  <1>shape. /\ i.byName = [m \in DOMAIN i.byName |-> i.byName[m]]
            /\ i.byToken = [u \in DOMAIN i.byToken |-> i.byToken[u]]
    BY InsertShape
  <1> HIDE DEF i
  <1>7. \A m \in D \cup Up[r] :
          /\ i.byName[m] \in Node
          /\ i.byName[m].ref = node(m).ref + IF m \in Up[r] THEN 1 ELSE 0
          /\ i.byName[m].token = IF m = r THEN t ELSE node(m).token
          /\ i.byName[m].held = node(m).held
          /\ i.byName[m].dur = IF m = r THEN dur ELSE node(m).dur
          /\ i.byName[m].zero = IF m = r THEN zero ELSE node(m).zero
          /\ m # r => i.byName[m].expiry = node(m).expiry
    <2> TAKE m \in D \cup Up[r]
    <2>1. node(m) \in Node /\ t \in Nat /\ (dur >= 0 => now + dur \in Nat)
      BY <1>1, <1>5
    <2> DEFINE a == node(m)
               e == IF dur >= 0 THEN now + dur ELSE a.expiry
    <2>5. e \in Nat /\ a.ref + 1 \in Nat /\ a.ref + 0 = a.ref
      BY <2>1 DEF Node
    <2>6. i.byName[m] = IF m = r THEN [token |-> t, ref |-> a.ref + 1, dur |-> dur, expiry |-> e,
                                       zero |-> zero, held |-> a.held]
                        ELSE IF m \in Up[r] THEN [a EXCEPT !.ref = a.ref + 1]
                        ELSE a
      BY <1>6
    <2> HIDE DEF node, t, e
    <2>2. CASE m = r
      <3>1. i.byName[m] = [token |-> t, ref |-> a.ref + 1, dur |-> dur, expiry |-> e,
                           zero |-> zero, held |-> a.held]
        BY <2>2, <2>6
      <3> QED BY <1>2, <2>1, <2>2, <2>5, <3>1 DEF Node
    <2>3. CASE m # r /\ m \in Up[r]
      <3>1. i.byName[m] = [a EXCEPT !.ref = a.ref + 1]
        BY <2>3, <2>6
      <3> QED BY <2>1, <2>3, <2>5, <3>1 DEF Node
    <2>4. CASE m \notin Up[r]
      <3>1. i.byName[m] = a
        BY <1>2, <2>4, <2>6
      <3> QED BY <1>2, <2>1, <2>4, <2>5, <3>1
    <2> QED BY <2>2, <2>3, <2>4
  <1>8. \A m \in (D \cup Up[r]) \ D : node(m).token = NoToken /\ node(m).ref = 0 /\ ~node(m).held
    BY DEF NewNode
  <1>9. LockedIn(i) = L \cup {r}
    <2>1. t # NoToken
      BY <1>1 DEF NoToken
    <2> HIDE DEF t
    <2> QED BY <1>1, <1>2, <1>4, <1>7, <1>8, <2>1 DEF LockedIn
  <1>10. HeldIn(i) = HeldIn(s)
    BY <1>1, <1>4, <1>7, <1>8 DEF HeldIn
  <1>11. \A n \in L : SameLock(i.byName[n], s.byName[n])
    BY <1>1, <1>3, <1>7 DEF SameLock
  <1>12. TableType(i)
    <2>1. i.byName \in [D \cup Up[r] -> Node]
      <3>1. i.byName = [m \in D \cup Up[r] |-> i.byName[m]]
        BY <1>4, <1>shape
      <3> QED BY <1>7, <3>1
    <2>2. i.byToken \in [DOMAIN i.byToken -> DOMAIN i.byName]
      <3>1. i.byToken = [u \in DOMAIN i.byToken |-> i.byToken[u]]
        BY <1>shape
      <3>2. \A u \in DOMAIN i.byToken : i.byToken[u] \in DOMAIN i.byName
        BY <1>1, <1>2, <1>4
      <3> QED BY <3>1, <3>2
    <2>3. DOMAIN i.byToken \subseteq 1 .. i.gen /\ i.gen \in Nat
      BY <1>1, <1>4
    <2>4. i.byExpiry \subseteq DOMAIN i.byName
      BY <1>1, <1>2, <1>4
    <2> QED BY <1>1, <1>2, <1>4, <2>1, <2>2, <2>3, <2>4 DEF TableType
  <1>13. RefCounts(i)
    <2> SUFFICES ASSUME NEW n \in Names
                 PROVE  /\ n \in D \cup Up[r] <=> Below(n) \cap (L \cup {r}) # {}
                        /\ n \in D \cup Up[r] => i.byName[n].ref = Cardinality(Below(n) \cap (L \cup {r}))
      BY <1>4, <1>9 DEF RefCounts
    <2>1. r \in Below(n) <=> n \in Up[r]
      BY DEF Below
    <2>2. n \in D <=> Below(n) \cap L # {}
      BY <1>0 DEF RefCounts
    <2>3. Below(n) \cap L \subseteq Names
      BY DEF Below
    <2>4. ASSUME n \in D \cup Up[r] PROVE node(n).ref = Cardinality(Below(n) \cap L) /\ node(n).ref \in Nat
      <3>1. CASE n \in D
        BY <1>0, <2>3, <3>1, Finite DEF RefCounts
      <3>2. CASE n \notin D
        BY <1>8, <2>2, <2>3, <2>4, <3>2, Finite
      <3> QED BY <3>1, <3>2
    <2>5. CASE n \in Up[r]
      <3>1. Below(n) \cap (L \cup {r}) = (Below(n) \cap L) \cup {r} /\ r \notin Below(n) \cap L
        BY <1>3, <2>1, <2>5
      <3>2. Cardinality((Below(n) \cap L) \cup {r}) = Cardinality(Below(n) \cap L) + 1
        BY <2>3, <3>1, Finite, FS_AddElement
      <3> QED BY <1>7, <2>4, <2>5, <3>1, <3>2
    <2>6. CASE n \notin Up[r]
      <3>1. Below(n) \cap (L \cup {r}) = Below(n) \cap L
        BY <2>1, <2>6
      <3>2. n \in D => i.byName[n].ref = node(n).ref
        BY <1>5, <1>7, <2>4, <2>6
      <3> QED BY <2>2, <2>4, <2>6, <3>1, <3>2
    <2> QED BY <2>5, <2>6
  <1>14. Tokens(i)
    <2>1. ASSUME NEW u \in DOMAIN i.byToken PROVE i.byName[i.byToken[u]].token = u
      <3>1. CASE u = t
        BY <1>2, <1>4, <1>7, <3>1
      <3>2. CASE u # t
        <4>1. u \in DOMAIN s.byToken /\ i.byToken[u] = s.byToken[u]
          BY <1>4, <3>2
        <4>2. s.byToken[u] \in D /\ s.byName[s.byToken[u]].token = u /\ u # NoToken
          BY <1>0, <1>1, <4>1 DEF Tokens, NoToken
        <4>3. s.byToken[u] # r
          BY <1>3, <4>2 DEF LockedIn
        <4> QED BY <1>7, <4>1, <4>2, <4>3
      <3> QED BY <3>1, <3>2
    <2>2. ASSUME NEW n \in LockedIn(i)
          PROVE  i.byName[n].token \in DOMAIN i.byToken /\ i.byToken[i.byName[n].token] = n
      <3>1. CASE n = r
        BY <1>2, <1>4, <1>7, <3>1
      <3>2. CASE n # r
        <4>1. n \in L /\ i.byName[n].token = s.byName[n].token
          BY <1>1, <1>7, <1>9, <3>2
        <4>2. s.byName[n].token \in DOMAIN s.byToken /\ s.byToken[s.byName[n].token] = n
          BY <1>0, <4>1 DEF Tokens
        <4>3. s.byName[n].token # t
          BY <1>1, <4>2
        <4> QED BY <1>4, <4>1, <4>2, <4>3
      <3> QED BY <3>1, <3>2
    <2> QED BY <2>1, <2>2 DEF Tokens
  <1>15. Expiry(i)
    <2>1. ~i.byName[r].held
      BY <1>0, <1>2, <1>3, <1>7, <1>8 DEF HeldIn
    <2>2. s.byExpiry = {n \in L : s.byName[n].dur >= 0 /\ ~s.byName[n].held}
      BY <1>0 DEF Expiry
    <2>3. \A n \in L : n # r /\ i.byName[n].dur = s.byName[n].dur /\ i.byName[n].held = s.byName[n].held
      BY <1>3, <1>11 DEF SameLock
    <2>4. i.byName[r].dur = dur
      BY <1>2, <1>7
    <2> QED BY <1>4, <1>9, <2>1, <2>2, <2>3, <2>4 DEF Expiry
  <1>16. Conflictless(i)
    <2> SUFFICES ASSUME NEW m \in L \cup {r}, NEW n \in L \cup {r}, m # n, m \in Up[n]
                 PROVE  i.byName[m].zero
      BY <1>9 DEF Conflictless
    <2>1. CASE m = r
      BY <1>2, <1>3, <1>7, <2>1
    <2>2. CASE m # r
      <3>1. m \in L /\ i.byName[m].zero = s.byName[m].zero
        BY <1>11, <2>2 DEF SameLock
      <3> QED BY <1>0, <1>3, <3>1 DEF Conflictless
    <2> QED BY <2>1, <2>2
  <1>17. HeldIn(i) \subseteq LockedIn(i)
    BY <1>0, <1>9, <1>10
  <1> QED BY <1>3, <1>9, <1>10, <1>11, <1>12, <1>13, <1>14, <1>15, <1>16, <1>17 DEF Table, i

\* An operation that changes the data of locks, and neither tokens nor depths nor
\* counts, keeps the table consistent if the heap follows.
LEMMA SameNodes ==
  ASSUME NEW s, Table(s), NEW r,
         DOMAIN r.byName = DOMAIN s.byName, r.byName \in [DOMAIN r.byName -> Node],
         \A n \in DOMAIN s.byName : /\ r.byName[n].token = s.byName[n].token
                                    /\ r.byName[n].ref = s.byName[n].ref
                                    /\ n \in LockedIn(s) => r.byName[n].zero = s.byName[n].zero,
         r.byToken = s.byToken, r.gen = s.gen,
         Expiry(r), HeldIn(r) \subseteq LockedIn(s)
  PROVE  Table(r) /\ LockedIn(r) = LockedIn(s)
PROOF
  <1>1. LockedIn(r) = LockedIn(s)
    BY DEF LockedIn
  <1>2. TableType(r)
    BY <1>1 DEF Table, TableType, Expiry, LockedIn
  <1>3. RefCounts(r)
    BY <1>1 DEF Table, RefCounts, TableType
  <1>5. Tokens(r)
    <2>1. \A u \in DOMAIN s.byToken : s.byToken[u] \in DOMAIN s.byName
      BY DEF Table, TableType
    <2>2. \A n \in LockedIn(s) : n \in DOMAIN s.byName
      BY DEF LockedIn
    <2> QED BY <1>1, <2>1, <2>2 DEF Table, Tokens
  <1>4. Conflictless(r)
    BY <1>1 DEF Table, Conflictless, LockedIn
  <1> QED BY <1>1, <1>2, <1>3, <1>4, <1>5 DEF Table

\* hold and unhold.
LEMMA HoldTable ==
  ASSUME NEW s, Table(s), NEW N, N \subseteq LockedIn(s)
  PROVE  /\ N \cap HeldIn(s) = {} =>
              /\ Table(Hold(s, N)) /\ LockedIn(Hold(s, N)) = LockedIn(s)
              /\ HeldIn(Hold(s, N)) = HeldIn(s) \cup N
              /\ \A n \in LockedIn(s) \ N : SameLock(Hold(s, N).byName[n], s.byName[n])
         /\ N \subseteq HeldIn(s) =>
              /\ Table(Unhold(s, N)) /\ LockedIn(Unhold(s, N)) = LockedIn(s)
              /\ HeldIn(Unhold(s, N)) = HeldIn(s) \ N
              /\ \A n \in LockedIn(s) \ N : SameLock(Unhold(s, N).byName[n], s.byName[n])
         /\ \A n \in LockedIn(s) : Hold(s, N).byName[n].zero = s.byName[n].zero
         /\ \A n \in LockedIn(s) : Unhold(s, N).byName[n].zero = s.byName[n].zero
PROOF
  <1> DEFINE L == LockedIn(s)
             h == Hold(s, N)
             u == Unhold(s, N)
  <1>0. TableType(s) /\ Expiry(s) /\ HeldIn(s) \subseteq L
    BY DEF Table
  <1>1. L \subseteq DOMAIN s.byName /\ s.byName \in [DOMAIN s.byName -> Node]
    BY <1>0 DEF LockedIn, TableType
  <1> DEFINE set(m, b) == IF m \in N THEN [s.byName[m] EXCEPT !.held = b] ELSE s.byName[m]
  <1>set. ASSUME NEW m \in DOMAIN s.byName, NEW b \in BOOLEAN
          PROVE  /\ set(m, b) \in Node
                 /\ set(m, b).token = s.byName[m].token /\ set(m, b).ref = s.byName[m].ref
                 /\ set(m, b).zero = s.byName[m].zero /\ set(m, b).dur = s.byName[m].dur
                 /\ set(m, b).expiry = s.byName[m].expiry
                 /\ set(m, b).held = IF m \in N THEN b ELSE s.byName[m].held
    <2>1. s.byName[m] \in Node
      BY <1>1
    <2> QED BY <2>1 DEF Node
  <1>2. /\ h.byName = [m \in DOMAIN s.byName |-> set(m, TRUE)]
        /\ h.byToken = s.byToken /\ h.gen = s.gen /\ h.byExpiry = s.byExpiry \ N
    BY DEF Hold
  <1>3. /\ u.byName = [m \in DOMAIN s.byName |-> set(m, FALSE)]
        /\ u.byToken = s.byToken /\ u.gen = s.gen
        /\ u.byExpiry = s.byExpiry \cup {m \in N : s.byName[m].dur >= 0}
    BY DEF Unhold
  <1> HIDE DEF h, u, set
  <1>h. /\ DOMAIN h.byName = DOMAIN s.byName /\ h.byName \in [DOMAIN h.byName -> Node]
        /\ \A n \in DOMAIN s.byName : h.byName[n] = set(n, TRUE)
    BY <1>2, <1>set
  <1>u. /\ DOMAIN u.byName = DOMAIN s.byName /\ u.byName \in [DOMAIN u.byName -> Node]
        /\ \A n \in DOMAIN s.byName : u.byName[n] = set(n, FALSE)
    BY <1>3, <1>set
  <1>hf. \A n \in DOMAIN s.byName :
           /\ h.byName[n].token = s.byName[n].token /\ h.byName[n].ref = s.byName[n].ref
           /\ h.byName[n].zero = s.byName[n].zero /\ h.byName[n].dur = s.byName[n].dur
           /\ h.byName[n].expiry = s.byName[n].expiry
           /\ h.byName[n].held = IF n \in N THEN TRUE ELSE s.byName[n].held
    BY <1>h, <1>set
  <1>uf. \A n \in DOMAIN s.byName :
           /\ u.byName[n].token = s.byName[n].token /\ u.byName[n].ref = s.byName[n].ref
           /\ u.byName[n].zero = s.byName[n].zero /\ u.byName[n].dur = s.byName[n].dur
           /\ u.byName[n].expiry = s.byName[n].expiry
           /\ u.byName[n].held = IF n \in N THEN FALSE ELSE s.byName[n].held
    BY <1>u, <1>set
  <1>4. /\ HeldIn(h) = HeldIn(s) \cup N /\ LockedIn(h) = L
        /\ HeldIn(u) = HeldIn(s) \ N /\ LockedIn(u) = L
    <2>1. HeldIn(h) = HeldIn(s) \cup N /\ LockedIn(h) = L
      BY <1>1, <1>h, <1>hf DEF HeldIn, LockedIn
    <2>2. HeldIn(u) = HeldIn(s) \ N /\ LockedIn(u) = L
      BY <1>1, <1>u, <1>uf DEF HeldIn, LockedIn
    <2> QED BY <2>1, <2>2
  <1>5. Expiry(h)
    BY <1>0, <1>1, <1>2, <1>hf, <1>4 DEF Expiry
  <1>6. ASSUME N \subseteq HeldIn(s) PROVE Expiry(u)
    BY <1>0, <1>1, <1>3, <1>uf, <1>4, <1>6 DEF Expiry, HeldIn
  <1>7. Table(h)
    BY <1>0, <1>2, <1>h, <1>hf, <1>4, <1>5, SameNodes
  <1>8. ASSUME N \subseteq HeldIn(s) PROVE Table(u)
    BY <1>0, <1>3, <1>u, <1>uf, <1>4, <1>6, <1>8, SameNodes
  <1> QED BY <1>1, <1>hf, <1>uf, <1>4, <1>7, <1>8 DEF SameLock, h, u

\* Refresh, for a lock that nobody holds.
LEMMA RenewTable ==
  ASSUME NEW s, Table(s), NEW n \in LockedIn(s) \ HeldIn(s), NEW now \in Nat,
         NEW dur \in Nat \cup {-1}
  PROVE  LET r == Renew(s, now, n, dur) IN
         /\ Table(r)
         /\ LockedIn(r) = LockedIn(s)
         /\ HeldIn(r) = HeldIn(s)
         /\ \A m \in LockedIn(s) \ {n} : SameLock(r.byName[m], s.byName[m])
PROOF
  <1> DEFINE r == Renew(s, now, n, dur)
             L == LockedIn(s)
             e == IF dur >= 0 THEN now + dur ELSE s.byName[n].expiry
  <1>0. TableType(s) /\ Expiry(s) /\ HeldIn(s) \subseteq L
    BY DEF Table
  <1>1. L \subseteq DOMAIN s.byName /\ s.byName \in [DOMAIN s.byName -> Node] /\ n \in DOMAIN s.byName
    BY <1>0 DEF LockedIn, TableType
  <1>2. e \in Nat
    BY <1>1 DEF Node
  <1> DEFINE a == [s.byName[n] EXCEPT !.dur = dur, !.expiry = e]
  <1>3. r.byName = [s.byName EXCEPT ![n] = a]
    BY <1>1 DEF Renew, Node
  <1> HIDE DEF e
  <1>9. /\ a \in Node /\ a.token = s.byName[n].token /\ a.ref = s.byName[n].ref
        /\ a.zero = s.byName[n].zero /\ a.held = s.byName[n].held /\ a.dur = dur
    BY <1>1, <1>2 DEF Node
  <1> HIDE DEF a
  <1>4. /\ DOMAIN r.byName = DOMAIN s.byName /\ r.byName \in [DOMAIN r.byName -> Node]
        /\ \A m \in DOMAIN s.byName :
             /\ r.byName[m].token = s.byName[m].token /\ r.byName[m].ref = s.byName[m].ref
             /\ r.byName[m].zero = s.byName[m].zero /\ r.byName[m].held = s.byName[m].held
             /\ m # n => r.byName[m].dur = s.byName[m].dur /\ r.byName[m].expiry = s.byName[m].expiry
             /\ m = n => r.byName[m].dur = dur
    BY <1>1, <1>3, <1>9
  <1>5. /\ r.byToken = s.byToken /\ r.gen = s.gen
        /\ r.byExpiry = IF dur >= 0 THEN s.byExpiry \cup {n} ELSE s.byExpiry \ {n}
    BY DEF Renew
  <1> HIDE DEF r
  <1>6. HeldIn(r) = HeldIn(s) /\ LockedIn(r) = L
    BY <1>4 DEF HeldIn, LockedIn
  <1>7. Expiry(r)
    <2>1. ~s.byName[n].held
      BY <1>1 DEF HeldIn
    <2>2. \A m \in L : m # n => (r.byName[m].dur = s.byName[m].dur /\ r.byName[m].held = s.byName[m].held)
      BY <1>1, <1>4
    <2>3. r.byName[n].dur = dur /\ ~r.byName[n].held
      BY <1>1, <1>4, <2>1
    <2> QED BY <1>0, <1>5, <1>6, <2>1, <2>2, <2>3 DEF Expiry
  <1>8. Table(r)
    BY <1>0, <1>4, <1>5, <1>6, <1>7, SameNodes
  <1> QED BY <1>1, <1>4, <1>6, <1>8 DEF SameLock, r

-----------------------------------------------------------------------------
(* Claims.  Quiet(s, r): what a request holds is the same in both tables.   *)

Quiet(s, r) ==
  /\ HeldIn(r) = HeldIn(s)
  /\ \A n \in HeldIn(s) : n \in LockedIn(r) /\ SameLock(r.byName[n], s.byName[n])

CoversName(s, n, name) == n = name \/ (n \in Up[name] /\ ~s.byName[n].zero)

ClaimsIn(s, C) ==
  /\ HeldIn(s) = UNION {c.nodes : c \in C}
  /\ \A c \in C :
       /\ c.nodes # {} /\ c.nodes \subseteq LockedIn(s)
       /\ \A n \in c.nodes : \E name \in c.names : n \in Up[name]
       /\ \A name \in c.names : \E n \in c.nodes : CoversName(s, n, name)
       /\ \A d \in C : c # d => c.nodes \cap d.nodes = {}

\* Claims survive whatever leaves the held locks alone.
LEMMA QuietClaims ==
  ASSUME NEW s, NEW r, NEW C, ClaimsIn(s, C), Quiet(s, r)
  PROVE  ClaimsIn(r, C)
PROOF
  <1>1. \A c \in C : c.nodes \subseteq HeldIn(s)
    BY DEF ClaimsIn
  <1>2. \A c \in C : \A n \in c.nodes : n \in LockedIn(r) /\ r.byName[n].zero = s.byName[n].zero
    BY <1>1 DEF Quiet, SameLock
  <1>3. \A c \in C : \A name \in c.names : \E n \in c.nodes : CoversName(r, n, name)
    BY <1>2 DEF ClaimsIn, CoversName
  <1> QED BY <1>2, <1>3 DEF ClaimsIn, Quiet

\* Operations that only drop locks are quiet, and quiet operations compose.
LEMMA DropsQuiet ==
  ASSUME NEW s, NEW r, Table(r), Drops(s, r)
  PROVE  Quiet(s, r)
PROOF
  BY DEF Quiet, Drops, Table

\* One quiet operation after another is quiet.
LEMMA QuietTwice ==
  ASSUME NEW s, NEW q, NEW r, Quiet(s, q), Quiet(q, r)
  PROVE  Quiet(s, r)
PROOF
  BY DEF Quiet, SameLock

\* lookup returns locks that nobody holds and that cover the name.
LEMMA FoundFree ==
  ASSUME NEW s, Table(s), NEW name \in Names, NEW conds, NEW n \in Found(s, name, conds)
  PROVE  n \in LockedIn(s) \ HeldIn(s) /\ n \in Up[name] /\ CoversName(s, n, name)
PROOF
  <1>1. PICK i \in DOMAIN conds : n = s.byToken[conds[i]] /\ Matches(s, name, conds[i])
    BY DEF Found
  <1>2. conds[i] \in DOMAIN s.byToken /\ ~s.byName[n].held /\ (n = name \/ (~s.byName[n].zero /\ n \in Up[name]))
    BY <1>1 DEF Matches
  <1>3. n \in DOMAIN s.byName /\ s.byName[n].token = conds[i]
    BY <1>1, <1>2 DEF Table, TableType, Tokens
  <1>4. conds[i] # NoToken
    BY <1>2 DEF Table, TableType, NoToken
  <1> QED BY <1>2, <1>3, <1>4, MemLSAssumption DEF LockedIn, HeldIn, CoversName

-----------------------------------------------------------------------------
(* The invariant                                                           *)

IInv ==
  /\ Table(ls)
  /\ ClaimsIn(ls, claims)
  /\ claims \subseteq [names : SUBSET Names, nodes : SUBSET Names]
  /\ clock \in Nat

\* What a step leaves of the locks that a request holds before and after it.
Steady ==
  \A c \in claims \cap claims' : \A n \in c.nodes :
     n \in DOMAIN ls'.byName /\ SameLock(ls'.byName[n], ls.byName[n])

\* A new lock system, whatever token it counts from, is a consistent table.
LEMMA FreshTable ==
  ASSUME NEW s, s.byName = << >>, s.byToken = << >>, s.byExpiry = {}, s.gen \in Nat
  PROVE  Table(s) /\ ClaimsIn(s, {})
PROOF
  <1>2. LockedIn(s) = {} /\ HeldIn(s) = {}
    BY DEF LockedIn, HeldIn
  <1>3. TableType(s)
    <2>1. DOMAIN s.byName = {} /\ DOMAIN s.byToken = {}
      OBVIOUS
    <2>2. s.byName \in [{} -> Node] /\ s.byToken \in [{} -> {}]
      OBVIOUS
    <2> QED BY <2>1, <2>2 DEF TableType
  <1>4. RefCounts(s) /\ Tokens(s) /\ Expiry(s) /\ Conflictless(s)
    BY <1>2 DEF RefCounts, Tokens, Expiry, Conflictless
  <1>5. ClaimsIn(s, {})
    BY <1>2 DEF ClaimsIn
  <1> QED BY <1>2, <1>3, <1>4, <1>5 DEF Table

\* The lock system the program starts with is one.
LEMMA InitTable == Init => IInv
PROOF
  <1> SUFFICES ASSUME Init PROVE IInv
    OBVIOUS
  <1>1. /\ ls.byName = << >> /\ ls.byToken = << >> /\ ls.byExpiry = {} /\ ls.gen = 0
        /\ claims = {} /\ clock = 0
    BY DEF Init
  <1> QED BY <1>1, FreshTable DEF IInv

\* The invariant of the next state, from the next table.
LEMMA NextIInv ==
  ASSUME Table(ls'), ClaimsIn(ls', claims'), clock' \in Nat,
         claims' \subseteq [names : SUBSET Names, nodes : SUBSET Names]
  PROVE  IInv'
PROOF
  BY DEF IInv, Table, ClaimsIn, TableType, RefCounts, Tokens, Expiry, Conflictless, LockedIn, HeldIn, CoversName

\* A step that keeps the table and is quiet keeps the invariant.
LEMMA QuietStep ==
  ASSUME IInv, Table(ls'), Quiet(ls, ls'), UNCHANGED <<claims, clock>>
  PROVE  IInv' /\ Steady
PROOF
  <1>1. ClaimsIn(ls', claims')
    BY QuietClaims DEF IInv
  <1>2. \A c \in claims : c.nodes \subseteq HeldIn(ls)
    BY DEF IInv, ClaimsIn
  <1> QED BY <1>1, <1>2 DEF IInv, Steady, Quiet, LockedIn, Table, TableType, RefCounts, Tokens,
                          Expiry, Conflictless, HeldIn, ClaimsIn

\* Removing the expired locks, which every operation begins with, is such a step.
LEMMA CollectQuiet ==
  ASSUME IInv, NEW now
  PROVE  Table(Collect(ls, now)) /\ Quiet(ls, Collect(ls, now))
PROOF
  BY CollectTable, DropsQuiet DEF IInv

\* Create: after canCreate the new lock is no request's.
LEMMA CreateStep ==
  ASSUME IInv, NEW now \in 0 .. clock, NEW root \in Names, NEW dur \in Nat \cup {-1},
         NEW zero \in BOOLEAN, Create(now, root, dur, zero)
  PROVE  IInv' /\ Steady
PROOF
  <1> DEFINE s == Collect(ls, now)
             i == Insert(s, now, root, dur, zero)
  <1>1. Table(s) /\ Quiet(ls, s)
    BY CollectQuiet
  <1>2. now \in Nat
    BY DEF IInv
  <1>3. UNCHANGED <<claims, clock>> /\ ls' = IF CanCreate(s, root, zero) THEN i ELSE s
    BY DEF Create
  <1> HIDE DEF s
  <1>4. CASE CanCreate(s, root, zero)
    <2>1. Table(i) /\ HeldIn(i) = HeldIn(s) /\ LockedIn(i) = LockedIn(s) \cup {root}
          /\ \A n \in LockedIn(s) : SameLock(i.byName[n], s.byName[n])
      BY <1>1, <1>2, <1>4, InsertTable
    <2>2. Quiet(s, i)
      BY <1>1, <2>1 DEF Quiet, Table
    <2> QED BY <1>1, <1>3, <1>4, <2>1, <2>2, QuietTwice, QuietStep
  <1>5. CASE ~CanCreate(s, root, zero)
    BY <1>1, <1>3, <1>5, QuietStep
  <1> QED BY <1>4, <1>5

\* A token that the table knows is the token of a locked node.
LEMMA TokenLocked ==
  ASSUME NEW s, Table(s), NEW t \in DOMAIN s.byToken
  PROVE  s.byToken[t] \in LockedIn(s)
PROOF
  BY DEF Table, TableType, Tokens, LockedIn, NoToken

\* Refresh: a lock that somebody holds is refused.
LEMMA RefreshStep ==
  ASSUME IInv, NEW now \in 0 .. clock, NEW t, NEW dur \in Durations, Refresh(now, t, dur)
  PROVE  IInv' /\ Steady
PROOF
  <1> DEFINE s == Collect(ls, now)
             n == s.byToken[t]
  <1>1. Table(s) /\ Quiet(ls, s)
    BY CollectQuiet
  <1>2. now \in Nat /\ dur \in Nat \cup {-1}
    BY MemLSAssumption DEF IInv
  <1>3. /\ UNCHANGED <<claims, clock>>
        /\ ls' = IF t \notin DOMAIN s.byToken \/ s.byName[n].held THEN s ELSE Renew(s, now, n, dur)
    BY DEF Refresh
  <1> HIDE DEF s
  <1>4. CASE t \notin DOMAIN s.byToken \/ s.byName[n].held
    BY <1>1, <1>3, <1>4, QuietStep
  <1>5. CASE ~(t \notin DOMAIN s.byToken \/ s.byName[n].held)
    <2> DEFINE r == Renew(s, now, n, dur)
    <2>1. n \in LockedIn(s) \ HeldIn(s)
      BY <1>1, <1>5, TokenLocked DEF HeldIn
    <2>2. /\ Table(r) /\ LockedIn(r) = LockedIn(s) /\ HeldIn(r) = HeldIn(s)
          /\ \A m \in LockedIn(s) \ {n} : SameLock(r.byName[m], s.byName[m])
      BY <1>1, <1>2, <2>1, RenewTable
    <2>3. Quiet(s, r)
      BY <1>1, <2>1, <2>2 DEF Quiet, Table
    <2> QED BY <1>1, <1>3, <1>5, <2>2, <2>3, QuietTwice, QuietStep
  <1> QED BY <1>4, <1>5

\* Unlock: a lock that somebody holds is refused.
LEMMA UnlockStep ==
  ASSUME IInv, NEW now \in 0 .. clock, NEW t, Unlock(now, t)
  PROVE  IInv' /\ Steady
PROOF
  <1> DEFINE s == Collect(ls, now)
             n == s.byToken[t]
  <1>1. Table(s) /\ Quiet(ls, s)
    BY CollectQuiet
  <1>3. /\ UNCHANGED <<claims, clock>>
        /\ ls' = IF t \notin DOMAIN s.byToken \/ s.byName[n].held THEN s ELSE Remove(s, {n})
    BY DEF Unlock
  <1> HIDE DEF s
  <1>4. CASE t \notin DOMAIN s.byToken \/ s.byName[n].held
    BY <1>1, <1>3, <1>4, QuietStep
  <1>5. CASE ~(t \notin DOMAIN s.byToken \/ s.byName[n].held)
    <2>1. {n} \subseteq LockedIn(s) \ HeldIn(s)
      BY <1>1, <1>5, TokenLocked DEF HeldIn
    <2>2. Table(Remove(s, {n})) /\ Drops(s, Remove(s, {n}))
      BY <1>1, <2>1, RemoveTable
    <2> QED BY <1>1, <1>3, <1>5, <2>2, DropsQuiet, QuietTwice, QuietStep
  <1> QED BY <1>4, <1>5

\* Confirm: the new claim's locks were free, so that they are in no other claim.
LEMMA ConfirmHoldsStep ==
  ASSUME IInv, NEW now \in 0 .. clock,
         NEW name0 \in Names \cup {NoName}, NEW name1 \in Names \cup {NoName},
         Named(name0, name1) # {}, NEW conds, ConfirmHolds(now, name0, name1, conds)
  PROVE  IInv' /\ Steady
PROOF
  <1> DEFINE s == Collect(ls, now)
             Q == Named(name0, name1)
             N == UNION {Found(s, name, conds) : name \in Q}
             r == Hold(s, N)
             new == [names |-> Q, nodes |-> N]
  <1>1. Table(s) /\ Quiet(ls, s)
    BY CollectQuiet
  <1>2. /\ \A name \in Q : Found(s, name, conds) # {}
        /\ ls' = r /\ claims' = claims \cup {new} /\ clock' = clock
    BY DEF ConfirmHolds
  <1>3. Q \subseteq Names /\ Q # {}
    BY MemLSAssumption DEF Named
  <1>4. ClaimsIn(s, claims)
    BY <1>1, QuietClaims DEF IInv
  <1> HIDE DEF s
  <1>5. N \subseteq LockedIn(s) \ HeldIn(s) /\ N # {}
    BY <1>1, <1>2, <1>3, FoundFree
  <1>6. /\ \A n \in N : \E name \in Q : n \in Up[name]
        /\ \A name \in Q : \E n \in N : CoversName(s, n, name)
    BY <1>1, <1>2, <1>3, FoundFree
  <1> HIDE DEF N, Q
  <1>7. /\ Table(r) /\ LockedIn(r) = LockedIn(s) /\ HeldIn(r) = HeldIn(s) \cup N
        /\ \A n \in LockedIn(s) \ N : SameLock(r.byName[n], s.byName[n])
        /\ \A n \in LockedIn(s) : r.byName[n].zero = s.byName[n].zero
    BY <1>1, <1>5, HoldTable
  <1> HIDE DEF r
  <1>8. \A c \in claims : c.nodes \subseteq HeldIn(s) /\ c.nodes \subseteq LockedIn(s)
    BY <1>4 DEF ClaimsIn
  <1>9. \A c \in claims : \A name \in c.names : \E n \in c.nodes : CoversName(r, n, name)
    BY <1>4, <1>7, <1>8 DEF ClaimsIn, CoversName
  <1>10. \A name \in Q : \E n \in N : CoversName(r, n, name)
    BY <1>5, <1>6, <1>7 DEF CoversName
  <1>11. ClaimsIn(r, claims \cup {new})
    <2>1. HeldIn(r) = UNION {c.nodes : c \in claims \cup {new}}
      <3>1. new.nodes = N /\ UNION {c.nodes : c \in claims} = HeldIn(s)
        BY <1>4 DEF ClaimsIn
      <3> HIDE DEF new
      <3> QED BY <1>7, <3>1
    <2>2. \A c \in claims : c.nodes \cap new.nodes = {}
      BY <1>5, <1>8
    <2> QED BY <1>4, <1>5, <1>6, <1>7, <1>9, <1>10, <2>1, <2>2 DEF ClaimsIn
  <1>12. N \subseteq Names
    BY <1>1, <1>5 DEF Table, TableType, LockedIn
  <1>13. new \in [names : SUBSET Names, nodes : SUBSET Names]
    BY <1>3, <1>12
  <1>14. IInv'
    <2>1. Table(ls') /\ ClaimsIn(ls', claims')
      BY <1>2, <1>7, <1>11
    <2>2. claims' \subseteq [names : SUBSET Names, nodes : SUBSET Names] /\ clock' \in Nat
      BY <1>2, <1>13 DEF IInv
    <2> QED BY <2>1, <2>2, NextIInv
  <1>15. Steady
    <2> SUFFICES ASSUME NEW c \in claims, NEW n \in c.nodes
                 PROVE  n \in DOMAIN r.byName /\ SameLock(r.byName[n], ls.byName[n])
      BY <1>2 DEF Steady
    <2>1. n \in LockedIn(s) \ N /\ n \in HeldIn(s)
      BY <1>5, <1>8
    <2>2. n \in LockedIn(r) /\ SameLock(r.byName[n], s.byName[n]) /\ SameLock(s.byName[n], ls.byName[n])
      BY <1>1, <1>7, <2>1 DEF Quiet
    <2> QED BY <2>2 DEF SameLock, LockedIn
  <1> QED BY <1>14, <1>15

\* Release: the other claims' locks stay held.
LEMMA ReleaseStep ==
  ASSUME IInv, NEW c \in claims, Release(c)
  PROVE  IInv' /\ Steady
PROOF
  <1> DEFINE r == Unhold(ls, c.nodes)
             N == c.nodes
  <1>1. ls' = r /\ claims' = claims \ {c} /\ clock' = clock
    BY DEF Release
  <1>2. Table(ls) /\ ClaimsIn(ls, claims)
    BY DEF IInv
  <1>3. N \subseteq LockedIn(ls) /\ N \subseteq HeldIn(ls)
    BY <1>2 DEF ClaimsIn
  <1>4. /\ Table(r) /\ LockedIn(r) = LockedIn(ls) /\ HeldIn(r) = HeldIn(ls) \ N
        /\ \A n \in LockedIn(ls) \ N : SameLock(r.byName[n], ls.byName[n])
        /\ \A n \in LockedIn(ls) : r.byName[n].zero = ls.byName[n].zero
    BY <1>2, <1>3, HoldTable
  <1> HIDE DEF r
  <1>5. \A d \in claims \ {c} : d.nodes \subseteq LockedIn(ls) \ N
    BY <1>2 DEF ClaimsIn
  <1>6. ClaimsIn(r, claims \ {c})
    <2>1. HeldIn(r) = UNION {d.nodes : d \in claims \ {c}}
      BY <1>2, <1>4, <1>5 DEF ClaimsIn
    <2>2. \A d \in claims \ {c} : \A name \in d.names : \E n \in d.nodes : CoversName(r, n, name)
      BY <1>2, <1>4, <1>5 DEF ClaimsIn, CoversName
    <2> QED BY <1>2, <1>4, <2>1, <2>2 DEF ClaimsIn
  <1>7. IInv'
    <2>1. Table(ls') /\ ClaimsIn(ls', claims')
      BY <1>1, <1>4, <1>6
    <2>2. claims' \subseteq [names : SUBSET Names, nodes : SUBSET Names] /\ clock' \in Nat
      BY <1>1 DEF IInv
    <2> QED BY <2>1, <2>2, NextIInv
  <1>8. Steady
    BY <1>1, <1>4, <1>5 DEF Steady, LockedIn
  <1> QED BY <1>7, <1>8

-----------------------------------------------------------------------------
(* The theorems                                                            *)

\* Every step keeps the invariant and leaves held locks as they are.
LEMMA StepIInv == IInv /\ [Next]_vars => IInv' /\ (Next => Steady)
PROOF
  <1> SUFFICES ASSUME IInv, [Next]_vars PROVE IInv' /\ (Next => Steady)
    OBVIOUS
  <1>1. CASE Next
    <2>1. CASE \E now \in 0 .. clock : \E root \in Names, dur \in Durations, zero \in BOOLEAN :
                  Create(now, root, dur, zero)
      BY <2>1, CreateStep, MemLSAssumption
    <2>2. CASE \E now \in 0 .. clock : \E t \in Given : Unlock(now, t)
      BY <2>2, UnlockStep
    <2>3. CASE \E now \in 0 .. clock : \E t \in Given, dur \in Durations : Refresh(now, t, dur)
      BY <2>3, RefreshStep
    <2>4. CASE \E now \in 0 .. clock : \E name0 \in Names, name1 \in Names \cup {NoName},
                  k \in 1 .. MaxConds : \E conds \in [1 .. k -> Given] :
                    ConfirmFails(now, name0, name1, conds)
      <3>1. PICK now : ls' = Collect(ls, now) /\ UNCHANGED <<claims, clock>>
        BY <2>4 DEF ConfirmFails
      <3> QED BY <3>1, CollectQuiet, QuietStep
    <2>5. CASE \E now \in 0 .. clock : \E name0 \in Names, name1 \in Names \cup {NoName},
                  k \in 1 .. MaxConds : \E conds \in [1 .. k -> Given] :
                    ConfirmHolds(now, name0, name1, conds)
      <3>1. \A name0 \in Names : \A name1 : Named(name0, name1) # {}
        BY MemLSAssumption DEF Named
      <3> QED BY <2>5, <3>1, ConfirmHoldsStep
    <2>6. CASE \E c \in claims : Release(c)
      BY <2>6, ReleaseStep
    <2>7. CASE Tick
      <3>1. ls' = ls /\ claims' = claims /\ clock' \in Nat
        BY <2>7 DEF Tick, IInv
      <3>2. IInv'
        BY <3>1, NextIInv DEF IInv
      <3>3. Steady
        BY <3>1 DEF Steady, SameLock, IInv, ClaimsIn, LockedIn
      <3> QED BY <3>2, <3>3
    <2> QED BY <1>1, <2>1, <2>2, <2>3, <2>4, <2>5, <2>6, <2>7 DEF Next
  <1>2. CASE UNCHANGED vars
    <2>1. ls' = ls /\ claims' = claims /\ clock' = clock
      BY <1>2 DEF vars
    <2>2. IInv'
      BY <2>1, NextIInv DEF IInv
    <2>3. Steady
      BY <2>1 DEF Steady, SameLock, IInv, ClaimsIn, LockedIn
    <2> QED BY <2>2, <2>3
  <1> QED BY <1>1, <1>2

\* The invariant holds of every reachable state of the lock system.
THEOREM Invariant == Spec => []IInv
PROOF
  <1>1. IInv /\ [Next]_vars => IInv'
    BY StepIInv
  <1> QED BY InitTable, <1>1, PTL DEF Spec

\* The maps and the heap of memLS hold nodes and tokens of the right kind.
THEOREM TypeCorrect == Spec => []TypeOK
PROOF
  <1>1. IInv => TypeOK
    BY DEF IInv, Table, TableType, TypeOK
  <1> QED BY Invariant, <1>1, PTL

\* A node's count is the number of locks at or below it, and nodes without any do
\* not exist: create and remove agree on every tree of names.
THEOREM RefCountsCorrect == Spec => []RefCountsExact
PROOF
  <1>1. IInv => RefCountsExact
    BY DEF IInv, Table, RefCounts, RefCountsExact, LockedIn, Locked
  <1> QED BY Invariant, <1>1, PTL

\* byToken and byName agree on which lock has which token.
THEOREM TokensCorrect == Spec => []TokensExact
PROOF
  <1>1. IInv => TokensExact
    BY DEF IInv, Table, Tokens, TokensExact, LockedIn, Locked
  <1> QED BY Invariant, <1>1, PTL

\* The heap holds the finite locks that no request holds: none is dropped while it
\* is held, and none that was held is forgotten.
THEOREM ExpiryCorrect == Spec => []ExpiryExact
PROOF
  <1>1. IInv => ExpiryExact
    BY DEF IInv, Table, Expiry, ExpiryExact, LockedIn, Locked
  <1> QED BY Invariant, <1>1, PTL

\* No two locks of the table conflict.
THEOREM NeverConflict == Spec => []NoConflict
PROOF
  <1>1. IInv => NoConflict
    BY DEF IInv, Table, Conflictless, NoConflict, LockedIn, Locked
  <1> QED BY Invariant, <1>1, PTL

\* canCreate, which looks at and above a name only, refuses exactly the locks that
\* conflict with one of the table.
THEOREM CreateCorrect == Spec => []CreateExact
PROOF
  <1>1. IInv => CreateExact
    BY CanCreateTable DEF IInv, CreateExact, LockedIn, Locked
  <1> QED BY Invariant, <1>1, PTL

\* Claims and held nodes are the same thing, and claims are disjoint.
THEOREM ClaimsCorrect == Spec => []ClaimsHeld
PROOF
  <1>1. IInv => ClaimsHeld
    BY DEF IInv, ClaimsIn, CoversName, ClaimsHeld, LockedIn, HeldIn, Locked
  <1> QED BY Invariant, <1>1, PTL

\* The fields of memLS agree: counts, tokens, heap, canCreate's shortcut and claims.
THEOREM TableIsConsistent == Spec => []Consistent
PROOF
  BY RefCountsCorrect, TokensCorrect, ExpiryCorrect, CreateCorrect, ClaimsCorrect, PTL
     DEF Consistent

\* Confirm gives exclusive access: a name that two claims name would be covered by
\* two locks, one at or below the other, which the table never has.
THEOREM ClaimsAreExclusive == Spec => []ClaimsExclusive
PROOF
  <1>1. IInv => ClaimsExclusive
    <2> SUFFICES ASSUME IInv, NEW c \in claims, NEW d \in claims, c # d,
                        NEW name \in c.names \cap d.names
                 PROVE  FALSE
      BY DEF ClaimsExclusive
    <2>1. ClaimsIn(ls, claims) /\ Conflictless(ls) /\ name \in Names /\ LockedIn(ls) \subseteq Names
      BY DEF IInv, Table, TableType, LockedIn
    <2>2. PICK m \in c.nodes : CoversName(ls, m, name)
      BY <2>1 DEF ClaimsIn
    <2>3. PICK n \in d.nodes : CoversName(ls, n, name)
      BY <2>1 DEF ClaimsIn
    <2>4. m \in LockedIn(ls) /\ n \in LockedIn(ls) /\ m # n
      BY <2>1, <2>2, <2>3 DEF ClaimsIn
    <2>5. m \in Up[name] /\ n \in Up[name]
      BY <2>1, <2>2, <2>3, MemLSAssumption DEF CoversName
    <2>6. m \in Up[n] \/ n \in Up[m]
      BY <2>1, <2>5, MemLSAssumption
    <2>7. ASSUME NEW a \in LockedIn(ls), NEW b \in LockedIn(ls), a # b, a \in Up[b],
                 CoversName(ls, a, name), b \in Up[name]
          PROVE  FALSE
      <3>1. a = name
        BY <2>1, <2>7 DEF Conflictless, CoversName
      <3> QED BY <2>1, <2>7, <3>1, MemLSAssumption
    <2> QED BY <2>2, <2>3, <2>4, <2>5, <2>6, <2>7
  <1> QED BY Invariant, <1>1, PTL

\* What a request holds neither expires nor changes until the request is done.
THEOREM HeldLocksStay == Spec => HeldStays
PROOF
  <1>1. IInv /\ [Next]_vars => [Steady]_vars
    BY StepIInv
  <1>2. Steady <=> \A c \in claims \cap claims' : \A n \in c.nodes :
                      n \in DOMAIN ls'.byName /\ SameLock(ls'.byName[n], ls.byName[n])
    BY DEF Steady
  <1> QED BY Invariant, <1>1, <1>2, PTL DEF Spec, HeldStays

-----------------------------------------------------------------------------
(* The refinement.  LocksOf and Views say what LockService sees of a table  *)
(* and of the claims; the lemmas say what each operation does to that.      *)

LockIn(s, t) ==
  LET n == s.byToken[t]  d == s.byName[n] IN
  [root |-> n, zero |-> d.zero, dur |-> d.dur, expiry |-> IF d.dur >= 0 THEN d.expiry ELSE 0]

LocksOf(s) == [t \in DOMAIN s.byToken |-> LockIn(s, t)]

View(s, c)  == [names |-> c.names, tokens |-> {s.byName[n].token : n \in c.nodes}]
Views(s, C) == {View(s, c) : c \in C}

\* r has some of the locks of s, as they are in s.
StillHas(s, r) ==
  \A t \in DOMAIN r.byToken :
    /\ t \in DOMAIN s.byToken
    /\ r.byToken[t] = s.byToken[t]
    /\ SameLock(r.byName[r.byToken[t]], s.byName[s.byToken[t]])

\* Tokens and locked nodes are the same thing twice.
LEMMA TokenOfLock ==
  ASSUME NEW s, Table(s)
  PROVE  /\ \A t \in DOMAIN s.byToken : s.byToken[t] \in LockedIn(s) /\ s.byName[s.byToken[t]].token = t
         /\ \A n \in LockedIn(s) : s.byName[n].token \in DOMAIN s.byToken /\ s.byToken[s.byName[n].token] = n
PROOF
  BY TokenLocked DEF Table, Tokens

\* What the service sees of a table that keeps some locks of another.
LEMMA KeptLocks ==
  ASSUME NEW s, NEW r, StillHas(s, r)
  PROVE  LocksOf(r) = [t \in DOMAIN r.byToken |-> LocksOf(s)[t]]
PROOF
  <1>1. \A t \in DOMAIN r.byToken : LockIn(r, t) = LocksOf(s)[t]
    BY DEF StillHas, SameLock, LocksOf, LockIn
  <1> HIDE DEF LockIn
  <1> QED BY <1>1 DEF LocksOf

\* remove takes the tokens of the removed locks and no others.
LEMMA RemoveTokens ==
  ASSUME NEW s, Table(s), NEW S, S \subseteq LockedIn(s) \ HeldIn(s)
  PROVE  /\ DOMAIN Remove(s, S).byToken = {t \in DOMAIN s.byToken : s.byToken[t] \notin S}
         /\ StillHas(s, Remove(s, S))
PROOF
  <1> DEFINE r == Remove(s, S)
  <1>1. r.byToken = [t \in DOMAIN s.byToken \ {Token(s, n) : n \in S} |-> s.byToken[t]]
    BY DEF Remove
  <1>2. \A n \in S : Token(s, n) = s.byName[n].token /\ n \in LockedIn(s)
    BY DEF Token, LockedIn
  <1>3. \A t \in DOMAIN s.byToken : t \in {Token(s, n) : n \in S} <=> s.byToken[t] \in S
    BY <1>2, TokenOfLock
  <1>4. Drops(s, r) /\ LockedIn(r) = LockedIn(s) \ S
    BY RemoveTable
  <1> HIDE DEF r
  <1>5. DOMAIN r.byToken = {t \in DOMAIN s.byToken : s.byToken[t] \notin S}
    BY <1>1, <1>3
  <1>6. \A t \in DOMAIN r.byToken : r.byToken[t] = s.byToken[t] /\ s.byToken[t] \in LockedIn(r)
    BY <1>1, <1>4, <1>5, TokenOfLock
  <1>7. StillHas(s, r)
    BY <1>4, <1>5, <1>6 DEF StillHas, Drops
  <1> QED BY <1>5, <1>7 DEF r

\* A quiet operation changes nothing of a claim that the service sees.
LEMMA QuietViews ==
  ASSUME NEW s, NEW r, NEW C, ClaimsIn(s, C), Quiet(s, r)
  PROVE  Views(r, C) = Views(s, C)
PROOF
  <1>1. \A c \in C : \A n \in c.nodes : r.byName[n].token = s.byName[n].token
    BY DEF ClaimsIn, Quiet, SameLock
  <1>2. \A c \in C : {r.byName[n].token : n \in c.nodes} = {s.byName[n].token : n \in c.nodes}
    BY <1>1
  <1>3. \A c \in C : View(r, c) = View(s, c)
    BY <1>2 DEF View
  <1> QED BY <1>3 DEF Views

\* The service holds a lock when its node is held.
LEMMA HeldView ==
  ASSUME NEW s, Table(s), NEW C, ClaimsIn(s, C), NEW t \in DOMAIN s.byToken
  PROVE  (\E v \in Views(s, C) : t \in v.tokens) <=> s.byName[s.byToken[t]].held
PROOF
  <1>1. s.byToken[t] \in LockedIn(s) /\ s.byName[s.byToken[t]].token = t
    BY TokenOfLock
  <1>2. ASSUME NEW c \in C, NEW n \in c.nodes, s.byName[n].token = t PROVE s.byName[s.byToken[t]].held
    <2>1. n \in LockedIn(s) /\ n \in HeldIn(s)
      BY DEF ClaimsIn
    <2>2. s.byToken[t] = n
      BY <1>2, <2>1, TokenOfLock
    <2> QED BY <2>1, <2>2 DEF HeldIn
  <1>3. ASSUME s.byName[s.byToken[t]].held PROVE \E v \in Views(s, C) : t \in v.tokens
    <2>1. s.byToken[t] \in HeldIn(s)
      BY <1>1, <1>3 DEF HeldIn, LockedIn
    <2>2. PICK c \in C : s.byToken[t] \in c.nodes
      BY <2>1 DEF ClaimsIn
    <2>3. t \in View(s, c).tokens
      BY <1>1, <2>2 DEF View
    <2> QED BY <2>3 DEF Views
  <1>4. ASSUME NEW v \in Views(s, C), t \in v.tokens PROVE s.byName[s.byToken[t]].held
    <2>1. PICK c \in C : v = View(s, c)
      BY DEF Views
    <2>2. PICK n \in c.nodes : s.byName[n].token = t
      BY <1>4, <2>1 DEF View
    <2> QED BY <1>2, <2>2
  <1> QED BY <1>3, <1>4

\* The service's view of the state, in this state and in the next.
LEMMA ServiceView ==
  /\ [t \in DOMAIN ls.byToken |-> LockOf(t)] = LocksOf(ls)
  /\ [t \in DOMAIN ls.byToken |-> LockOf(t)]' = LocksOf(ls')
  /\ {[names |-> c.names, tokens |-> {ls.byName[n].token : n \in c.nodes}] : c \in claims} = Views(ls, claims)
  /\ {[names |-> c.names, tokens |-> {ls.byName[n].token : n \in c.nodes}] : c \in claims}' = Views(ls', claims')
PROOF
  <1>1. [t \in DOMAIN ls.byToken |-> LockOf(t)] = LocksOf(ls)
    BY DEF LockOf, LocksOf, LockIn
  <1>2. [t \in DOMAIN ls.byToken |-> LockOf(t)]' = LocksOf(ls')
    BY DEF LockOf, LocksOf, LockIn
  <1>3. {[names |-> c.names, tokens |-> {ls.byName[n].token : n \in c.nodes}] : c \in claims} = Views(ls, claims)
    BY Zenon DEF Views, View
  <1>4. {[names |-> c.names, tokens |-> {ls.byName[n].token : n \in c.nodes}] : c \in claims}' = Views(ls', claims')
    BY Zenon DEF Views, View
  <1> QED BY <1>1, <1>2, <1>3, <1>4

\* The tokens the service gives out.
RInv == IInv /\ ls.gen <= MaxTokens

\* A lock is held for the service when its node is.
LEMMA ServiceHeld ==
  ASSUME IInv, NEW t \in DOMAIN ls.byToken
  PROVE  Service!Held(t) <=> ls.byName[ls.byToken[t]].held
PROOF
  BY HeldView, ServiceView DEF IInv, Service!Held

\* What collectExpiredNodes leaves are the service's live locks.
LEMMA CollectLive ==
  ASSUME IInv, NEW now \in Nat
  PROVE  /\ Service!LiveAt(now) = DOMAIN Collect(ls, now).byToken
         /\ StillHas(ls, Collect(ls, now))
         /\ LocksOf(Collect(ls, now)) = Service!Only(Service!LiveAt(now))
         /\ Collect(ls, now).gen = ls.gen
PROOF
  <1> DEFINE s == Collect(ls, now)
             E == Expired(ls, now)
  <1>1. Table(ls) /\ TableType(ls) /\ Expiry(ls)
    BY DEF IInv, Table
  <1>2. E \subseteq LockedIn(ls) \ HeldIn(ls)
    BY <1>1 DEF Expired, Expiry, HeldIn
  <1>3. DOMAIN s.byToken = {t \in DOMAIN ls.byToken : ls.byToken[t] \notin E} /\ StillHas(ls, s)
    <2>1. CASE E = {}
      BY <2>1 DEF Collect, StillHas, SameLock
    <2>2. CASE E # {}
      BY <1>1, <1>2, <2>2, RemoveTokens DEF Collect
    <2> QED BY <2>1, <2>2
  <1>4. s.gen = ls.gen
    BY <1>1, CollectTable DEF Drops
  <1> HIDE DEF s
  <1>5. ASSUME NEW t \in DOMAIN ls.byToken
        PROVE  ls.byToken[t] \notin E <=>
                 Service!Held(t) \/ LocksOf(ls)[t].dur < 0 \/ now < LocksOf(ls)[t].expiry
    <2> DEFINE d == ls.byName[ls.byToken[t]]
    <2>1. ls.byToken[t] \in LockedIn(ls) /\ d \in Node
      BY <1>1, TokenOfLock DEF TableType
    <2>2. ls.byToken[t] \in E <=> d.dur >= 0 /\ ~d.held /\ d.expiry <= now
      BY <1>1, <2>1 DEF Expired, Expiry
    <2>3. LocksOf(ls)[t].dur = d.dur /\ LocksOf(ls)[t].expiry = IF d.dur >= 0 THEN d.expiry ELSE 0
      BY DEF LocksOf, LockIn
    <2>4. Service!Held(t) <=> d.held
      BY ServiceHeld
    <2>5. d.dur \in Nat \cup {-1} /\ d.expiry \in Nat
      BY <2>1 DEF Node
    <2> HIDE DEF d
    <2> QED BY <2>2, <2>3, <2>4, <2>5
  <1>6. Service!LiveAt(now) = {t \in DOMAIN LocksOf(ls) :
            Service!Held(t) \/ LocksOf(ls)[t].dur < 0 \/ now < LocksOf(ls)[t].expiry}
    BY ServiceView DEF Service!LiveAt
  <1>7. DOMAIN LocksOf(ls) = DOMAIN ls.byToken
    BY DEF LocksOf
  <1>8. Service!LiveAt(now) = DOMAIN s.byToken
    BY <1>3, <1>5, <1>6, <1>7
  <1>9. LocksOf(s) = [t \in DOMAIN s.byToken |-> LocksOf(ls)[t]]
    BY <1>3, KeptLocks
  <1>10. LocksOf(s) = Service!Only(Service!LiveAt(now))
    BY <1>8, <1>9, ServiceView DEF Service!Only
  <1> QED BY <1>3, <1>4, <1>8, <1>10 DEF s

\* A claim keeps its view when its names and the tokens of its nodes do.
LEMMA QuietStepViews ==
  ASSUME IInv, Quiet(ls, ls'), claims' = claims
  PROVE  Views(ls', claims') = Views(ls, claims)
PROOF
  BY QuietViews DEF IInv

\* The node of a lock that create made.
LEMMA InsertNode ==
  ASSUME NEW s, Table(s), NEW r \in Names, NEW zero \in BOOLEAN, NEW now \in Nat,
         NEW dur \in Nat \cup {-1}
  PROVE  LET d == Insert(s, now, r, dur, zero).byName[r] IN
         /\ r \in DOMAIN Insert(s, now, r, dur, zero).byName
         /\ d.dur = dur /\ d.zero = zero
         /\ dur >= 0 => d.expiry = now + dur
PROOF
  <1> DEFINE a == IF r \in DOMAIN s.byName THEN s.byName[r] ELSE NewNode
             d == Insert(s, now, r, dur, zero).byName[r]
  <1>1. a \in Node
    BY DEF Table, TableType, NewNode, Node, NoToken
  <1>2. r \in Up[r]
    BY MemLSAssumption
  <1>3. /\ DOMAIN Insert(s, now, r, dur, zero).byName = DOMAIN s.byName \cup Up[r]
        /\ d = [[a EXCEPT !.ref = @ + 1] EXCEPT !.token = s.gen + 1, !.dur = dur, !.zero = zero,
                                               !.expiry = IF dur >= 0 THEN now + dur ELSE @]
    BY <1>2 DEF Insert
  <1> HIDE DEF a, d
  <1>4. d.dur = dur /\ d.zero = zero /\ (dur >= 0 => d.expiry = now + dur)
    BY <1>1, <1>3 DEF Node
  <1> QED BY <1>2, <1>3, <1>4 DEF d

\* A step that only collects is a step of the service: it drops the dead locks.
LEMMA OnlyCollects ==
  ASSUME IInv, NEW now \in Nat, ls' = Collect(ls, now), UNCHANGED <<claims, clock>>
  PROVE  /\ LocksOf(ls') = Service!Only(Service!LiveAt(now))
         /\ Views(ls', claims') = Views(ls, claims)
         /\ 1 .. ls'.gen = 1 .. ls.gen
PROOF
  BY CollectLive, CollectQuiet, QuietStepViews

\* Create: the service refuses a lock when canCreate does.
LEMMA CreateServes ==
  ASSUME RInv, NEW now \in 0 .. clock, NEW root \in Names, NEW dur \in Durations,
         NEW zero \in BOOLEAN, ls.gen < MaxTokens, Create(now, root, dur, zero)
  PROVE  Service!ServiceCreate(now, root, dur, zero)
PROOF
  <1> DEFINE s == Collect(ls, now)
             i == Insert(s, now, root, dur, zero)
             Live == Service!LiveAt(now)
             u == s.gen + 1
  <1>1. IInv /\ now \in Nat /\ dur \in Nat \cup {-1} /\ ls.gen \in Nat /\ MaxTokens \in Nat
    BY MemLSAssumption DEF RInv, IInv, Table, TableType
  <1>2. Table(s) /\ Quiet(ls, s)
    BY <1>1, CollectQuiet
  <1>3. /\ Live = DOMAIN s.byToken /\ StillHas(ls, s) /\ s.gen = ls.gen
        /\ LocksOf(s) = Service!Only(Live)
    BY <1>1, CollectLive
  <1>4. UNCHANGED <<claims, clock>> /\ ls' = IF CanCreate(s, root, zero) THEN i ELSE s
    BY DEF Create
  <1> HIDE DEF s, Live
  <1>5. \A t \in Live : /\ LocksOf(ls)[t].root = s.byToken[t]
                        /\ LocksOf(ls)[t].zero = s.byName[s.byToken[t]].zero
                        /\ s.byToken[t] \in LockedIn(s)
    BY <1>2, <1>3, TokenOfLock DEF StillHas, SameLock, LocksOf, LockIn
  <1>6. \A n \in LockedIn(s) : \E t \in Live : s.byToken[t] = n
    BY <1>2, <1>3, TokenOfLock
  <1>7. CanCreate(s, root, zero) <=>
          \A t \in Live : ~Service!Conflicts(LocksOf(ls)[t], root, zero)
    BY <1>2, <1>5, <1>6, CanCreateTable DEF Service!Conflicts, Service!Covers
  <1>8. CASE ~CanCreate(s, root, zero)
    <2>1. LocksOf(ls') = Service!Only(Live) /\ Views(ls', claims') = Views(ls, claims)
          /\ 1 .. ls'.gen = 1 .. ls.gen
      BY <1>1, <1>4, <1>8, OnlyCollects DEF s, Live
    <2>2. \E t \in Live : Service!Conflicts(LocksOf(ls)[t], root, zero)
      BY <1>7, <1>8
    <2> QED BY <1>4, <2>1, <2>2, ServiceView DEF Service!ServiceCreate, Live
  <1>9. CASE CanCreate(s, root, zero)
    <2>1. ls' = i
      BY <1>4, <1>9
    <2>2. /\ Table(i) /\ HeldIn(i) = HeldIn(s) /\ LockedIn(i) = LockedIn(s) \cup {root}
          /\ root \notin LockedIn(s)
          /\ \A n \in LockedIn(s) : SameLock(i.byName[n], s.byName[n])
      BY <1>1, <1>2, <1>9, InsertTable
    <2>3. /\ i.gen = u /\ DOMAIN i.byToken = DOMAIN s.byToken \cup {u} /\ i.byToken[u] = root
          /\ \A t \in DOMAIN s.byToken : t # u => i.byToken[t] = s.byToken[t]
      BY DEF Insert
    <2>4. /\ root \in DOMAIN i.byName /\ i.byName[root].dur = dur /\ i.byName[root].zero = zero
          /\ dur >= 0 => i.byName[root].expiry = now + dur
      BY <1>1, <1>2, InsertNode
    <2> HIDE DEF i
    <2>5. \A t \in Live : t # u /\ t \in 1 .. s.gen
      BY <1>2, <1>3 DEF Table, TableType
    <2>6. LocksOf(i) = [t \in Live \cup {u} |->
                          IF t # u THEN LocksOf(ls)[t]
                          ELSE [root |-> root, zero |-> zero, dur |-> dur,
                                expiry |-> Service!Expiry(now, dur)]]
      <3>1. LockIn(i, u) = [root |-> root, zero |-> zero, dur |-> dur,
                            expiry |-> Service!Expiry(now, dur)]
        BY <2>3, <2>4 DEF LockIn, Service!Expiry
      <3>2. \A t \in Live : LockIn(i, t) = LockIn(ls, t)
        <4> TAKE t \in Live
        <4>1. t \in DOMAIN s.byToken /\ i.byToken[t] = s.byToken[t] /\ s.byToken[t] \in LockedIn(s)
          BY <1>3, <1>5, <2>3, <2>5
        <4>2. SameLock(i.byName[i.byToken[t]], s.byName[s.byToken[t]])
          BY <2>2, <4>1
        <4>3. s.byToken[t] = ls.byToken[t] /\ SameLock(s.byName[s.byToken[t]], ls.byName[ls.byToken[t]])
          BY <1>3, <4>1 DEF StillHas
        <4> QED BY <4>1, <4>2, <4>3 DEF LockIn, SameLock
      <3>3. \A t \in Live : LocksOf(ls)[t] = LockIn(ls, t)
        BY <1>3 DEF LocksOf, StillHas
      <3> HIDE DEF LockIn
      <3> QED BY <1>3, <2>3, <3>1, <3>2, <3>3 DEF LocksOf
    <2>7. Views(ls', claims') = Views(ls, claims)
      <3>1. Quiet(s, i)
        BY <1>2, <2>2 DEF Quiet, Table
      <3> QED BY <1>1, <1>2, <1>4, <2>1, <3>1, QuietTwice, QuietStepViews
    <2>8. 1 .. ls'.gen = 1 .. ls.gen \cup {u} /\ u \in (1 .. MaxTokens) \ (1 .. ls.gen)
      BY <1>1, <1>3, <2>1, <2>3
    <2>9. ~\E t \in Live : Service!Conflicts(LocksOf(ls)[t], root, zero)
      BY <1>7, <1>9
    <2> QED BY <1>4, <2>1, <2>6, <2>7, <2>8, <2>9, ServiceView DEF Service!ServiceCreate, Live
  <1> QED BY <1>8, <1>9

\* Unlock: the lock goes if nobody holds it.
LEMMA UnlockServes ==
  ASSUME RInv, NEW now \in 0 .. clock, NEW t, Unlock(now, t)
  PROVE  Service!ServiceUnlock(now, t)
PROOF
  <1> DEFINE s == Collect(ls, now)
             Live == Service!LiveAt(now)
             r == Remove(s, {s.byToken[t]})
  <1>1. IInv /\ now \in Nat
    BY DEF RInv, IInv
  <1>2. Table(s) /\ Quiet(ls, s)
    BY <1>1, CollectQuiet
  <1>3. /\ Live = DOMAIN s.byToken /\ StillHas(ls, s) /\ s.gen = ls.gen
        /\ LocksOf(s) = Service!Only(Live)
    BY <1>1, CollectLive
  <1>4. /\ UNCHANGED <<claims, clock>>
        /\ ls' = IF t \notin DOMAIN s.byToken \/ s.byName[s.byToken[t]].held THEN s ELSE r
    BY DEF Unlock
  <1> HIDE DEF s, Live
  <1>5. t \in Live => (Service!Held(t) <=> s.byName[s.byToken[t]].held)
    BY <1>1, <1>3, ServiceHeld DEF StillHas, SameLock
  <1>6. CASE t \notin Live \/ Service!Held(t)
    <2>1. ls' = s
      BY <1>3, <1>4, <1>5, <1>6
    <2>2. LocksOf(ls') = Service!Only(Live) /\ Views(ls', claims') = Views(ls, claims)
          /\ 1 .. ls'.gen = 1 .. ls.gen
      BY <1>1, <1>4, <2>1, OnlyCollects DEF s, Live
    <2>3. LocksOf(ls') = Service!Only(IF Service!Held(t) THEN Live ELSE Live \ {t})
      <3>1. Service!Held(t) \/ Live \ {t} = Live
        BY <1>6
      <3> QED BY <2>2, <3>1
    <2> QED BY <1>4, <2>2, <2>3, ServiceView DEF Service!ServiceUnlock, Live
  <1>7. CASE t \in Live /\ ~Service!Held(t)
    <2>1. ls' = r /\ t \in DOMAIN s.byToken
      BY <1>3, <1>4, <1>5, <1>7
    <2>2. s.byToken[t] \in LockedIn(s) \ HeldIn(s)
      BY <1>2, <1>5, <1>7, <2>1, TokenOfLock DEF HeldIn
    <2>3. /\ DOMAIN r.byToken = {v \in DOMAIN s.byToken : s.byToken[v] \notin {s.byToken[t]}}
          /\ StillHas(s, r)
      BY <1>2, <2>2, RemoveTokens
    <2>4. Table(r) /\ Drops(s, r)
      BY <1>2, <2>2, RemoveTable
    <2> HIDE DEF r
    <2>5. DOMAIN r.byToken = Live \ {t}
      BY <1>2, <1>3, <2>1, <2>3, TokenOfLock
    <2>6. LocksOf(r) = [v \in Live \ {t} |-> LocksOf(s)[v]]
      BY <2>3, <2>5, KeptLocks
    <2>7. LocksOf(s) = [v \in Live |-> LocksOf(ls)[v]]
      BY <1>3, KeptLocks
    <2>8. LocksOf(ls') = [v \in Live \ {t} |-> LocksOf(ls)[v]]
      BY <2>1, <2>6, <2>7
    <2>9. Views(ls', claims') = Views(ls, claims) /\ ls'.gen = ls.gen
      <3>1. Quiet(s, r) /\ r.gen = s.gen
        BY <2>4, DropsQuiet DEF Drops
      <3> QED BY <1>1, <1>2, <1>3, <1>4, <2>1, <3>1, QuietTwice, QuietStepViews
    <2> QED BY <1>4, <1>7, <2>8, <2>9, ServiceView DEF Service!ServiceUnlock, Service!Only, Live
  <1> QED BY <1>6, <1>7

\* What Refresh writes to the node, and to it alone.
LEMMA RenewNode ==
  ASSUME NEW s, Table(s), NEW n \in LockedIn(s), NEW now \in Nat, NEW dur \in Nat \cup {-1}
  PROVE  LET d == Renew(s, now, n, dur).byName[n] IN
         /\ d.dur = dur /\ d.zero = s.byName[n].zero
         /\ dur >= 0 => d.expiry = now + dur
PROOF
  <1> DEFINE e == IF dur >= 0 THEN now + dur ELSE s.byName[n].expiry
             d == Renew(s, now, n, dur).byName[n]
  <1>1. n \in DOMAIN s.byName /\ s.byName[n] \in Node
    BY DEF Table, TableType, LockedIn
  <1>2. d = [s.byName[n] EXCEPT !.dur = dur, !.expiry = e]
    BY <1>1 DEF Renew, Node
  <1> HIDE DEF d
  <1>3. d.dur = dur /\ d.zero = s.byName[n].zero /\ d.expiry = e
    BY <1>1, <1>2 DEF Node
  <1> QED BY <1>3 DEF d

\* A lock with another time.
Timed(l, d, e) == [l EXCEPT !.dur = d, !.expiry = e]

\* The two fields of a lock that are written at once.
LEMMA TwoFields ==
  ASSUME NEW n, NEW z, NEW d, NEW e, NEW d1, NEW e1, NEW l,
         l = [root |-> n, zero |-> z, dur |-> d, expiry |-> e]
  PROVE  Timed(l, d1, e1) = [root |-> n, zero |-> z, dur |-> d1, expiry |-> e1]
PROOF
  <1> DEFINE k == [l EXCEPT !.dur = d1]
  <1>1. k = [root |-> n, zero |-> z, dur |-> d1, expiry |-> e]
    OBVIOUS
  <1>2. Timed(l, d1, e1) = [k EXCEPT !.expiry = e1]
    BY DEF Timed
  <1> HIDE DEF k
  <1>3. [k EXCEPT !.expiry = e1] = [root |-> n, zero |-> z, dur |-> d1, expiry |-> e1]
    BY <1>1
  <1> QED BY <1>2, <1>3

\* Refresh: the lock has a new time if nobody holds it.
LEMMA RefreshServes ==
  ASSUME RInv, NEW now \in 0 .. clock, NEW t, NEW dur \in Durations, Refresh(now, t, dur)
  PROVE  Service!ServiceRefresh(now, t, dur)
PROOF
  <1> DEFINE s == Collect(ls, now)
             Live == Service!LiveAt(now)
             n == s.byToken[t]
             r == Renew(s, now, n, dur)
  <1>1. IInv /\ now \in Nat /\ dur \in Nat \cup {-1}
    BY MemLSAssumption DEF RInv, IInv
  <1>2. Table(s) /\ Quiet(ls, s)
    BY <1>1, CollectQuiet
  <1>3. /\ Live = DOMAIN s.byToken /\ StillHas(ls, s) /\ s.gen = ls.gen
        /\ LocksOf(s) = Service!Only(Live)
    BY <1>1, CollectLive
  <1>4. /\ UNCHANGED <<claims, clock>>
        /\ ls' = IF t \notin DOMAIN s.byToken \/ s.byName[n].held THEN s ELSE r
    BY DEF Refresh
  <1> HIDE DEF s, Live
  <1>5. t \in Live => (Service!Held(t) <=> s.byName[n].held)
    BY <1>1, <1>3, ServiceHeld DEF StillHas, SameLock
  <1>6. CASE t \notin Live \/ Service!Held(t)
    <2>1. ls' = s
      BY <1>3, <1>4, <1>5, <1>6
    <2>2. LocksOf(ls') = Service!Only(Live) /\ Views(ls', claims') = Views(ls, claims)
          /\ 1 .. ls'.gen = 1 .. ls.gen
      BY <1>1, <1>4, <2>1, OnlyCollects DEF s, Live
    <2> QED BY <1>4, <1>6, <2>2, ServiceView DEF Service!ServiceRefresh, Live
  <1>7. CASE t \in Live /\ ~Service!Held(t)
    <2>1. ls' = r /\ t \in DOMAIN s.byToken
      BY <1>3, <1>4, <1>5, <1>7
    <2>2. n \in LockedIn(s) \ HeldIn(s) /\ s.byName[n].token = t
      BY <1>2, <1>5, <1>7, <2>1, TokenOfLock DEF HeldIn
    <2>3. /\ Table(r) /\ HeldIn(r) = HeldIn(s) /\ LockedIn(r) = LockedIn(s)
          /\ \A m \in LockedIn(s) \ {n} : SameLock(r.byName[m], s.byName[m])
      BY <1>1, <1>2, <2>2, RenewTable
    <2>4. /\ r.byName[n].dur = dur /\ r.byName[n].zero = s.byName[n].zero
          /\ dur >= 0 => r.byName[n].expiry = now + dur
      <3> HIDE DEF n
      <3> QED BY <1>1, <1>2, <2>2, RenewNode
    <2>5. r.byToken = s.byToken /\ r.gen = s.gen
      BY DEF Renew
    <2> HIDE DEF r
    <2>6. \A v \in Live \ {t} : LockIn(r, v) = LocksOf(s)[v]
      <3> TAKE v \in Live \ {t}
      <3>1. s.byToken[v] \in LockedIn(s) \ {n}
        BY <1>2, <1>3, <2>2, TokenOfLock
      <3>2. SameLock(r.byName[s.byToken[v]], s.byName[s.byToken[v]])
        BY <2>3, <3>1
      <3> QED BY <1>3, <2>5, <3>2 DEF LocksOf, LockIn, SameLock
    <2>7. LocksOf(s)[t] = [root |-> n, zero |-> s.byName[n].zero, dur |-> s.byName[n].dur,
                           expiry |-> IF s.byName[n].dur >= 0 THEN s.byName[n].expiry ELSE 0]
      BY <2>1 DEF LocksOf, LockIn
    <2>8. LockIn(r, t) = [root |-> n, zero |-> s.byName[n].zero, dur |-> dur,
                          expiry |-> Service!Expiry(now, dur)]
      BY <2>4, <2>5 DEF LockIn, Service!Expiry
    <2>9. LockIn(r, t) = Timed(LocksOf(s)[t], dur, Service!Expiry(now, dur))
      <3> DEFINE d == s.byName[n]  x == Service!Expiry(now, dur)
                 y == IF d.dur >= 0 THEN d.expiry ELSE 0
      <3>1. /\ LocksOf(s)[t] = [root |-> n, zero |-> d.zero, dur |-> d.dur, expiry |-> y]
            /\ LockIn(r, t) = [root |-> n, zero |-> d.zero, dur |-> dur, expiry |-> x]
        BY <2>7, <2>8
      <3> HIDE DEF d, n, x, y
      <3>2. LockIn(r, t) = Timed(LocksOf(s)[t], dur, x)
        BY <3>1, TwoFields
      <3> QED BY <3>2 DEF x
    <2>10. LocksOf(r) = [LocksOf(s) EXCEPT ![t] = Timed(LocksOf(s)[t], dur, Service!Expiry(now, dur))]
      <3> DEFINE new == Timed(LocksOf(s)[t], dur, Service!Expiry(now, dur))
      <3>1. LockIn(r, t) = new
        BY <2>9
      <3>2. LocksOf(r) = [v \in Live |-> LockIn(r, v)] /\ DOMAIN LocksOf(s) = Live
        BY <1>3, <2>5 DEF LocksOf
      <3>3. LocksOf(s) = [v \in Live |-> LocksOf(s)[v]]
        BY <1>3 DEF LocksOf
      <3> HIDE DEF new, LockIn, LocksOf
      <3>4. LocksOf(r) = [LocksOf(s) EXCEPT ![t] = new]
        BY <2>6, <3>1, <3>2, <3>3
      <3> QED BY <3>4 DEF new
    <2>11. Views(ls', claims') = Views(ls, claims) /\ ls'.gen = ls.gen
      <3>1. Quiet(s, r)
        BY <1>2, <2>2, <2>3 DEF Quiet, Table
      <3> QED BY <1>1, <1>2, <1>3, <1>4, <2>1, <2>5, <3>1, QuietTwice, QuietStepViews
    <2>12. LocksOf(ls') = [Service!Only(Live) EXCEPT ![t].dur = dur, ![t].expiry = Service!Expiry(now, dur)]
      BY <1>3, <1>7, <2>1, <2>10 DEF Timed
    <2> QED BY <1>4, <1>7, <2>11, <2>12, ServiceView DEF Service!ServiceRefresh, Live
  <1> QED BY <1>6, <1>7

\* lookup finds one node at most: that of the first condition that matches.
LEMMA FoundOne ==
  ASSUME NEW s, NEW name, NEW k \in Nat, NEW conds, DOMAIN conds = 1 .. k,
         NEW m \in Found(s, name, conds), NEW n \in Found(s, name, conds)
  PROVE  m = n
PROOF
  <1> DEFINE First(j) == Matches(s, name, conds[j]) /\ \A i \in 1 .. j - 1 : ~Matches(s, name, conds[i])
  <1>1. PICK a \in 1 .. k : m = s.byToken[conds[a]] /\ First(a)
    BY DEF Found
  <1>2. PICK b \in 1 .. k : n = s.byToken[conds[b]] /\ First(b)
    BY DEF Found
  <1> HIDE DEF Matches
  <1>3. ~(a < b) /\ ~(b < a)
    BY <1>1, <1>2
  <1> QED BY <1>1, <1>2, <1>3

\* hold and unhold write nothing that the service sees.
LEMMA HoldKeeps ==
  ASSUME NEW s, Table(s), NEW N, N \subseteq LockedIn(s)
  PROVE  /\ LocksOf(Hold(s, N)) = LocksOf(s)
         /\ LocksOf(Unhold(s, N)) = LocksOf(s)
         /\ \A n \in LockedIn(s) : /\ Hold(s, N).byName[n].token = s.byName[n].token
                                   /\ Unhold(s, N).byName[n].token = s.byName[n].token
PROOF
  <1> DEFINE set(m, b) == IF m \in N THEN [s.byName[m] EXCEPT !.held = b] ELSE s.byName[m]
             h == Hold(s, N)
             u == Unhold(s, N)
  <1>1. /\ DOMAIN s.byName \subseteq Names /\ s.byName \in [DOMAIN s.byName -> Node]
        /\ \A t \in DOMAIN s.byToken : s.byToken[t] \in DOMAIN s.byName
    BY DEF Table, TableType
  <1>2. ASSUME NEW m \in DOMAIN s.byName, NEW b \in BOOLEAN
        PROVE  /\ set(m, b).token = s.byName[m].token /\ set(m, b).zero = s.byName[m].zero
               /\ set(m, b).dur = s.byName[m].dur /\ set(m, b).expiry = s.byName[m].expiry
    <2>1. s.byName[m] \in Node
      BY <1>1
    <2> QED BY <2>1 DEF Node
  <1>3. /\ h.byToken = s.byToken /\ u.byToken = s.byToken
        /\ \A m \in DOMAIN s.byName : h.byName[m] = set(m, TRUE) /\ u.byName[m] = set(m, FALSE)
    BY DEF Hold, Unhold
  <1> HIDE DEF set, h, u
  <1>same. \A m \in DOMAIN s.byName :
             /\ h.byName[m].token = s.byName[m].token /\ u.byName[m].token = s.byName[m].token
             /\ h.byName[m].zero = s.byName[m].zero /\ u.byName[m].zero = s.byName[m].zero
             /\ h.byName[m].dur = s.byName[m].dur /\ u.byName[m].dur = s.byName[m].dur
             /\ h.byName[m].expiry = s.byName[m].expiry /\ u.byName[m].expiry = s.byName[m].expiry
    BY <1>2, <1>3
  <1>4. \A t \in DOMAIN s.byToken : LockIn(h, t) = LockIn(s, t) /\ LockIn(u, t) = LockIn(s, t)
    BY <1>1, <1>3, <1>same DEF LockIn
  <1> HIDE DEF LockIn
  <1>5. LocksOf(h) = LocksOf(s) /\ LocksOf(u) = LocksOf(s)
    BY <1>3, <1>4 DEF LocksOf
  <1>6. \A n \in LockedIn(s) : h.byName[n].token = s.byName[n].token /\ u.byName[n].token = s.byName[n].token
    BY <1>same DEF LockedIn
  <1> QED BY <1>5, <1>6 DEF h, u

\* Claims whose nodes keep their tokens keep their views.
LEMMA SameViews ==
  ASSUME NEW s, NEW r, NEW C, \A c \in C : \A n \in c.nodes : r.byName[n].token = s.byName[n].token
  PROVE  Views(r, C) = Views(s, C)
PROOF
  <1>1. \A c \in C : {r.byName[n].token : n \in c.nodes} = {s.byName[n].token : n \in c.nodes}
    OBVIOUS
  <1>2. \A c \in C : View(r, c) = View(s, c)
    BY <1>1 DEF View
  <1> QED BY <1>2 DEF Views

\* A caller of Confirm names one name twice or two names.
LEMMA NamedPair ==
  ASSUME NEW name0 \in Names, NEW name1 \in Names \cup {NoName}
  PROVE  \E m, n \in Names : Named(name0, name1) = {m, n}
PROOF
  <1>1. name0 # NoName
    BY MemLSAssumption
  <1>2. CASE name1 = NoName
    <2>1. Named(name0, name1) = {name0, name0}
      BY <1>1, <1>2 DEF Named
    <2> QED BY <2>1
  <1>3. CASE name1 \in Names
    <2>1. Named(name0, name1) = {name0, name1}
      BY <1>3, MemLSAssumption DEF Named
    <2> QED BY <1>3, <2>1
  <1> QED BY <1>2, <1>3

\* Confirm that finds no lock for a name: nothing is held.
LEMMA ConfirmFailsServes ==
  ASSUME RInv, NEW now \in 0 .. clock, NEW name0, NEW name1, NEW conds,
         ConfirmFails(now, name0, name1, conds)
  PROVE  Service!ServiceConfirm(now, Named(name0, name1))
PROOF
  <1>1. IInv /\ now \in Nat /\ ls' = Collect(ls, now) /\ UNCHANGED <<claims, clock>>
    BY DEF RInv, IInv, ConfirmFails
  <1>2. LocksOf(ls') = Service!Only(Service!LiveAt(now)) /\ Views(ls', claims') = Views(ls, claims)
        /\ 1 .. ls'.gen = 1 .. ls.gen
    BY <1>1, OnlyCollects
  <1> QED BY <1>1, <1>2, ServiceView DEF Service!ServiceConfirm

\* Confirm that succeeds: for each name a live lock that nobody holds covers it.
LEMMA ConfirmHoldsServes ==
  ASSUME RInv, NEW now \in 0 .. clock, NEW name0 \in Names, NEW name1 \in Names \cup {NoName},
         NEW k \in Nat, NEW conds \in [1 .. k -> Given],
         ConfirmHolds(now, name0, name1, conds)
  PROVE  Service!ServiceConfirm(now, Named(name0, name1))
PROOF
  <1> DEFINE s == Collect(ls, now)
             Live == Service!LiveAt(now)
             Q == Named(name0, name1)
             N == UNION {Found(s, name, conds) : name \in Q}
             node(q) == CHOOSE n \in Found(s, q, conds) : TRUE
             f == [q \in Q |-> s.byName[node(q)].token]
             new == [names |-> Q, nodes |-> N]
  <1>1. IInv /\ now \in Nat
    BY DEF RInv, IInv
  <1>2. Table(s) /\ Quiet(ls, s)
    BY <1>1, CollectQuiet
  <1>3. /\ Live = DOMAIN s.byToken /\ StillHas(ls, s) /\ s.gen = ls.gen
        /\ LocksOf(s) = Service!Only(Live)
    BY <1>1, CollectLive
  <1>4. /\ \A q \in Q : Found(s, q, conds) # {}
        /\ ls' = Hold(s, N)
        /\ claims' = claims \cup {new}
        /\ clock' = clock
    BY DEF ConfirmHolds
  <1>5. Q \subseteq Names
    BY DEF Named
  <1> HIDE DEF s, Live, Q
  <1>6. ASSUME NEW q \in Q
        PROVE  /\ Found(s, q, conds) = {node(q)}
               /\ node(q) \in LockedIn(s) \ HeldIn(s)
               /\ CoversName(s, node(q), q)
    <2>1. node(q) \in Found(s, q, conds)
      BY <1>4
    <2>2. DOMAIN conds = 1 .. k
      OBVIOUS
    <2>3. \A n \in Found(s, q, conds) : n = node(q)
      BY <2>1, <2>2, FoundOne
    <2> HIDE DEF node
    <2> QED BY <1>2, <1>5, <2>1, <2>3, FoundFree
  <1> HIDE DEF node
  <1>7. N = {node(q) : q \in Q} /\ N \subseteq LockedIn(s) /\ N \cap HeldIn(s) = {}
    BY <1>6
  <1>8. \A q \in Q : f[q] \in Live /\ s.byToken[f[q]] = node(q)
    BY <1>2, <1>3, <1>6, TokenOfLock
  <1>9. \A q \in Q : ~Service!Held(f[q]) /\ Service!Covers(LocksOf(ls)[f[q]], q)
    <2> SUFFICES ASSUME NEW q \in Q
                 PROVE  ~Service!Held(f[q]) /\ Service!Covers(LocksOf(ls)[f[q]], q)
      OBVIOUS
    <2> DEFINE t == f[q]
    <2>1. t \in DOMAIN s.byToken /\ s.byToken[t] = node(q)
      BY <1>3, <1>8
    <2> HIDE DEF t, f
    <2>2. /\ t \in DOMAIN ls.byToken /\ ls.byToken[t] = node(q)
          /\ SameLock(s.byName[node(q)], ls.byName[node(q)])
      BY <1>3, <2>1 DEF StillHas
    <2>3. ~ls.byName[node(q)].held
      BY <1>6, <2>2 DEF SameLock, HeldIn, LockedIn
    <2>4. ~Service!Held(t)
      BY <1>1, <2>2, <2>3, ServiceHeld
    <2>5. LocksOf(ls)[t].root = node(q) /\ LocksOf(ls)[t].zero = s.byName[node(q)].zero
      BY <2>2 DEF LocksOf, LockIn, SameLock
    <2>6. Service!Covers(LocksOf(ls)[t], q)
      BY <1>6, <2>5 DEF Service!Covers, CoversName
    <2> QED BY <2>4, <2>6 DEF t
  <1> HIDE DEF N
  <1>10. /\ LocksOf(ls') = LocksOf(s) /\ ls'.gen = ls.gen
         /\ \A n \in LockedIn(s) : ls'.byName[n].token = s.byName[n].token
    <2>1. Hold(s, N).gen = s.gen
      BY DEF Hold
    <2> QED BY <1>2, <1>3, <1>4, <1>7, <2>1, HoldKeeps
  <1>11. Views(ls', claims) = Views(ls, claims)
    <2>1. \A c \in claims : \A n \in c.nodes : n \in HeldIn(ls)
      BY <1>1 DEF IInv, ClaimsIn
    <2>2. \A c \in claims : \A n \in c.nodes : ls'.byName[n].token = ls.byName[n].token
      BY <1>2, <1>10, <2>1 DEF Quiet, Table, SameLock
    <2> QED BY <2>2, SameViews
  <1>12. View(ls', new) = [names |-> Q, tokens |-> {f[q] : q \in Q}]
    <2>1. {ls'.byName[n].token : n \in N} = {f[q] : q \in Q}
      BY <1>6, <1>7, <1>10
    <2> QED BY <2>1 DEF View
  <1>13. Views(ls', claims') = Views(ls, claims) \cup {[names |-> Q, tokens |-> {f[q] : q \in Q}]}
    <2>1. Views(ls', claims') = Views(ls', claims) \cup {View(ls', new)}
      <3> HIDE DEF new
      <3> QED BY <1>4 DEF Views
    <2> QED BY <1>11, <1>12, <2>1
  <1>14. f \in [Q -> Live]
    BY <1>8
  <1> HIDE DEF f
  <1>15. \E g \in [Q -> Live] :
           /\ \A q \in Q : ~Service!Held(g[q]) /\ Service!Covers(LocksOf(ls)[g[q]], q)
           /\ Views(ls', claims') = Views(ls, claims) \cup {[names |-> Q, tokens |-> {g[q] : q \in Q}]}
    BY <1>9, <1>13, <1>14, Zenon
  <1>16. LocksOf(ls') = Service!Only(Live) /\ 1 .. ls'.gen = 1 .. ls.gen
    BY <1>3, <1>10
  <1> QED BY <1>4, <1>15, <1>16, ServiceView DEF Service!ServiceConfirm, Live, Q

\* Release: the claim goes, and with it no other.
LEMMA ReleaseServes ==
  ASSUME RInv, NEW c \in claims, Release(c), NEW v, v = View(ls, c)
  PROVE  Service!ServiceRelease(v)
PROOF
  <1> DEFINE N == c.nodes
  <1>1. IInv /\ Table(ls) /\ ClaimsIn(ls, claims)
    BY DEF RInv, IInv
  <1>2. ls' = Unhold(ls, N) /\ claims' = claims \ {c} /\ clock' = clock
    BY DEF Release
  <1>3. N \subseteq LockedIn(ls)
    BY <1>1 DEF ClaimsIn
  <1>4. /\ LocksOf(ls') = LocksOf(ls) /\ ls'.gen = ls.gen
        /\ \A n \in LockedIn(ls) : ls'.byName[n].token = ls.byName[n].token
    <2>1. Unhold(ls, N).gen = ls.gen
      BY DEF Unhold
    <2> QED BY <1>1, <1>2, <1>3, <2>1, HoldKeeps
  <1>5. Views(ls', claims') = Views(ls, claims')
    <2>1. \A d \in claims' : \A n \in d.nodes : ls'.byName[n].token = ls.byName[n].token
      BY <1>1, <1>2, <1>4 DEF ClaimsIn
    <2> QED BY <2>1, SameViews
  <1>6. ASSUME NEW d \in claims, View(ls, d) = View(ls, c)
        PROVE  d = c
    <2>1. PICK n \in d.nodes : n \in LockedIn(ls)
      BY <1>1 DEF ClaimsIn
    <2>2. ls.byName[n].token \in View(ls, c).tokens
      BY <1>6, <2>1 DEF View
    <2>3. PICK m \in c.nodes : ls.byName[m].token = ls.byName[n].token
      BY <2>2 DEF View
    <2>4. m = n
      BY <1>1, <1>3, <2>1, <2>3, TokenOfLock
    <2> QED BY <1>1, <2>1, <2>3, <2>4 DEF ClaimsIn
  <1>7. Views(ls, claims') = Views(ls, claims) \ {View(ls, c)}
    BY <1>2, <1>6 DEF Views
  <1>8. View(ls, c) \in Views(ls, claims)
    BY DEF Views
  <1> QED BY <1>2, <1>4, <1>5, <1>7, <1>8, ServiceView DEF Service!ServiceRelease

\* The bound on the tokens, which Next keeps, is kept.
LEMMA StepRInv == RInv /\ [Next]_vars => RInv'
PROOF
  <1> SUFFICES ASSUME RInv, [Next]_vars PROVE ls'.gen <= MaxTokens
    BY StepIInv DEF RInv
  <1>1. IInv /\ ls.gen \in Nat /\ ls.gen <= MaxTokens /\ MaxTokens \in Nat
    BY MemLSAssumption DEF RInv, IInv, Table, TableType
  <1>2. \A now : Collect(ls, now).gen = ls.gen
    BY <1>1, CollectTable DEF Drops, IInv
  <1>3. CASE UNCHANGED vars
    BY <1>1, <1>3 DEF vars
  <1>4. CASE Tick
    BY <1>1, <1>4 DEF Tick
  <1>5. CASE \E c \in claims : Release(c)
    BY <1>1, <1>5 DEF Release, Unhold
  <1>6. ASSUME NEW now, NEW t, NEW dur, Unlock(now, t) \/ Refresh(now, t, dur)
        PROVE  ls'.gen <= MaxTokens
    <2>1. \A s, S, n : Remove(s, S).gen = s.gen /\ Renew(s, now, n, dur).gen = s.gen
      BY DEF Remove, Renew
    <2> QED BY <1>1, <1>2, <1>6, <2>1 DEF Unlock, Refresh
  <1>7. ASSUME NEW now, NEW name0, NEW name1, NEW conds,
               ConfirmFails(now, name0, name1, conds) \/ ConfirmHolds(now, name0, name1, conds)
        PROVE  ls'.gen <= MaxTokens
    BY <1>1, <1>2, <1>7 DEF ConfirmFails, ConfirmHolds, Hold
  <1>8. ASSUME NEW now, NEW root, NEW dur, NEW zero, ls.gen < MaxTokens, Create(now, root, dur, zero)
        PROVE  ls'.gen <= MaxTokens
    <2>1. \A s : Insert(s, now, root, dur, zero).gen = s.gen + 1
      BY DEF Insert
    <2> QED BY <1>1, <1>2, <1>8, <2>1 DEF Create
  <1> QED BY <1>3, <1>4, <1>5, <1>6, <1>7, <1>8 DEF Next

\* Every step of memLS is a step of the lock table.
LEMMA ServiceStep ==
  ASSUME RInv, [Next]_vars
  PROVE  [Service!ServiceNext]_(Service!svars)
PROOF
  <1>0. IInv /\ clock \in Nat /\ ls.gen \in Nat /\ ls.gen <= MaxTokens /\ MaxTokens \in Nat
    BY MemLSAssumption DEF RInv, IInv, Table, TableType
  <1>1. CASE UNCHANGED vars
    BY <1>1 DEF vars, Service!svars, LockOf
  <1>2. CASE Tick
    <2>1. ls' = ls /\ claims' = claims /\ clock' \in Nat /\ clock' > clock
      BY <1>0, <1>2 DEF Tick
    <2>2. LocksOf(ls') = LocksOf(ls) /\ Views(ls', claims') = Views(ls, claims) /\ 1 .. ls'.gen = 1 .. ls.gen
      BY <2>1
    <2>3. Service!ServiceTick
      BY <2>1, <2>2, ServiceView DEF Service!ServiceTick
    <2> QED BY <2>3 DEF Service!ServiceNext
  <1>3. ASSUME NEW c \in claims, Release(c)
        PROVE  Service!ServiceNext
    <2> DEFINE shown == {[names |-> d.names, tokens |-> {ls.byName[n].token : n \in d.nodes}] : d \in claims}
    <2>1. PICK v \in shown : v = View(ls, c)
      <3>1. View(ls, c) \in Views(ls, claims)
        BY DEF Views
      <3>2. shown = Views(ls, claims)
        BY ServiceView
      <3> HIDE DEF shown
      <3> QED BY <3>1, <3>2
    <2>2. Service!ServiceRelease(v)
      BY <1>3, <2>1, ReleaseServes
    <2>3. \E w \in shown : Service!ServiceRelease(w)
      BY <2>2, Zenon
    <2> QED BY <2>3, Zenon DEF Service!ServiceNext
  <1>4. ASSUME NEW now \in 0 .. clock, NEW root \in Names, NEW dur \in Durations, NEW zero \in BOOLEAN,
               ls.gen < MaxTokens, Create(now, root, dur, zero)
        PROVE  Service!ServiceNext
    <2>1. Service!ServiceCreate(now, root, dur, zero)
      BY <1>4, CreateServes
    <2> QED BY <2>1 DEF Service!ServiceNext
  <1>5. ASSUME NEW now \in 0 .. clock, NEW t \in Given,
               Unlock(now, t) \/ \E dur \in Durations : Refresh(now, t, dur)
        PROVE  Service!ServiceNext
    <2>1. t \in 1 .. MaxTokens
      BY <1>0 DEF Given
    <2>2. Service!ServiceUnlock(now, t) \/ \E dur \in Durations : Service!ServiceRefresh(now, t, dur)
      BY <1>5, UnlockServes, RefreshServes
    <2> QED BY <2>1, <2>2 DEF Service!ServiceNext
  <1>6. ASSUME NEW now \in 0 .. clock, NEW name0 \in Names, NEW name1 \in Names \cup {NoName},
               NEW k \in 1 .. MaxConds, NEW conds \in [1 .. k -> Given],
               ConfirmFails(now, name0, name1, conds) \/ ConfirmHolds(now, name0, name1, conds)
        PROVE  Service!ServiceNext
    <2>1. Service!ServiceConfirm(now, Named(name0, name1))
      BY <1>6, ConfirmFailsServes, ConfirmHoldsServes
    <2>2. PICK m, n \in Names : Named(name0, name1) = {m, n}
      BY NamedPair
    <2>3. Service!ServiceConfirm(now, {m, n})
      BY <2>1, <2>2
    <2> QED BY <2>3 DEF Service!ServiceNext
  <1> QED BY <1>1, <1>2, <1>3, <1>4, <1>5, <1>6 DEF Next

\* memLS, with its counts, its heap and its lazy expiry, does what the LockSystem
\* interface describes: a table of locks that never conflict, of which the expired
\* ones that nobody holds are gone before each operation.
THEOREM Refinement == Spec => ImplementsLockService
PROOF
  <1>1. Init => RInv /\ Service!ServiceInit
    <2> SUFFICES ASSUME Init PROVE RInv /\ Service!ServiceInit
      OBVIOUS
    <2>1. /\ ls.byToken = << >> /\ ls.gen = 0 /\ claims = {} /\ clock = 0
      BY DEF Init
    <2>2. LocksOf(ls) = << >>
      BY <2>1 DEF LocksOf
    <2>3. Views(ls, claims) = {} /\ 1 .. ls.gen = {}
      BY <2>1 DEF Views
    <2>4. Service!ServiceInit
      BY <2>1, <2>2, <2>3, ServiceView DEF Service!ServiceInit
    <2>5. RInv
      BY <2>1, InitTable, MemLSAssumption DEF RInv
    <2> QED BY <2>4, <2>5
  <1>2. RInv /\ [Next]_vars => RInv'
    BY StepRInv
  <1>3. RInv /\ [Next]_vars => [Service!ServiceNext]_(Service!svars)
    BY ServiceStep
  <1> QED BY <1>1, <1>2, <1>3, PTL DEF Spec, ImplementsLockService, Service!ServiceSpec

-----------------------------------------------------------------------------
(* The requests: what the operations of the lock system mean for tokens    *)

\* Token t of table s names a lock that neither expires nor is held.
Firm(s, t) ==
  /\ t \in DOMAIN s.byToken
  /\ s.byName[s.byToken[t]].dur = -1 /\ ~s.byName[s.byToken[t]].held

\* Table r keeps the firm locks of s but those of T.
KeepsFirm(s, r, T) ==
  \A t \in DOMAIN s.byToken \ T : Firm(s, t) => Firm(r, t) /\ r.byToken[t] = s.byToken[t]

\* Besides, it has no token that s has not.
Keeps(s, r, T) ==
  r.gen = s.gen /\ DOMAIN r.byToken \subseteq DOMAIN s.byToken /\ KeepsFirm(s, r, T)

-----------------------------------------------------------------------------
(* What the operations of the lock system do to tokens                     *)

\* A token of a table is that of a locked node, and a node has one token.
LEMMA TokenNode ==
  ASSUME NEW s, Table(s), NEW t \in DOMAIN s.byToken
  PROVE  /\ s.byToken[t] \in LockedIn(s) /\ s.byName[s.byToken[t]].token = t
         /\ s.byToken[t] \in DOMAIN s.byName
         /\ \A u \in DOMAIN s.byToken : s.byToken[u] = s.byToken[t] => u = t
PROOF
  <1>1. s.byToken[t] \in LockedIn(s)
    BY TokenLocked
  <1>2. \A u \in DOMAIN s.byToken : s.byName[s.byToken[u]].token = u
    BY DEF Table, Tokens
  <1> QED BY <1>1, <1>2 DEF LockedIn

\* An operation that only drops locks keeps the tokens of the others.
LEMMA DropsKeeps ==
  ASSUME NEW s, Table(s), NEW r, Table(r), Drops(s, r), NEW T,
         \A t \in DOMAIN s.byToken \ T : Firm(s, t) => s.byToken[t] \in LockedIn(r)
  PROVE  Keeps(s, r, T)
PROOF
  <1>1. ASSUME NEW n \in LockedIn(r)
        PROVE  /\ n \in LockedIn(s)
               /\ r.byName[n].token = s.byName[n].token /\ r.byName[n].dur = s.byName[n].dur
               /\ r.byName[n].held = s.byName[n].held
               /\ s.byName[n].token \in DOMAIN s.byToken /\ s.byToken[s.byName[n].token] = n
               /\ r.byName[n].token \in DOMAIN r.byToken /\ r.byToken[r.byName[n].token] = n
    BY <1>1 DEF Drops, SameLock, Table, Tokens
  <1>2. ASSUME NEW t \in DOMAIN r.byToken PROVE t \in DOMAIN s.byToken
    BY <1>1, TokenNode
  <1>3. ASSUME NEW t \in DOMAIN s.byToken \ T, Firm(s, t)
        PROVE  Firm(r, t) /\ r.byToken[t] = s.byToken[t]
    <2> DEFINE n == s.byToken[t]
    <2>1. n \in LockedIn(r) /\ s.byName[n].token = t
      BY <1>3, TokenNode
    <2> QED BY <1>1, <1>3, <2>1 DEF Firm
  <1> QED BY <1>2, <1>3 DEF Keeps, KeepsFirm, Drops

\* Removing the expired locks keeps every firm one.
LEMMA CollectKeeps ==
  ASSUME NEW s, Table(s), NEW now, NEW T
  PROVE  Keeps(s, Collect(s, now), T)
PROOF
  <1> DEFINE E == Expired(s, now)
             r == Remove(s, E)
  <1>1. CASE E = {}
    BY <1>1 DEF Collect, Keeps, KeepsFirm
  <1>2. CASE E # {}
    <2>1. E \subseteq LockedIn(s) \ HeldIn(s) /\ \A n \in E : s.byName[n].dur >= 0
      BY DEF Expired, Table, Expiry, HeldIn
    <2>2. Table(r) /\ Drops(s, r) /\ LockedIn(r) = LockedIn(s) \ E
      BY <2>1, RemoveTable
    <2>3. \A t \in DOMAIN s.byToken : Firm(s, t) => s.byToken[t] \in LockedIn(r)
      BY <2>1, <2>2, TokenNode DEF Firm
    <2>4. Keeps(s, r, T)
      BY <2>2, <2>3, DropsKeeps
    <2> QED BY <1>2, <2>4 DEF Collect
  <1> QED BY <1>1, <1>2

\* One such operation after another.
LEMMA KeepsTwice ==
  ASSUME NEW s, NEW q, NEW r, NEW T, Keeps(s, q, T), Keeps(q, r, T)
  PROVE  Keeps(s, r, T)
PROOF
  BY DEF Keeps, KeepsFirm, Firm

\* Create refuses, or adds the next token, that of a lock on the root.
LEMMA CreateTokens ==
  ASSUME IInv, NEW now \in 0 .. clock, NEW root \in Names, NEW dur \in Nat \cup {-1},
         NEW zero \in BOOLEAN, Create(now, root, dur, zero)
  PROVE  /\ IInv' /\ UNCHANGED <<claims, clock>>
         /\ KeepsFirm(ls, ls', {})
         /\ \/ ls'.gen = ls.gen /\ DOMAIN ls'.byToken \subseteq DOMAIN ls.byToken
            \/ /\ ls'.gen = ls.gen + 1 /\ ls'.gen \in DOMAIN ls'.byToken
               /\ DOMAIN ls'.byToken \subseteq DOMAIN ls.byToken \cup {ls'.gen}
               /\ ls'.byToken[ls'.gen] = root
               /\ dur = -1 => Firm(ls', ls'.gen)
PROOF
  <1> DEFINE s == Collect(ls, now)
             i == Insert(s, now, root, dur, zero)
             t == s.gen + 1
  <1>1. Table(s) /\ Keeps(ls, s, {})
    BY CollectKeeps, CollectQuiet DEF IInv
  <1>2. now \in Nat
    BY DEF IInv
  <1>3. UNCHANGED <<claims, clock>> /\ ls' = IF CanCreate(s, root, zero) THEN i ELSE s
    BY DEF Create
  <1>4. IInv'
    BY CreateStep
  <1>5. s.gen = ls.gen /\ s.gen \in Nat /\ DOMAIN s.byToken \subseteq 1 .. s.gen
    BY <1>1 DEF Keeps, Table, TableType
  <1> HIDE DEF s
  <1>6. CASE CanCreate(s, root, zero)
    <2>1. /\ Table(i) /\ root \notin LockedIn(s) /\ HeldIn(i) = HeldIn(s)
          /\ \A n \in LockedIn(s) : SameLock(i.byName[n], s.byName[n])
      BY <1>1, <1>2, <1>6, InsertTable
    <2>2. /\ DOMAIN i.byToken = DOMAIN s.byToken \cup {t} /\ i.byToken[t] = root /\ i.gen = t
          /\ \A u \in DOMAIN s.byToken : u # t => i.byToken[u] = s.byToken[u]
      BY DEF Insert
    <2>3. root \in DOMAIN i.byName /\ i.byName[root].token = t
      BY <2>1, <2>2, TokenNode
    <2>4. KeepsFirm(s, i, {})
      <3> SUFFICES ASSUME NEW u \in DOMAIN s.byToken, Firm(s, u)
                   PROVE  Firm(i, u) /\ i.byToken[u] = s.byToken[u]
        BY DEF KeepsFirm
      <3>1. u # t /\ s.byToken[u] \in LockedIn(s)
        BY <1>1, <1>5, TokenNode
      <3> QED BY <2>1, <2>2, <3>1 DEF Firm, SameLock
    <2>5. dur = -1 => Firm(i, t)
      <3>1. root \notin HeldIn(i)
        BY <1>1, <2>1 DEF Table
      <3>2. i.byName[root].dur = dur
        <4>1. PICK h : h = IF root \in DOMAIN s.byName THEN s.byName[root] ELSE NewNode
          OBVIOUS
        <4>2. h \in Node
          BY <1>1, <4>1 DEF Table, TableType, NewNode, Node, NoToken
        <4>3. PICK g : g = [h EXCEPT !.ref = @ + 1]
          OBVIOUS
        <4>4. g \in Node
          BY <4>2, <4>3 DEF Node
        <4>5. i.byName[root] = [g EXCEPT !.token = t, !.dur = dur, !.zero = zero,
                                         !.expiry = IF dur >= 0 THEN now + dur ELSE @]
          BY <2>3, <4>1, <4>3 DEF Insert
        <4> QED BY <4>4, <4>5 DEF Node
      <3> QED BY <2>2, <2>3, <3>1, <3>2 DEF Firm, HeldIn
    <2>6. KeepsFirm(ls, i, {})
      BY <1>1, <2>4 DEF Keeps, KeepsFirm, Firm
    <2> QED BY <1>1, <1>3, <1>4, <1>5, <1>6, <2>2, <2>5, <2>6 DEF Keeps
  <1>7. CASE ~CanCreate(s, root, zero)
    BY <1>1, <1>3, <1>4, <1>7 DEF Keeps
  <1> QED BY <1>6, <1>7

\* Refresh and Unlock leave the firm locks of other tokens alone, and Unlock
\* removes a firm one.
LEMMA RefreshTokens ==
  ASSUME IInv, NEW now \in 0 .. clock, NEW t, NEW dur \in Durations, Refresh(now, t, dur)
  PROVE  IInv' /\ UNCHANGED <<claims, clock>> /\ Keeps(ls, ls', {t})
PROOF
  <1> DEFINE s == Collect(ls, now)
             n == s.byToken[t]
             r == Renew(s, now, n, dur)
  <1>1. Table(s) /\ Keeps(ls, s, {t})
    BY CollectKeeps, CollectQuiet DEF IInv
  <1>2. IInv'
    BY RefreshStep
  <1>3. /\ UNCHANGED <<claims, clock>>
        /\ ls' = IF t \notin DOMAIN s.byToken \/ s.byName[n].held THEN s ELSE r
    BY DEF Refresh
  <1> HIDE DEF s
  <1>4. CASE t \notin DOMAIN s.byToken \/ s.byName[n].held
    BY <1>1, <1>2, <1>3, <1>4
  <1>5. CASE t \in DOMAIN s.byToken /\ ~s.byName[n].held
    <2>1. r.byToken = s.byToken /\ r.gen = s.gen
      BY DEF Renew
    <2>2. ASSUME NEW u \in DOMAIN s.byToken, u # t
          PROVE  r.byName[s.byToken[u]] = s.byName[s.byToken[u]]
      BY <1>1, <1>5, <2>2, TokenNode DEF Renew
    <2>3. Keeps(s, r, {t})
      BY <2>1, <2>2 DEF Keeps, KeepsFirm, Firm
    <2> QED BY <1>1, <1>2, <1>3, <1>5, <2>3, KeepsTwice
  <1> QED BY <1>4, <1>5

LEMMA UnlockTokens ==
  ASSUME IInv, NEW now \in 0 .. clock, NEW t, Unlock(now, t)
  PROVE  /\ IInv' /\ UNCHANGED <<claims, clock>> /\ Keeps(ls, ls', {t})
         /\ Firm(ls, t) => t \notin DOMAIN ls'.byToken
PROOF
  <1> DEFINE s == Collect(ls, now)
             n == s.byToken[t]
             r == Remove(s, {n})
  <1>1. Table(s) /\ Keeps(ls, s, {t}) /\ Keeps(ls, s, {})
    BY CollectKeeps, CollectQuiet DEF IInv
  <1>2. IInv'
    BY UnlockStep
  <1>3. /\ UNCHANGED <<claims, clock>>
        /\ ls' = IF t \notin DOMAIN s.byToken \/ s.byName[n].held THEN s ELSE r
    BY DEF Unlock
  <1>4. Firm(ls, t) => Firm(s, t)
    BY <1>1 DEF Keeps, KeepsFirm, Firm
  <1> HIDE DEF s
  <1>5. CASE t \notin DOMAIN s.byToken \/ s.byName[n].held
    BY <1>1, <1>2, <1>3, <1>4, <1>5 DEF Firm
  <1>6. CASE t \in DOMAIN s.byToken /\ ~s.byName[n].held
    <2>1. {n} \subseteq LockedIn(s) \ HeldIn(s)
      BY <1>1, <1>6, TokenNode DEF HeldIn
    <2>2. Table(r) /\ Drops(s, r) /\ LockedIn(r) = LockedIn(s) \ {n}
      BY <1>1, <2>1, RemoveTable
    <2>3. \A u \in DOMAIN s.byToken \ {t} : s.byToken[u] \in LockedIn(r)
      BY <1>1, <1>6, <2>2, TokenNode
    <2>4. Keeps(s, r, {t})
      BY <1>1, <2>2, <2>3, DropsKeeps
    <2>5. t \notin DOMAIN r.byToken
      <3>1. ASSUME t \in DOMAIN r.byToken PROVE FALSE
        <4>1. PICK m : m = r.byToken[t]
          OBVIOUS
        <4>2. m \in LockedIn(r) /\ r.byName[m].token = t
          BY <2>2, <3>1, <4>1, TokenNode
        <4>3. m \in LockedIn(s) /\ s.byName[m].token = t /\ m # n
          BY <2>2, <4>2 DEF Drops, SameLock
        <4>4. s.byToken[t] = m
          BY <1>1, <4>3 DEF Table, Tokens
        <4> QED BY <4>3, <4>4
      <3> QED BY <3>1
    <2> QED BY <1>1, <1>2, <1>3, <1>6, <2>4, <2>5, KeepsTwice
  <1> QED BY <1>5, <1>6

\* A failed confirmation keeps every firm lock.
LEMMA FailsTokens ==
  ASSUME IInv, NEW now, NEW name0, NEW name1, NEW conds, NEW T,
         ConfirmFails(now, name0, name1, conds)
  PROVE  IInv' /\ UNCHANGED <<claims, clock>> /\ Keeps(ls, ls', T)
PROOF
  <1>1. ls' = Collect(ls, now) /\ UNCHANGED <<claims, clock>>
    BY DEF ConfirmFails
  <1> QED BY <1>1, CollectQuiet, QuietStep, CollectKeeps DEF IInv

\* There is one claim more, to the names given.
NewClaim(names) ==
  \E k : k \notin claims /\ claims' = claims \cup {k} /\ k.names = names

\* Confirm holds locks of the presented tokens only, and makes a new claim.
LEMMA HoldsTokens ==
  ASSUME IInv, NEW now \in 0 .. clock,
         NEW name0 \in Names \cup {NoName}, NEW name1 \in Names \cup {NoName},
         Named(name0, name1) # {}, NEW conds, NEW T,
         \A i \in DOMAIN conds : conds[i] \in T,
         ConfirmHolds(now, name0, name1, conds)
  PROVE  /\ IInv' /\ UNCHANGED clock /\ Keeps(ls, ls', T)
         /\ NewClaim(Named(name0, name1))
PROOF
  <1> DEFINE s == Collect(ls, now)
             Q == Named(name0, name1)
             N == UNION {Found(s, name, conds) : name \in Q}
             r == Hold(s, N)
             new == [names |-> Q, nodes |-> N]
  <1>1. Table(s) /\ Quiet(ls, s) /\ Keeps(ls, s, T)
    BY CollectKeeps, CollectQuiet DEF IInv
  <1>2. IInv'
    BY ConfirmHoldsStep
  <1>3. /\ \A name \in Q : Found(s, name, conds) # {}
        /\ ls' = r /\ claims' = claims \cup {new} /\ clock' = clock
    BY DEF ConfirmHolds
  <1>4. Q \subseteq Names /\ Q # {}
    BY DEF Named
  <1> HIDE DEF s
  <1>5. N \cap HeldIn(s) = {} /\ N # {}
    BY <1>1, <1>3, <1>4, FoundFree
  <1>6. new \notin claims
    <2>1. \A k \in claims : k.nodes \subseteq HeldIn(ls)
      BY DEF IInv, ClaimsIn
    <2>2. new.nodes = N /\ HeldIn(s) = HeldIn(ls)
      BY <1>1 DEF Quiet
    <2> QED BY <1>5, <2>1, <2>2
  <1>7. ASSUME NEW n \in N PROVE \E t \in T : t \in DOMAIN s.byToken /\ n = s.byToken[t]
    BY <1>7 DEF Found, Matches
  <1>8. Keeps(s, r, T)
    <2>1. r.byToken = s.byToken /\ r.gen = s.gen
      BY DEF Hold
    <2>2. ASSUME NEW u \in DOMAIN s.byToken \ T
          PROVE  r.byName[s.byToken[u]] = s.byName[s.byToken[u]]
      <3>1. s.byToken[u] \notin N /\ s.byToken[u] \in DOMAIN s.byName
        BY <1>1, <1>7, TokenNode
      <3> HIDE DEF N
      <3> QED BY <3>1 DEF Hold
    <2> QED BY <2>1, <2>2 DEF Keeps, KeepsFirm, Firm
  <1>9. new.names = Q
    OBVIOUS
  <1>10. NewClaim(Q)
    BY <1>3, <1>6, <1>9 DEF NewClaim
  <1> HIDE DEF Q
  <1> QED BY <1>1, <1>2, <1>3, <1>8, <1>10, KeepsTwice DEF Q

\* Releasing a claim concerns locks that were held.
LEMMA ReleaseTokens ==
  ASSUME IInv, NEW k \in claims, Release(k), NEW T
  PROVE  /\ IInv' /\ UNCHANGED clock /\ Keeps(ls, ls', T)
         /\ claims' = claims \ {k}
PROOF
  <1> DEFINE r == Unhold(ls, k.nodes)
  <1>1. ls' = r /\ claims' = claims \ {k} /\ clock' = clock
    BY DEF Release
  <1>2. Table(ls) /\ k.nodes \subseteq HeldIn(ls)
    BY DEF IInv, ClaimsIn
  <1>3. r.byToken = ls.byToken /\ r.gen = ls.gen
    BY DEF Unhold
  <1>4. ASSUME NEW u \in DOMAIN ls.byToken, Firm(ls, u)
        PROVE  r.byName[ls.byToken[u]] = ls.byName[ls.byToken[u]]
    <2>1. ls.byToken[u] \notin k.nodes /\ ls.byToken[u] \in DOMAIN ls.byName
      BY <1>2, <1>4, TokenNode DEF Firm, HeldIn
    <2> QED BY <2>1 DEF Unhold
  <1>5. Keeps(ls, r, T)
    BY <1>3, <1>4 DEF Keeps, KeepsFirm, Firm
  <1> QED BY <1>1, <1>5, ReleaseStep

-----------------------------------------------------------------------------
(* The invariant, about a request q                                         *)

Request == [pc : {"idle", "lockSrc", "lockDst", "confirm", "work", "unlockSrc"},
            src : Names \cup {NoName}, dst : Names \cup {NoName}, roots : SUBSET Names,
            touches : SUBSET Names, lists : Nat, lsrc : Names \cup {NoName}, srcToken : Nat, dstToken : Nat,
            claim : SUBSET [names : SUBSET Names, nodes : SUBSET Names]]

\* The tokens of its temporary locks
Temps(q) == {q.srcToken, q.dstToken} \ {NoToken}

\* Which tokens and claims it has at each step
Stage(q) ==
  /\ q.pc = "idle" => q = Idle
  /\ q.pc \in {"lockSrc", "confirm"} => q.srcToken = NoToken
  /\ q.pc # "work" => q.dstToken = NoToken /\ q.claim = {}
  /\ q.claim # {} => Temps(q) = {}
  /\ q.srcToken # NoToken => q.dstToken # q.srcToken
  /\ q.pc = "lockSrc" => q.src # NoName
  /\ q.pc = "lockDst" => q.dst # NoName
  /\ q.pc = "confirm" => {q.src, q.dst} # {NoName}

\* Without a claim it locks each name it has before it works.
Armed(q) ==
  /\ q.pc = "lockDst" \/ (q.pc = "work" /\ q.claim = {}) =>
       (q.src # NoName => q.srcToken # NoToken)
  /\ q.pc = "work" /\ q.claim = {} => (q.dst # NoName => q.dstToken # NoToken)

\* Its temporary locks are firm and on the names it has.
Backed(s, q) ==
  /\ \A t \in Temps(q) : Firm(s, t)
  /\ q.srcToken # NoToken => s.byToken[q.srcToken] = q.src
  /\ q.dstToken # NoToken => s.byToken[q.dstToken] = q.dst

\* The names it confirms are those of its claim, if it has one, and its resources, unless the
\* one it begins with is not the one it confirms.
Aims(q) ==
  /\ q.src \in q.roots \cup {NoName} => q.roots \subseteq Named(q.src, q.dst)
  /\ q.claim = {} => q.lsrc = q.src
  /\ \A k \in q.claim : k.names = Named(q.lsrc, q.dst)

\* What is true of a request by itself
Sound(s, q) == q \in Request /\ Stage(q) /\ Armed(q) /\ Backed(s, q) /\ Aims(q)

Own(c) == mine[c] \cup Temps(req[c])

\* Every token of the table is one client's or one request's, every claim is one
\* request's.
Owners ==
  /\ \A c \in Clients : Own(c) \subseteq 1 .. ls.gen /\ mine[c] \cap Temps(req[c]) = {}
  /\ \A b, c \in Clients : b # c => Own(b) \cap Own(c) = {}
  /\ \A t \in DOMAIN ls.byToken : \E c \in Clients : t \in Own(c)
  /\ \A c \in Clients : req[c].claim \subseteq claims
  /\ \A b, c \in Clients : b # c => req[b].claim \cap req[c].claim = {}

DInv ==
  /\ IInv
  /\ req \in [Clients -> Request] /\ mine \in [Clients -> SUBSET Nat]
  /\ Owners
  /\ \A c \in Clients : Sound(ls, req[c])

-----------------------------------------------------------------------------
\* A turn of client c: its request becomes q and its tokens M, by way of tokens
\* of its own or new ones, and of those that LOCK has returned to any client.
Turn(c, q, M) ==
  LET new == ls.gen + 1 .. ls'.gen IN
  /\ IInv'
  /\ req' = [req EXCEPT ![c] = q] /\ mine' = [mine EXCEPT ![c] = M]
  /\ Sound(ls', q) /\ M \subseteq Nat
  /\ ls'.gen >= ls.gen
  /\ DOMAIN ls'.byToken \subseteq DOMAIN ls.byToken \cup new
  /\ M \cup Temps(q) \subseteq Own(c) \cup new /\ M \cap Temps(q) = {}
  /\ \A t \in DOMAIN ls'.byToken : t \in Own(c) \cup new => t \in M \cup Temps(q)
  /\ KeepsFirm(ls, ls', Own(c) \cup Known)
  /\ q.claim \subseteq claims' /\ claims \ req[c].claim \subseteq claims'
  /\ q.claim \cap claims \subseteq req[c].claim

\* The other clients do not notice.
LEMMA TurnStep ==
  ASSUME DInv, NEW c \in Clients, NEW q, NEW M, Turn(c, q, M)
  PROVE  DInv'
PROOF
  <1> DEFINE new == ls.gen + 1 .. ls'.gen
  <1>0. /\ IInv' /\ Sound(ls', q) /\ M \subseteq Nat /\ q \in Request
        /\ req' = [req EXCEPT ![c] = q] /\ mine' = [mine EXCEPT ![c] = M]
    BY DEF Turn, Sound
  <1>1. req \in [Clients -> Request] /\ mine \in [Clients -> SUBSET Nat]
    BY DEF DInv
  <1>2. req' \in [Clients -> Request] /\ mine' \in [Clients -> SUBSET Nat]
    BY <1>0, <1>1
  <1>3. req'[c] = q /\ mine'[c] = M /\ \A b \in Clients \ {c} : req'[b] = req[b] /\ mine'[b] = mine[b]
    BY <1>0, <1>1
  <1>4. \A b \in Clients : Own(b)' = mine'[b] \cup Temps(req'[b])
    BY DEF Own, Temps
  <1>5. Own(c)' = M \cup Temps(q) /\ \A b \in Clients \ {c} : Own(b)' = Own(b)
    BY <1>3, <1>4 DEF Own
  <1>6. ls.gen \in Nat /\ ls'.gen \in Nat /\ ls'.gen >= ls.gen
    BY <1>0 DEF Turn, DInv, IInv, Table, TableType
  <1>7. /\ \A b \in Clients : Own(b) \subseteq 1 .. ls.gen
        /\ \A b, d \in Clients : b # d => Own(b) \cap Own(d) = {}
    BY DEF DInv, Owners
  <1>8. Own(c)' \subseteq Own(c) \cup new
    BY <1>5 DEF Turn
  <1>9. Owners'
    <2>1. \A b \in Clients : Own(b)' \subseteq 1 .. ls'.gen
      BY <1>5, <1>6, <1>7, <1>8
    <2>2. \A b \in Clients : mine'[b] \cap Temps(req'[b]) = {}
      BY <1>3 DEF DInv, Owners, Turn
    <2>3. \A b \in Clients \ {c} : Own(b) \cap Own(c)' = {}
      <3>1. \A b \in Clients : Own(b) \cap new = {}
        BY <1>6, <1>7
      <3> HIDE DEF new
      <3> QED BY <1>7, <1>8, <3>1
    <2>4. \A b, d \in Clients : b # d => Own(b)' \cap Own(d)' = {}
      BY <1>5, <1>7, <2>3
    <2>5. ASSUME NEW t \in DOMAIN ls'.byToken PROVE \E b \in Clients : t \in Own(b)'
      <3>1. t \in DOMAIN ls.byToken \cup new
        BY DEF Turn
      <3>2. CASE t \in Own(c) \cup new
        BY <1>5, <3>2 DEF Turn
      <3>3. CASE t \notin Own(c) \cup new
        <4>1. PICK b \in Clients : t \in Own(b)
          BY <3>1, <3>3 DEF DInv, Owners
        <4> QED BY <1>5, <3>3, <4>1
      <3> QED BY <3>2, <3>3
    <2>6. \A b \in Clients : req[b].claim \subseteq claims
      BY DEF DInv, Owners
    <2>7. \A b, d \in Clients : b # d => req[b].claim \cap req[d].claim = {}
      BY DEF DInv, Owners
    <2>8. /\ q.claim \subseteq claims' /\ claims \ req[c].claim \subseteq claims'
          /\ q.claim \cap claims \subseteq req[c].claim
      BY DEF Turn
    <2>9. \A b \in Clients : req'[b].claim \subseteq claims'
      BY <1>3, <2>6, <2>7, <2>8
    <2>10. \A b \in Clients \ {c} : req[b].claim \cap q.claim = {}
      BY <2>6, <2>7, <2>8
    <2>11. \A b, d \in Clients : b # d => req'[b].claim \cap req'[d].claim = {}
      BY <1>3, <2>7, <2>10
    <2> QED BY <2>1, <2>2, <2>4, <2>5, <2>9, <2>11 DEF Owners, Temps
  <1>10. ASSUME NEW b \in Clients PROVE Sound(ls', req'[b])
    <2>1. CASE b = c
      BY <1>0, <1>3, <2>1
    <2>2. CASE b # c
      <3>1. Sound(ls, req[b]) /\ req'[b] = req[b] /\ mine'[b] = mine[b]
        BY <1>3, <2>2 DEF DInv
      <3>0. Temps(req[b]) \cap (Own(c) \cup Known) = {}
        <4>1. ASSUME NEW a \in Clients PROVE Temps(req[b]) \cap mine[a] = {}
          BY <1>7 DEF Own, DInv, Owners
        <4> QED BY <1>7, <2>2, <4>1 DEF Own, Known
      <3>2. \A t \in Temps(req[b]) : Firm(ls, t) /\ t \in DOMAIN ls.byToken \ (Own(c) \cup Known)
        BY <3>0, <3>1 DEF Sound, Backed, Firm
      <3>3. \A t \in Temps(req[b]) : Firm(ls', t) /\ ls'.byToken[t] = ls.byToken[t]
        BY <3>2 DEF Turn, KeepsFirm
      <3>4. Backed(ls', req[b])
        BY <3>1, <3>3 DEF Sound, Backed, Temps
      <3> QED BY <3>1, <3>4 DEF Sound
    <2> QED BY <2>1, <2>2
  <1> QED BY <1>0, <1>2, <1>9, <1>10
        DEF DInv, Sound, Backed, Firm, Stage, Armed, Aims, Temps, Request

\* A turn that creates no lock.
LEMMA KeepsTurn ==
  ASSUME DInv, NEW c \in Clients, NEW q \in Request, NEW M,
         IInv', Keeps(ls, ls', Own(c) \cup Known),
         req' = [req EXCEPT ![c] = q], mine' = [mine EXCEPT ![c] = M],
         M \subseteq mine[c], Temps(q) \subseteq Temps(req[c]),
         \A t \in DOMAIN ls'.byToken : t \in Own(c) => t \in M \cup Temps(q),
         Stage(q), Armed(q), Backed(ls', q), Aims(q),
         q.claim \subseteq claims', claims \ req[c].claim \subseteq claims',
         q.claim \cap claims \subseteq req[c].claim
  PROVE  DInv'
PROOF
  <1>1. ls'.gen = ls.gen /\ ls.gen \in Nat
    BY DEF Keeps, DInv, IInv, Table, TableType
  <1>2. (ls.gen + 1 .. ls'.gen) = {}
    BY <1>1
  <1>3. ls'.gen >= ls.gen
    BY <1>1
  <1>4. M \subseteq Nat /\ M \cup Temps(q) \subseteq Own(c) /\ M \cap Temps(q) = {}
    BY DEF Own, DInv, Owners
  <1>5. Sound(ls', q)
    BY DEF Sound
  <1> QED BY <1>2, <1>3, <1>4, <1>5, TurnStep DEF Turn, Keeps

\* The request that is no request has nothing.
LEMMA IdleIsSound ==
  ASSUME NEW s
  PROVE  /\ Idle \in Request /\ Temps(Idle) = {} /\ Idle.claim = {}
         /\ Stage(Idle) /\ Armed(Idle) /\ Backed(s, Idle) /\ Aims(Idle)
PROOF
  <1>1. /\ Idle.pc = "idle" /\ Idle.src = NoName /\ Idle.dst = NoName /\ Idle.roots = {}
        /\ Idle.lsrc = NoName /\ Idle.srcToken = NoToken /\ Idle.dstToken = NoToken
        /\ Idle.claim = {}
    BY DEF Idle
  <1>2. Idle \in Request
    BY DEF Idle, Request, NoToken
  <1>3. Temps(Idle) = {}
    BY <1>1 DEF Temps
  <1> HIDE DEF Idle
  <1> QED BY <1>1, <1>2, <1>3 DEF Stage, Armed, Backed, Aims

\* A client's turn that ends with its request over: no token of it is left.
LEMMA OverTurn ==
  ASSUME DInv, NEW c \in Clients,
         IInv', Keeps(ls, ls', Temps(req[c])),
         req' = [req EXCEPT ![c] = Idle], mine' = mine,
         \A t \in Temps(req[c]) : t \notin DOMAIN ls'.byToken,
         claims \ req[c].claim \subseteq claims'
  PROVE  DInv'
PROOF
  <1>1. mine' = [mine EXCEPT ![c] = mine[c]]
    BY DEF DInv
  <1>2. Keeps(ls, ls', Own(c) \cup Known)
    BY DEF Keeps, KeepsFirm, Own
  <1>3. \A t \in DOMAIN ls'.byToken : t \in Own(c) => t \in mine[c] \cup Temps(Idle)
    BY DEF Own
  <1>4. /\ Idle \in Request /\ Temps(Idle) \subseteq Temps(req[c]) /\ Idle.claim = {}
        /\ Stage(Idle) /\ Armed(Idle) /\ Backed(ls', Idle) /\ Aims(Idle)
    BY IdleIsSound
  <1> HIDE DEF Idle
  <1> QED BY <1>1, <1>2, <1>3, <1>4, KeepsTurn

-----------------------------------------------------------------------------
(* The actions                                                             *)

\* A request begins with what its URL, its destination and its If header say.
LEMMA BeginStep ==
  ASSUME DInv, NEW c \in Clients, NEW src \in Names \cup {NoName}, NEW dst \in Names \cup {NoName},
         {src, dst} # {NoName}, NEW roots \in SUBSET Names, NEW touches \in SUBSET Names,
         src \in roots \cup {NoName} => roots \subseteq Named(src, dst), NEW lists \in Nat,
         Begin(c, src, dst, roots, touches, lists)
  PROVE  DInv'
PROOF
  <1>1. PICK q : q = [Idle EXCEPT !.pc = IF lists > 0 THEN "confirm"
                                         ELSE IF src # NoName THEN "lockSrc" ELSE "lockDst",
                                  !.src = src, !.lsrc = src, !.dst = dst,
                                  !.roots = roots, !.touches = touches, !.lists = lists]
    OBVIOUS
  <1>2. /\ req[c].pc = "idle" /\ req' = [req EXCEPT ![c] = q]
        /\ UNCHANGED <<ls, claims, clock, mine>>
    BY <1>1 DEF Begin, At
  <1>3. q \in Request
    BY <1>1 DEF Idle, Request, NoToken
  <1>4. /\ q.pc = IF lists > 0 THEN "confirm" ELSE IF src # NoName THEN "lockSrc" ELSE "lockDst"
        /\ q.src = src /\ q.dst = dst /\ q.roots = roots /\ q.lsrc = src
        /\ q.srcToken = NoToken /\ q.dstToken = NoToken /\ q.claim = {}
    BY <1>1 DEF Idle
  <1>5. req[c] = Idle /\ Temps(q) = {} /\ Own(c) = mine[c]
    <2>1. req[c] = Idle
      BY <1>2 DEF DInv, Sound, Stage
    <2>2. Temps(Idle) = {}
      BY IdleIsSound
    <2> QED BY <1>4, <2>1, <2>2 DEF Temps, Own
  <1>6. Stage(q) /\ Armed(q) /\ Backed(ls', q) /\ Aims(q)
    BY <1>4, <1>5 DEF Stage, Armed, Backed, Aims
  <1>7. IInv'
    BY <1>2, NextIInv DEF DInv, IInv
  <1>8. Keeps(ls, ls', Own(c) \cup Known) /\ mine' = [mine EXCEPT ![c] = mine[c]]
    BY <1>2 DEF Keeps, KeepsFirm, DInv
  <1>9. \A t \in DOMAIN ls'.byToken : t \in Own(c) => t \in mine[c] \cup Temps(q)
    BY <1>5
  <1>10. Temps(q) \subseteq Temps(req[c]) /\ q.claim \subseteq claims' /\ claims \ req[c].claim \subseteq claims'
         /\ q.claim \cap claims \subseteq req[c].claim
    BY <1>2, <1>4, <1>5
  <1> QED BY <1>2, <1>3, <1>6, <1>7, <1>8, <1>9, <1>10, KeepsTurn

\* confirmLocks without an If header: the lock on the source.
LEMMA LockSrcStep ==
  ASSUME DInv, NEW c \in Clients, LockSrc(c)
  PROVE  DInv'
PROOF
  <1>1. PICK h : h = req[c]
    OBVIOUS
  <1>2. /\ h \in Request /\ Stage(h) /\ Armed(h) /\ Backed(ls, h) /\ Aims(h)
        /\ h.pc = "lockSrc" /\ IInv
    BY <1>1 DEF DInv, Sound, LockSrc, At
  <1>3. /\ h.srcToken = NoToken /\ h.dstToken = NoToken /\ h.claim = {} /\ h.src \in Names
        /\ Temps(h) = {}
    BY <1>2 DEF Stage, Request, Temps
  <1>4. PICK now \in 0 .. clock : Create(now, h.src, -1, TRUE)
    BY <1>1 DEF LockSrc
  <1>5. /\ IInv' /\ UNCHANGED <<claims, clock, mine>>
        /\ KeepsFirm(ls, ls', {})
        /\ \/ ls'.gen = ls.gen /\ DOMAIN ls'.byToken \subseteq DOMAIN ls.byToken
           \/ /\ ls'.gen = ls.gen + 1 /\ ls'.gen \in DOMAIN ls'.byToken
              /\ DOMAIN ls'.byToken \subseteq DOMAIN ls.byToken \cup {ls'.gen}
              /\ ls'.byToken[ls'.gen] = h.src
              /\ Firm(ls', ls'.gen)
    BY <1>2, <1>3, <1>4, CreateTokens DEF LockSrc
  <1>6. ls.gen \in Nat /\ mine' = [mine EXCEPT ![c] = mine[c]] /\ Own(c) = mine[c]
    BY <1>1, <1>2, <1>3, <1>5 DEF IInv, Table, TableType, DInv, Own
  <1>7. CASE ls'.gen = ls.gen
    <2>1. req' = [req EXCEPT ![c] = Idle]
      BY <1>7 DEF LockSrc, Created
    <2>2. Keeps(ls, ls', Temps(req[c]))
      BY <1>1, <1>3, <1>5, <1>6, <1>7 DEF Keeps, KeepsFirm
    <2> QED BY <1>1, <1>3, <1>5, <2>1, <2>2, OverTurn
  <1>8. CASE ls'.gen = ls.gen + 1
    <2>1. PICK g \in Nat : g = ls.gen + 1
      BY <1>6
    <2>2. PICK q : q = [h EXCEPT !.srcToken = g, !.pc = IF h.dst = NoName THEN "work" ELSE "lockDst"]
      OBVIOUS
    <2>3. req' = [req EXCEPT ![c] = q]
      <3>1. Created /\ ls'.gen = g
        BY <1>6, <1>8, <2>1 DEF Created
      <3>2. req' = [req EXCEPT ![c] =
                      [req[c] EXCEPT !.srcToken = ls'.gen,
                                     !.pc = IF req[c].dst = NoName THEN "work" ELSE "lockDst"]]
        BY <3>1 DEF LockSrc
      <3> QED BY <1>1, <2>2, <3>1, <3>2
    <2>4. q \in Request
      BY <1>2, <2>2 DEF Request
    <2>5. /\ q.pc = (IF h.dst = NoName THEN "work" ELSE "lockDst") /\ q.srcToken = g
          /\ q.src = h.src /\ q.dst = h.dst /\ q.roots = h.roots /\ q.lsrc = h.lsrc
          /\ q.dstToken = NoToken /\ q.claim = {}
      BY <1>2, <1>3, <2>2 DEF Request
    <2>6. Temps(q) = {g} /\ g # NoToken
      BY <1>6, <2>1, <2>5 DEF Temps, NoToken
    <2>7. Stage(q) /\ Armed(q) /\ Aims(q)
      BY <1>2, <1>3, <2>5, <2>6 DEF Stage, Armed, Aims
    <2>8. Backed(ls', q)
      BY <1>3, <1>5, <1>6, <1>8, <2>1, <2>5, <2>6 DEF Backed
    <2>9. (ls.gen + 1 .. ls'.gen) = {g}
      BY <1>6, <1>8, <2>1
    <2>10. mine[c] \subseteq Nat /\ g \notin mine[c]
      BY <1>6, <2>1 DEF DInv, Owners, Own
    <2>11. Turn(c, q, mine[c])
      <3>1. Sound(ls', q)
        BY <2>4, <2>7, <2>8 DEF Sound
      <3>2. ls'.gen >= ls.gen /\ KeepsFirm(ls, ls', Own(c) \cup Known) /\ DOMAIN ls'.byToken \subseteq DOMAIN ls.byToken \cup {g}
        BY <1>5, <1>6, <1>8, <2>1 DEF KeepsFirm
      <3>3. /\ mine[c] \cup Temps(q) \subseteq Own(c) \cup {g} /\ mine[c] \cap Temps(q) = {}
            /\ Own(c) \cup {g} \subseteq mine[c] \cup Temps(q)
        BY <1>6, <2>6, <2>10
      <3>4. q.claim \subseteq claims' /\ claims \ req[c].claim \subseteq claims' /\ q.claim \cap claims \subseteq req[c].claim
        BY <1>5, <2>5
      <3> QED BY <1>5, <1>6, <2>3, <2>9, <2>10, <3>1, <3>2, <3>3, <3>4 DEF Turn
    <2> QED BY <2>11, TurnStep
  <1> QED BY <1>5, <1>7, <1>8

\* The lock on the destination; when it is refused, the one on the source has to go.
LEMMA LockDstStep ==
  ASSUME DInv, NEW c \in Clients, LockDst(c)
  PROVE  DInv'
PROOF
  <1>1. PICK h : h = req[c]
    OBVIOUS
  <1>2. /\ h \in Request /\ Stage(h) /\ Armed(h) /\ Backed(ls, h) /\ Aims(h)
        /\ h.pc = "lockDst" /\ IInv
    BY <1>1 DEF DInv, Sound, LockDst, At
  <1>3. /\ h.dstToken = NoToken /\ h.claim = {} /\ h.dst \in Names
        /\ Temps(h) = {h.srcToken} \ {NoToken}
    BY <1>2 DEF Stage, Request, Temps
  <1>4. PICK now \in 0 .. clock : Create(now, h.dst, -1, TRUE)
    BY <1>1 DEF LockDst
  <1>5. /\ IInv' /\ UNCHANGED <<claims, clock, mine>>
        /\ KeepsFirm(ls, ls', {})
        /\ \/ ls'.gen = ls.gen /\ DOMAIN ls'.byToken \subseteq DOMAIN ls.byToken
           \/ /\ ls'.gen = ls.gen + 1 /\ ls'.gen \in DOMAIN ls'.byToken
              /\ DOMAIN ls'.byToken \subseteq DOMAIN ls.byToken \cup {ls'.gen}
              /\ ls'.byToken[ls'.gen] = h.dst
              /\ Firm(ls', ls'.gen)
    BY <1>2, <1>3, <1>4, CreateTokens DEF LockDst
  <1>6. ls.gen \in Nat /\ mine' = [mine EXCEPT ![c] = mine[c]] /\ Own(c) = mine[c] \cup Temps(h)
    BY <1>1, <1>2, <1>5 DEF IInv, Table, TableType, DInv, Own
  <1>7. \A t \in Temps(h) : Firm(ls', t) /\ ls'.byToken[t] = ls.byToken[t]
    BY <1>2, <1>5 DEF KeepsFirm, Backed, Firm
  <1>8. CASE ls'.gen = ls.gen
    <2>0. ~Created
      BY <1>8 DEF Created
    <2>1. Keeps(ls, ls', {}) /\ Keeps(ls, ls', Own(c) \cup Known) /\ Keeps(ls, ls', Temps(req[c]))
      BY <1>5, <1>6, <1>8 DEF Keeps, KeepsFirm
    <2>2. CASE h.srcToken = NoToken
      <3>1. req' = [req EXCEPT ![c] = Idle] /\ Temps(h) = {}
        BY <1>1, <1>3, <2>0, <2>2 DEF LockDst
      <3> QED BY <1>1, <1>5, <2>1, <3>1, OverTurn
    <2>3. CASE h.srcToken # NoToken
      <3>1. PICK q : q = [h EXCEPT !.pc = "unlockSrc"]
        OBVIOUS
      <3>2. req' = [req EXCEPT ![c] = q]
        BY <1>1, <2>0, <2>3, <3>1 DEF LockDst
      <3>3. q \in Request
        BY <1>2, <3>1 DEF Request
      <3>4. /\ q.pc = "unlockSrc" /\ q.srcToken = h.srcToken
            /\ q.src = h.src /\ q.dst = h.dst /\ q.roots = h.roots /\ q.lsrc = h.lsrc
            /\ q.dstToken = NoToken /\ q.claim = {}
        BY <1>2, <1>3, <3>1 DEF Request
      <3>5. Temps(q) = Temps(h)
        BY <1>3, <3>4 DEF Temps
      <3>6. Stage(q) /\ Armed(q) /\ Aims(q)
        BY <1>2, <3>4 DEF Stage, Armed, Aims
      <3>7. Backed(ls', q)
        BY <1>2, <1>3, <1>7, <3>4, <3>5 DEF Backed
      <3>8. \A t \in DOMAIN ls'.byToken : t \in Own(c) => t \in mine[c] \cup Temps(q)
        BY <1>6, <3>5
      <3>9. q.claim \subseteq claims' /\ claims \ req[c].claim \subseteq claims' /\ q.claim \cap claims \subseteq req[c].claim
        BY <1>5, <3>4
      <3> QED BY <1>1, <1>5, <1>6, <2>1, <3>2, <3>3, <3>5, <3>6, <3>7, <3>8, <3>9, KeepsTurn
    <2> QED BY <2>2, <2>3
  <1>9. CASE ls'.gen = ls.gen + 1
    <2>1. PICK g \in Nat : g = ls.gen + 1
      BY <1>6
    <2>2. PICK q : q = [h EXCEPT !.dstToken = g, !.pc = "work"]
      OBVIOUS
    <2>3. req' = [req EXCEPT ![c] = q]
      <3>1. Created /\ ls'.gen = g
        BY <1>6, <1>9, <2>1 DEF Created
      <3>2. req' = [req EXCEPT ![c] = [req[c] EXCEPT !.dstToken = ls'.gen, !.pc = "work"]]
        BY <3>1 DEF LockDst
      <3> QED BY <1>1, <2>2, <3>1, <3>2
    <2>4. q \in Request
      BY <1>2, <2>2 DEF Request
    <2>5. /\ q.pc = "work" /\ q.srcToken = h.srcToken /\ q.dstToken = g
          /\ q.src = h.src /\ q.dst = h.dst /\ q.roots = h.roots /\ q.lsrc = h.lsrc
          /\ q.claim = {}
      BY <1>2, <1>3, <2>2 DEF Request
    <2>6. Temps(q) = Temps(h) \cup {g} /\ g # NoToken
      BY <1>3, <1>6, <2>1, <2>5 DEF Temps, NoToken
    <2>0. h.srcToken # g
      BY <1>1, <1>2, <1>3, <1>6, <2>1, <2>6 DEF DInv, Owners
    <2>7. Stage(q) /\ Armed(q) /\ Aims(q)
      BY <1>2, <1>3, <2>5, <2>6, <2>0 DEF Stage, Armed, Aims
    <2>8. Backed(ls', q)
      BY <1>2, <1>3, <1>5, <1>6, <1>7, <1>9, <2>1, <2>5, <2>6 DEF Backed
    <2>9. (ls.gen + 1 .. ls'.gen) = {g}
      BY <1>6, <1>9, <2>1
    <2>10. mine[c] \subseteq Nat /\ g \notin mine[c] /\ mine[c] \cap Temps(h) = {}
      BY <1>1, <1>6, <2>1 DEF DInv, Owners, Own
    <2>11. Turn(c, q, mine[c])
      <3>1. Sound(ls', q)
        BY <2>4, <2>7, <2>8 DEF Sound
      <3>2. ls'.gen >= ls.gen /\ KeepsFirm(ls, ls', Own(c) \cup Known) /\ DOMAIN ls'.byToken \subseteq DOMAIN ls.byToken \cup {g}
        BY <1>5, <1>6, <1>9, <2>1 DEF KeepsFirm
      <3>3. /\ mine[c] \cup Temps(q) \subseteq Own(c) \cup {g} /\ mine[c] \cap Temps(q) = {}
            /\ Own(c) \cup {g} \subseteq mine[c] \cup Temps(q)
        BY <1>6, <2>6, <2>10
      <3>4. q.claim \subseteq claims' /\ claims \ req[c].claim \subseteq claims' /\ q.claim \cap claims \subseteq req[c].claim
        BY <1>5, <2>5
      <3> QED BY <1>5, <1>6, <2>3, <2>9, <2>10, <3>1, <3>2, <3>3, <3>4 DEF Turn
    <2> QED BY <2>11, TurnStep
  <1> QED BY <1>5, <1>8, <1>9

\* confirmLocks with an If header: the first list that holds is claimed; when the
\* last one fails the request is over.
LEMMA ConfirmListStep ==
  ASSUME DInv, NEW c \in Clients, ConfirmList(c)
  PROVE  DInv'
PROOF
  <1>1. PICK h : h = req[c]
    OBVIOUS
  <1>2. /\ h \in Request /\ Stage(h) /\ Armed(h) /\ Backed(ls, h) /\ Aims(h)
        /\ h.pc = "confirm" /\ IInv
    BY <1>1 DEF DInv, Sound, ConfirmList, At
  <1>3. /\ h.srcToken = NoToken /\ h.dstToken = NoToken /\ h.claim = {} /\ Temps(h) = {}
        /\ {h.src, h.dst} # {NoName} /\ h.lists \in Nat
        /\ h.src \in Names \cup {NoName} /\ h.dst \in Names \cup {NoName}
    BY <1>2 DEF Stage, Temps, Request
  <1>4. mine' = [mine EXCEPT ![c] = mine[c]] /\ mine' = mine /\ Own(c) = mine[c]
    BY <1>1, <1>3 DEF ConfirmList, DInv, Own
  <1>5. PICK lsrc \in Subjects(c), conds \in Conds, now \in 0 .. clock :
          \/ /\ ConfirmHolds(now, lsrc, h.dst, conds)
             /\ req' = [req EXCEPT ![c] =
                  [h EXCEPT !.pc = "work", !.lists = 0, !.lsrc = lsrc, !.claim = claims' \ claims]]
          \/ /\ ConfirmFails(now, lsrc, h.dst, conds)
             /\ req' = [req EXCEPT ![c] =
                  IF h.lists > 1 THEN [h EXCEPT !.lists = @ - 1] ELSE Idle]
    BY <1>1 DEF ConfirmList
  <1>6. lsrc \in Names \cup {NoName} /\ Named(lsrc, h.dst) # {}
    <2>1. lsrc \in Names \/ lsrc = h.src
      BY <1>1 DEF Subjects
    <2> QED BY <1>3, <2>1, MemLSAssumption DEF Named
  <1>7. \A i \in DOMAIN conds : conds[i] \in Known
    BY DEF Conds
  <1>8. CASE /\ ConfirmHolds(now, lsrc, h.dst, conds)
             /\ req' = [req EXCEPT ![c] =
                  [h EXCEPT !.pc = "work", !.lists = 0, !.lsrc = lsrc, !.claim = claims' \ claims]]
    <2>1. IInv' /\ UNCHANGED clock /\ Keeps(ls, ls', Known) /\ NewClaim(Named(lsrc, h.dst))
      <3>1. ConfirmHolds(now, lsrc, h.dst, conds)
        BY <1>8
      <3> QED BY <1>2, <1>3, <1>6, <1>7, <3>1, HoldsTokens
    <2>2. PICK k : k \notin claims /\ claims' = claims \cup {k} /\ k.names = Named(lsrc, h.dst)
      BY <2>1 DEF NewClaim
    <2>3. claims' \ claims = {k} /\ k \in [names : SUBSET Names, nodes : SUBSET Names]
      BY <2>1, <2>2 DEF IInv
    <2>4. PICK q : q = [h EXCEPT !.pc = "work", !.lists = 0, !.lsrc = lsrc, !.claim = {k}]
      OBVIOUS
    <2>5. req' = [req EXCEPT ![c] = q]
      BY <1>8, <2>3, <2>4
    <2>6. q \in Request
      BY <1>2, <1>6, <2>3, <2>4 DEF Request
    <2>7. /\ q.pc = "work" /\ q.srcToken = NoToken /\ q.dstToken = NoToken
          /\ q.src = h.src /\ q.dst = h.dst /\ q.roots = h.roots /\ q.lsrc = lsrc
          /\ q.claim = {k}
      BY <1>2, <1>3, <2>4 DEF Request
    <2>8. Temps(q) = {}
      BY <2>7 DEF Temps
    <2>9. Stage(q) /\ Armed(q) /\ Backed(ls', q)
      BY <1>2, <2>7, <2>8 DEF Stage, Armed, Backed
    <2>10. Aims(q)
      BY <1>2, <2>2, <2>7 DEF Aims
    <2>11. \A t \in DOMAIN ls'.byToken : t \in Own(c) => t \in mine[c] \cup Temps(q)
      BY <1>4
    <2>12. q.claim \subseteq claims' /\ claims \ req[c].claim \subseteq claims' /\ q.claim \cap claims \subseteq req[c].claim
      BY <2>2, <2>7
    <2>13. Keeps(ls, ls', Own(c) \cup Known)
      BY <2>1 DEF Keeps, KeepsFirm
    <2> QED BY <1>1, <1>3, <1>4, <2>1, <2>5, <2>6, <2>8, <2>9, <2>10, <2>11, <2>12, <2>13, KeepsTurn
  <1>9. CASE /\ ConfirmFails(now, lsrc, h.dst, conds)
             /\ req' = [req EXCEPT ![c] = IF h.lists > 1 THEN [h EXCEPT !.lists = @ - 1] ELSE Idle]
    <2>1. /\ IInv' /\ UNCHANGED <<claims, clock>>
          /\ Keeps(ls, ls', Own(c) \cup Known) /\ Keeps(ls, ls', Temps(req[c]))
      BY <1>2, <1>9, FailsTokens
    <2>2. CASE h.lists > 1
      <3>1. PICK q : q = [h EXCEPT !.lists = @ - 1]
        OBVIOUS
      <3>2. req' = [req EXCEPT ![c] = q]
        BY <1>9, <2>2, <3>1
      <3>3. q \in Request
        <4>1. h.lists - 1 \in Nat
          BY <1>3, <2>2
        <4> QED BY <1>2, <3>1, <4>1 DEF Request
      <3>4. /\ q.pc = "confirm" /\ q.srcToken = NoToken /\ q.dstToken = NoToken
            /\ q.src = h.src /\ q.dst = h.dst /\ q.roots = h.roots /\ q.lsrc = h.lsrc
            /\ q.claim = {}
        BY <1>2, <1>3, <3>1 DEF Request
      <3>5. Temps(q) = {}
        BY <3>4 DEF Temps
      <3>6. Stage(q) /\ Armed(q) /\ Backed(ls', q) /\ Aims(q)
        BY <1>2, <1>3, <3>4, <3>5 DEF Stage, Armed, Backed, Aims
      <3>7. \A t \in DOMAIN ls'.byToken : t \in Own(c) => t \in mine[c] \cup Temps(q)
        BY <1>4
      <3>8. q.claim \subseteq claims' /\ claims \ req[c].claim \subseteq claims' /\ q.claim \cap claims \subseteq req[c].claim
        BY <2>1, <3>4
      <3> QED BY <1>1, <1>3, <1>4, <2>1, <3>2, <3>3, <3>5, <3>6, <3>7, <3>8, KeepsTurn
    <2>3. CASE ~(h.lists > 1)
      <3>1. req' = [req EXCEPT ![c] = Idle]
        BY <1>9, <2>3
      <3> QED BY <1>1, <1>3, <1>4, <2>1, <3>1, OverTurn
    <2> QED BY <2>2, <2>3
  <1> QED BY <1>5, <1>8, <1>9

\* The request is done: it releases its claim.
LEMMA ReleaseClaimStep ==
  ASSUME DInv, NEW c \in Clients, ReleaseClaim(c)
  PROVE  DInv'
PROOF
  <1>1. Stage(req[c]) /\ IInv /\ req[c].claim \subseteq claims
    BY DEF DInv, Sound, Owners
  <1>2. PICK k \in req[c].claim : Release(k)
    BY DEF ReleaseClaim
  <1>3. IInv' /\ UNCHANGED clock /\ Keeps(ls, ls', Temps(req[c])) /\ claims' = claims \ {k}
    BY <1>1, <1>2, ReleaseTokens
  <1>4. Temps(req[c]) = {}
    BY <1>1 DEF Stage, ReleaseClaim
  <1>5. req' = [req EXCEPT ![c] = Idle] /\ mine' = mine
    BY DEF ReleaseClaim
  <1> QED BY <1>2, <1>3, <1>4, <1>5, OverTurn

\* NoToken is no token of the table.
LEMMA NoTokenIsNone == IInv => NoToken \notin DOMAIN ls.byToken
PROOF
  BY DEF IInv, Table, TableType, NoToken

\* The request is done: it unlocks the destination
LEMMA UnlockDstStep ==
  ASSUME DInv, NEW c \in Clients, UnlockDst(c)
  PROVE  DInv'
PROOF
  <1>1. PICK h : h = req[c]
    OBVIOUS
  <1>2. /\ h \in Request /\ Stage(h) /\ Backed(ls, h) /\ Aims(h)
        /\ h.pc = "work" /\ h.dstToken # NoToken /\ IInv
    BY <1>1 DEF DInv, Sound, UnlockDst, At
  <1>3. h.claim = {} /\ Temps(h) = {h.srcToken, h.dstToken} \ {NoToken}
    BY <1>2 DEF Stage, Temps
  <1>4. PICK now \in 0 .. clock : Unlock(now, h.dstToken)
    BY <1>1 DEF UnlockDst
  <1>5. /\ IInv' /\ UNCHANGED <<claims, clock, mine>> /\ Keeps(ls, ls', {h.dstToken})
        /\ h.dstToken \notin DOMAIN ls'.byToken
    BY <1>2, <1>3, <1>4, UnlockTokens DEF Backed, UnlockDst
  <1>6. h.srcToken # h.dstToken
    BY <1>2 DEF Stage
  <1>7. mine' = [mine EXCEPT ![c] = mine[c]] /\ Own(c) = mine[c] \cup Temps(h)
    BY <1>1, <1>5 DEF DInv, Own
  <1>8. CASE h.srcToken = NoToken
    <2>1. req' = [req EXCEPT ![c] = Idle] /\ Temps(h) = {h.dstToken}
      BY <1>1, <1>2, <1>3, <1>8 DEF UnlockDst
    <2> QED BY <1>1, <1>5, <2>1, OverTurn
  <1>9. CASE h.srcToken # NoToken
    <2>1. PICK q : q = [h EXCEPT !.pc = "unlockSrc", !.dstToken = NoToken]
      OBVIOUS
    <2>2. req' = [req EXCEPT ![c] = q]
      BY <1>1, <1>9, <2>1 DEF UnlockDst
    <2>3. q \in Request
      BY <1>2, <2>1 DEF Request, NoToken
    <2>4. /\ q.pc = "unlockSrc" /\ q.srcToken = h.srcToken /\ q.dstToken = NoToken
          /\ q.src = h.src /\ q.dst = h.dst /\ q.roots = h.roots /\ q.lsrc = h.lsrc
          /\ q.claim = {}
      BY <1>2, <1>3, <2>1 DEF Request
    <2>5. Temps(q) = {h.srcToken}
      BY <1>9, <2>4 DEF Temps
    <2>6. Firm(ls', h.srcToken) /\ ls'.byToken[h.srcToken] = ls.byToken[h.srcToken]
      BY <1>2, <1>3, <1>5, <1>6, <1>9 DEF Backed, Keeps, KeepsFirm, Firm
    <2>7. Stage(q) /\ Armed(q) /\ Aims(q) /\ Backed(ls', q)
      <3>1. Stage(q) /\ Armed(q)
        BY <1>2, <1>9, <2>4, <2>5 DEF Stage, Armed
      <3>2. Aims(q)
        BY <1>2, <1>3, <2>4 DEF Aims
      <3>3. Backed(ls', q)
        BY <1>2, <1>9, <2>4, <2>5, <2>6 DEF Backed
      <3> QED BY <3>1, <3>2, <3>3
    <2>8. \A t \in DOMAIN ls'.byToken : t \in Own(c) => t \in mine[c] \cup Temps(q)
      BY <1>3, <1>5, <1>7, <2>5
    <2>9. Keeps(ls, ls', Own(c) \cup Known)
      BY <1>2, <1>3, <1>5, <1>7 DEF Keeps, KeepsFirm
    <2>10. q.claim \subseteq claims' /\ claims \ req[c].claim \subseteq claims' /\ q.claim \cap claims \subseteq req[c].claim
      BY <1>5, <2>4
    <2>11. Temps(q) \subseteq Temps(req[c])
      BY <1>1, <1>3, <1>9, <2>5
    <2> QED BY <1>5, <1>7, <2>2, <2>3, <2>7, <2>8, <2>9, <2>10, <2>11, KeepsTurn
  <1> QED BY <1>8, <1>9

\* and then the source.
LEMMA UnlockSrcStep ==
  ASSUME DInv, NEW c \in Clients, UnlockSrc(c)
  PROVE  DInv'
PROOF
  <1>1. PICK h : h = req[c]
    OBVIOUS
  <1>2. /\ h \in Request /\ Stage(h) /\ Backed(ls, h) /\ IInv
        /\ h.pc = "unlockSrc" \/ (h.pc = "work" /\ h.claim = {} /\ h.dstToken = NoToken)
    BY <1>1 DEF DInv, Sound, UnlockSrc, At
  <1>3. h.claim = {} /\ Temps(h) = {h.srcToken} \ {NoToken}
    BY <1>2 DEF Stage, Temps
  <1>4. PICK now \in 0 .. clock : Unlock(now, h.srcToken)
    BY <1>1 DEF UnlockSrc
  <1>5. /\ IInv' /\ UNCHANGED <<claims, clock>> /\ Keeps(ls, ls', {h.srcToken})
        /\ Firm(ls, h.srcToken) => h.srcToken \notin DOMAIN ls'.byToken
    BY <1>2, <1>4, UnlockTokens
  <1>6. \A t \in Temps(h) : t \notin DOMAIN ls'.byToken
    BY <1>2, <1>3, <1>5 DEF Backed
  <1>7. Keeps(ls, ls', Temps(h))
    BY <1>2, <1>3, <1>5, NoTokenIsNone DEF Keeps, KeepsFirm
  <1>8. req' = [req EXCEPT ![c] = Idle] /\ mine' = mine
    BY DEF UnlockSrc
  <1> QED BY <1>1, <1>5, <1>6, <1>7, <1>8, OverTurn

\* A client without a request, whose tokens become M.
LEMMA IdleClient ==
  ASSUME DInv, NEW c \in Clients, At(c, "idle"), NEW M, mine' = [mine EXCEPT ![c] = M], req' = req
  PROVE  /\ req[c] = Idle /\ Own(c) = mine[c] /\ req' = [req EXCEPT ![c] = Idle]
         /\ Sound(ls', Idle) /\ mine[c] \subseteq 1 .. ls.gen
PROOF
  <1>1. req[c] = Idle /\ req \in [Clients -> Request]
    BY DEF DInv, Sound, Stage, At
  <1>2. Temps(Idle) = {} /\ Sound(ls', Idle)
    BY IdleIsSound DEF Sound
  <1>3. Own(c) = mine[c] /\ mine[c] \subseteq 1 .. ls.gen
    BY <1>1, <1>2 DEF Own, DInv, Owners
  <1> QED BY <1>1, <1>2, <1>3

\* LOCK: the new token is the client's.
LEMMA LockNewStep ==
  ASSUME DInv, NEW c \in Clients, NEW p \in Paths(c), NEW dur \in Durations, NEW zero \in BOOLEAN,
         LockNew(c, p, dur, zero)
  PROVE  DInv'
PROOF
  <1>1. JoinPath[c][p] \in Names /\ dur \in Nat \cup {-1} /\ IInv
    BY DavAssumption, MemLSAssumption DEF Paths, DInv
  <1>2. PICK M : M = IF Created THEN mine[c] \cup {ls'.gen} ELSE mine[c]
    OBVIOUS
  <1>3. mine' = [mine EXCEPT ![c] = M] /\ req' = req /\ At(c, "idle")
    BY <1>2 DEF LockNew, DInv
  <1>4. /\ req[c] = Idle /\ Own(c) = mine[c] /\ req' = [req EXCEPT ![c] = Idle]
        /\ Sound(ls', Idle) /\ mine[c] \subseteq 1 .. ls.gen
    BY <1>3, IdleClient
  <1>5. PICK now \in 0 .. clock : Create(now, JoinPath[c][p], dur, zero)
    BY DEF LockNew
  <1>6. /\ IInv' /\ UNCHANGED <<claims, clock>>
        /\ KeepsFirm(ls, ls', {})
        /\ \/ ls'.gen = ls.gen /\ DOMAIN ls'.byToken \subseteq DOMAIN ls.byToken
           \/ /\ ls'.gen = ls.gen + 1
              /\ DOMAIN ls'.byToken \subseteq DOMAIN ls.byToken \cup {ls'.gen}
    BY <1>1, <1>5, CreateTokens
  <1>7. ls.gen \in Nat
    BY <1>1 DEF IInv, Table, TableType
  <1>8. Temps(Idle) = {} /\ Idle.claim = {}
    BY IdleIsSound
  <1>9. KeepsFirm(ls, ls', Own(c) \cup Known) /\ ls'.gen >= ls.gen
    BY <1>6, <1>7 DEF KeepsFirm
  <1> DEFINE new == ls.gen + 1 .. ls'.gen
  <1>10. CASE ls'.gen = ls.gen
    <2>1. new = {} /\ M = mine[c] /\ M \subseteq Nat
      BY <1>2, <1>4, <1>7, <1>10 DEF Created
    <2> HIDE DEF Idle, new
    <2>3. DOMAIN ls'.byToken \subseteq DOMAIN ls.byToken
      BY <1>6, <1>7, <1>10
    <2>2. Turn(c, Idle, M)
      BY <1>3, <1>4, <1>6, <1>8, <1>9, <2>1, <2>3 DEF Turn, new
    <2> QED BY <2>2, TurnStep
  <1>11. CASE ls'.gen = ls.gen + 1
    <2>1. new = {ls'.gen} /\ M = mine[c] \cup {ls'.gen} /\ M \subseteq Nat
      BY <1>2, <1>4, <1>7, <1>11 DEF Created
    <2> HIDE DEF Idle, new
    <2>2. Turn(c, Idle, M)
      BY <1>3, <1>4, <1>6, <1>8, <1>9, <1>11, <2>1 DEF Turn, new
    <2> QED BY <2>2, TurnStep
  <1> QED BY <1>6, <1>10, <1>11

\* LOCK with a token refreshes a lock of the client.
LEMMA LockRefreshStep ==
  ASSUME DInv, NEW c \in Clients, NEW t \in mine[c], NEW dur \in Durations, LockRefresh(c, t, dur)
  PROVE  DInv'
PROOF
  <1>1. mine' = [mine EXCEPT ![c] = mine[c]] /\ req' = req /\ At(c, "idle")
    BY DEF LockRefresh, DInv
  <1>2. /\ req[c] = Idle /\ Own(c) = mine[c] /\ req' = [req EXCEPT ![c] = Idle]
        /\ Sound(ls', Idle)
    BY <1>1, IdleClient
  <1>3. PICK now \in 0 .. clock : Refresh(now, t, dur)
    BY DEF LockRefresh
  <1>4. IInv' /\ UNCHANGED <<claims, clock>> /\ Keeps(ls, ls', {t})
    BY <1>3, RefreshTokens DEF DInv
  <1>5. Keeps(ls, ls', Own(c) \cup Known)
    BY <1>2, <1>4 DEF Keeps, KeepsFirm
  <1>6. /\ Idle \in Request /\ Temps(Idle) = {} /\ Idle.claim = {}
        /\ Stage(Idle) /\ Armed(Idle) /\ Backed(ls', Idle) /\ Aims(Idle)
    BY IdleIsSound
  <1> HIDE DEF Idle
  <1> QED BY <1>1, <1>2, <1>4, <1>5, <1>6, KeepsTurn

\* UNLOCK: the client forgets a token once the table has none such.
LEMMA UnlockOwnStep ==
  ASSUME DInv, NEW c \in Clients, NEW t \in mine[c], UnlockOwn(c, t)
  PROVE  DInv'
PROOF
  <1>0. PICK M : M = IF t \in DOMAIN ls'.byToken THEN mine[c] ELSE mine[c] \ {t}
    OBVIOUS
  <1>1. mine' = [mine EXCEPT ![c] = M] /\ req' = req /\ At(c, "idle")
    BY <1>0 DEF UnlockOwn, DInv
  <1>2. /\ req[c] = Idle /\ Own(c) = mine[c] /\ req' = [req EXCEPT ![c] = Idle]
        /\ Sound(ls', Idle)
    BY <1>1, IdleClient
  <1>3. PICK now \in 0 .. clock : Unlock(now, t)
    BY DEF UnlockOwn
  <1>4. IInv' /\ UNCHANGED <<claims, clock>> /\ Keeps(ls, ls', {t})
    BY <1>3, UnlockTokens DEF DInv
  <1>5. Keeps(ls, ls', Own(c) \cup Known)
    BY <1>2, <1>4 DEF Keeps, KeepsFirm
  <1>6. /\ Idle \in Request /\ Temps(Idle) = {} /\ Idle.claim = {}
        /\ Stage(Idle) /\ Armed(Idle) /\ Backed(ls', Idle) /\ Aims(Idle)
    BY IdleIsSound
  <1>7. M \subseteq mine[c] /\ \A u \in DOMAIN ls'.byToken : u \in Own(c) => u \in M \cup Temps(Idle)
    BY <1>0, <1>2, <1>6
  <1> HIDE DEF Idle
  <1> QED BY <1>1, <1>2, <1>4, <1>5, <1>6, <1>7, KeepsTurn

\* Time passes.
LEMMA SameStep ==
  ASSUME DInv, UNCHANGED <<ls, claims, req, mine>>, clock' \in Nat
  PROVE  DInv'
PROOF
  <1>1. IInv'
    BY NextIInv DEF DInv, IInv
  <1>2. ls' = ls /\ claims' = claims /\ req' = req /\ mine' = mine
    OBVIOUS
  <1>3. \A c \in Clients : Own(c)' = Own(c)
    BY <1>2 DEF Own, Temps
  <1>4. Owners'
    BY <1>2, <1>3 DEF DInv, Owners, Temps
  <1>5. \A c \in Clients : Sound(ls', req'[c])
    BY <1>2 DEF DInv
  <1> QED BY <1>1, <1>2, <1>4, <1>5 DEF DInv, Sound, Backed, Firm, Stage, Armed, Aims, Temps, Request

\* The server restarts: the tokens that clients keep are older than the new ones.
LEMMA RestartStep ==
  ASSUME DInv, Restart
  PROVE  DInv'
PROOF
  <1>1. /\ ls'.byName = << >> /\ ls'.byToken = << >> /\ ls'.byExpiry = {} /\ ls'.gen = clock
        /\ claims' = {} /\ clock' = clock /\ mine' = mine
        /\ req' = [c \in Clients |-> Idle] /\ ls.gen <= clock
    BY DEF Restart
  <1>2. clock \in Nat /\ ls.gen \in Nat
    BY DEF DInv, IInv, Table, TableType
  <1>3. Table(ls') /\ ClaimsIn(ls', claims')
    BY <1>1, <1>2, FreshTable
  <1>4. IInv'
    BY <1>1, <1>2, <1>3, NextIInv
  <1>5. \A c \in Clients : req'[c] = Idle /\ Sound(ls', Idle)
    BY <1>1, IdleIsSound DEF Sound
  <1>6. \A c \in Clients : Own(c)' = mine[c]
    <2>1. \A c \in Clients : Own(c)' = mine'[c] \cup Temps(req'[c])
      BY DEF Own, Temps
    <2> QED BY <1>1, <1>5, <2>1, IdleIsSound
  <1>7. \A c \in Clients : mine[c] \subseteq 1 .. ls.gen /\ mine[c] \subseteq Own(c)
    BY DEF DInv, Owners, Own
  <1>8. Owners'
    <2>1. \A c \in Clients : Own(c)' \subseteq 1 .. ls'.gen
      BY <1>1, <1>2, <1>6, <1>7
    <2>2. \A c \in Clients : mine'[c] \cap Temps(req'[c]) = {}
      BY <1>5, IdleIsSound
    <2>3. \A b, c \in Clients : b # c => Own(b)' \cap Own(c)' = {}
      BY <1>6, <1>7 DEF DInv, Owners
    <2>4. DOMAIN ls'.byToken = {}
      BY <1>1
    <2>5. \A c \in Clients : req'[c].claim = {}
      BY <1>5, IdleIsSound
    <2> QED BY <2>1, <2>2, <2>3, <2>4, <2>5 DEF Owners, Temps
  <1>9. req' \in [Clients -> Request] /\ mine' \in [Clients -> SUBSET Nat]
    BY <1>1, IdleIsSound DEF DInv
  <1>10. \A c \in Clients : Sound(ls', req'[c])
    BY <1>1, <1>5
  <1> QED BY <1>4, <1>8, <1>9, <1>10 DEF DInv, Sound, Backed, Firm, Stage, Armed, Aims, Temps, Request

\* At first there are no tokens.
LEMMA DavInitInv == DavInit => DInv
PROOF
  <1> SUFFICES ASSUME DavInit PROVE DInv
    OBVIOUS
  <1>1. IInv /\ ls.gen = 0 /\ ls.byToken = << >>
    BY InitTable DEF DavInit, Init
  <1>2. req = [c \in Clients |-> Idle] /\ mine = [c \in Clients |-> {}]
    BY DEF DavInit
  <1>3. \A c \in Clients : req[c] = Idle /\ Sound(ls, Idle) /\ Temps(Idle) = {} /\ Idle.claim = {}
    BY <1>2, IdleIsSound DEF Sound
  <1>4. \A c \in Clients : Own(c) = {}
    BY <1>2, <1>3 DEF Own
  <1>5. DOMAIN ls.byToken = {}
    BY <1>1
  <1>6. Owners
    BY <1>2, <1>3, <1>4, <1>5 DEF Owners
  <1>7. req \in [Clients -> Request] /\ mine \in [Clients -> SUBSET Nat]
    BY <1>2, IdleIsSound
  <1> QED BY <1>1, <1>2, <1>3, <1>6, <1>7 DEF DInv

\* A request begins: PUT, MKCOL and PROPPATCH, DELETE, COPY, and MOVE.
LEMMA WriteStep ==
  ASSUME DInv, NEW c \in Clients, NEW p \in Paths(c), NEW lists \in 0 .. MaxLists,
         \/ Write(c, p, lists) \/ Delete(c, p, lists)
         \/ \E q \in Paths(c) : Copy(c, p, q, lists) \/ Move(c, p, q, lists)
  PROVE  DInv'
PROOF
  <1>1. /\ p \in Names /\ \A q \in Paths(c) : JoinPath[c][q] \in Names
        /\ NoName \notin Names /\ lists \in Nat
    BY DavAssumption, MemLSAssumption DEF Paths
  <1>2. PICK src : src = JoinPath[c][p]
    OBVIOUS
  <1>3. src \in Names /\ \A r : Below(r) \in SUBSET Names
    BY <1>1, <1>2 DEF Below
  <1>4. p \in {src} \cup {NoName} => {src} \subseteq Named(p, NoName)
    BY <1>1 DEF Named
  <1>5. {p, NoName} # {NoName}
    BY <1>1
  <1>6. CASE Write(c, p, lists)
    <2>1. Begin(c, p, NoName, {src}, {src}, lists)
      BY <1>2, <1>6 DEF Write
    <2> QED BY <1>1, <1>3, <1>4, <1>5, <2>1, BeginStep
  <1>7. CASE Delete(c, p, lists)
    <2>1. Begin(c, p, NoName, {src}, Below(src), lists)
      BY <1>2, <1>7 DEF Delete
    <2> QED BY <1>1, <1>3, <1>4, <1>5, <2>1, BeginStep
  <1>8. ASSUME NEW q \in Paths(c), Copy(c, p, q, lists) PROVE DInv'
    <2>1. PICK dst : dst = JoinPath[c][q]
      OBVIOUS
    <2>2. Begin(c, NoName, dst, {dst}, Below(Landing[src, dst]), lists)
      BY <1>2, <1>8, <2>1 DEF Copy
    <2>3. dst \in Names /\ {NoName, dst} # {NoName} /\ {dst} \subseteq Named(NoName, dst)
      BY <1>1, <2>1 DEF Named
    <2> QED BY <1>1, <1>3, <2>2, <2>3, BeginStep
  <1>9. ASSUME NEW q \in Paths(c), Move(c, p, q, lists) PROVE DInv'
    <2>1. PICK dst : dst = JoinPath[c][q]
      OBVIOUS
    <2>2. Begin(c, src, dst, {src, dst}, Trees({src, dst, Landing[src, dst]}), lists)
      BY <1>2, <1>9, <2>1 DEF Move
    <2>3. /\ dst \in Names /\ {src, dst} # {NoName} /\ {src, dst} \subseteq Named(src, dst)
          /\ Trees({src, dst, Landing[src, dst]}) \in SUBSET Names
      BY <1>1, <1>3, <2>1 DEF Named, Trees
    <2> QED BY <1>1, <1>3, <2>2, <2>3, BeginStep
  <1> QED BY <1>6, <1>7, <1>8, <1>9

-----------------------------------------------------------------------------
(* The theorems                                                            *)

LEMMA DavStep == DInv /\ [DavNext]_dvars => DInv'
PROOF
  <1> SUFFICES ASSUME DInv, [DavNext]_dvars PROVE DInv'
    OBVIOUS
  <1>1. ASSUME NEW c \in Clients,
               \/ \E p \in Paths(c), lists \in 0 .. MaxLists :
                    \/ Write(c, p, lists) \/ Delete(c, p, lists)
                    \/ \E q \in Paths(c) : Copy(c, p, q, lists) \/ Move(c, p, q, lists)
               \/ LockSrc(c) \/ LockDst(c) \/ ConfirmList(c)
               \/ ReleaseClaim(c) \/ UnlockDst(c) \/ UnlockSrc(c)
               \/ \E p \in Paths(c), dur \in Durations, zero \in BOOLEAN : LockNew(c, p, dur, zero)
               \/ \E t \in mine[c] : UnlockOwn(c, t) \/ \E dur \in Durations : LockRefresh(c, t, dur)
        PROVE  DInv'
    BY <1>1, WriteStep, LockSrcStep, LockDstStep, ConfirmListStep, ReleaseClaimStep, UnlockDstStep,
       UnlockSrcStep, LockNewStep, UnlockOwnStep, LockRefreshStep
  <1>2. CASE Tick /\ UNCHANGED <<req, mine, restarts>>
    <2>1. clock' \in Nat /\ UNCHANGED <<ls, claims, req, mine>>
      BY <1>2 DEF Tick, DInv, IInv
    <2> QED BY <2>1, SameStep
  <1>3. CASE Restart
    BY <1>3, RestartStep
  <1>4. CASE UNCHANGED dvars
    <2>1. clock' \in Nat /\ UNCHANGED <<ls, claims, req, mine>>
      BY <1>4 DEF dvars, DInv, IInv
    <2> QED BY <2>1, SameStep
  <1> QED BY <1>1, <1>2, <1>3, <1>4 DEF DavNext

\* The invariant holds of every reachable state: the table of locks, the requests
\* and the tokens that the clients keep agree, also across restarts.
THEOREM RequestInvariance == DavSpec => []DInv
PROOF
  BY DavInitInv, DavStep, PTL DEF DavSpec

\* No two clients are given one token, whatever is unlocked, expires or restarts.
THEOREM TokensIdentifyLocks == DavSpec => []TokenIdentifiesLock
PROOF
  <1>1. DInv => TokenIdentifiesLock
    BY DEF DInv, Owners, Own, TokenIdentifiesLock
  <1> QED BY RequestInvariance, <1>1, PTL

\* Every lock of the table belongs to a client or to a request in progress: a
\* request that is refused half way leaves none behind.
THEOREM NoLockIsLeft == DavSpec => []NoLockLeft
PROOF
  <1>1. DInv => NoLockLeft
    <2> SUFFICES ASSUME DInv, NEW n \in Locked
                 PROVE  \E c \in Clients :
                          ls.byName[n].token \in mine[c] \cup {req[c].srcToken, req[c].dstToken}
      BY DEF NoLockLeft
    <2>1. ls.byName[n].token \in DOMAIN ls.byToken
      BY DEF DInv, IInv, Table, Tokens, Locked, LockedIn
    <2> QED BY <2>1 DEF DInv, Owners, Own, Temps
  <1> QED BY RequestInvariance, <1>1, PTL

\* No two locks cover one resource.
LEMMA OneCover ==
  ASSUME IInv, NEW r \in Names, NEW m \in Covering(r), NEW n \in Covering(r)
  PROVE  m = n
PROOF
  <1>1. Conflictless(ls) /\ Locked \subseteq Names /\ LockedIn(ls) = Locked
    BY DEF IInv, Table, TableType, Locked, LockedIn
  <1>2. m \in Locked /\ n \in Locked /\ m \in Up[r] /\ n \in Up[r]
    BY MemLSAssumption DEF Covering
  <1>3. m \in Up[n] \/ n \in Up[m]
    BY <1>1, <1>2, MemLSAssumption
  <1>4. ASSUME NEW a \in Covering(r), NEW b \in Covering(r), a # b, a \in Up[b]
        PROVE  FALSE
    <2>1. ls.byName[a].zero /\ a \in Locked /\ b \in Locked
      BY <1>1, <1>4 DEF Conflictless, Covering
    <2>2. a = r /\ b \in Up[a]
      BY <1>1, <2>1, MemLSAssumption DEF Covering
    <2> QED BY <1>1, <1>4, <2>1, <2>2, MemLSAssumption
  <1> QED BY <1>3, <1>4

\* While a request works, one of its claims or of its temporary locks covers each
\* name that it has confirmed.
LEMMA OwnName ==
  ASSUME DInv, NEW c \in Clients, At(c, "work"), NEW r \in Confirmed(c)
  PROVE  /\ r \in Names
         /\ \E n \in Covering(r) :
              \/ \E k \in req[c].claim : n \in k.nodes
              \/ ls.byName[n].token \in Temps(req[c])
PROOF
  <1>1. PICK h : h = req[c]
    OBVIOUS
  <1>2. /\ IInv /\ h \in Request /\ Armed(h) /\ Backed(ls, h) /\ Aims(h) /\ h.pc = "work"
        /\ h.claim \subseteq claims
    BY <1>1 DEF DInv, Sound, Owners, At
  <1>3. r \in Names /\ r \in Named(h.lsrc, h.dst) /\ r \in {h.lsrc, h.dst} /\ r # NoName
    BY <1>1, <1>2 DEF Request, Confirmed, Named
  <1>4. LockedIn(ls) = Locked
    BY DEF LockedIn, Locked
  <1>5. CASE h.claim # {}
    <2>1. PICK k \in h.claim : r \in k.names
      BY <1>2, <1>3, <1>5 DEF Aims
    <2>2. PICK n \in k.nodes : n \in Locked /\ CoversName(ls, n, r)
      BY <1>2, <1>4, <2>1 DEF IInv, ClaimsIn
    <2>3. n \in Covering(r)
      BY <2>2 DEF CoversName, Covering
    <2> QED BY <1>1, <1>3, <2>1, <2>2, <2>3
  <1>6. CASE h.claim = {}
    <2>0. r \in {h.src, h.dst}
      BY <1>2, <1>3, <1>6 DEF Aims
    <2>1. PICK t \in Temps(h) : t \in DOMAIN ls.byToken /\ ls.byToken[t] = r
      BY <1>2, <1>3, <1>6, <2>0 DEF Armed, Backed, Temps, Firm
    <2>2. r \in Locked /\ ls.byName[r].token = t
      BY <1>2, <1>4, <2>1, TokenNode DEF IInv
    <2> QED BY <1>1, <1>3, <2>1, <2>2 DEF Covering
  <1> QED BY <1>5, <1>6

\* The same of each resource that it has locks for.
LEMMA OwnCover ==
  ASSUME DInv, NEW c \in Clients, At(c, "work"), NEW r \in Protected(c)
  PROVE  /\ r \in Names
         /\ \E n \in Covering(r) :
              \/ \E k \in req[c].claim : n \in k.nodes
              \/ ls.byName[n].token \in Temps(req[c])
PROOF
  <1> DEFINE names == Confirmed(c) \cup (IF Elsewhere(c) THEN {} ELSE req[c].roots)
  <1>1. req[c] \in Request /\ Aims(req[c]) /\ IInv
    BY DEF DInv, Sound
  <1>2. names \subseteq Confirmed(c)
    <2>1. CASE Elsewhere(c)
      BY <2>1
    <2>2. CASE ~Elsewhere(c)
      <3>1. req[c].src \in req[c].roots \cup {NoName} /\ req[c].lsrc = req[c].src
        BY <2>2 DEF Elsewhere
      <3>2. req[c].roots \subseteq Confirmed(c)
        BY <1>1, <3>1 DEF Aims, Confirmed
      <3> QED BY <3>2
    <2> QED BY <2>1, <2>2
  <1>3. \/ r \in names
        \/ /\ r \in req[c].touches
           /\ \E name \in names \cap Up[r] : \E n \in Covering(name) : ~ls.byName[n].zero
    BY DEF Protected
  <1> HIDE DEF names
  <1>4. CASE r \in names
    BY <1>2, <1>4, OwnName
  <1>5. CASE /\ r \in req[c].touches
             /\ \E name \in names \cap Up[r] : \E n \in Covering(name) : ~ls.byName[n].zero
    <2>1. r \in Names
      BY <1>1, <1>5 DEF Request
    <2>2. PICK name \in names \cap Up[r] : \E n \in Covering(name) : ~ls.byName[n].zero
      BY <1>5
    <2>3. PICK n \in Covering(name) : ~ls.byName[n].zero
      BY <2>2
    <2>4. PICK m \in Covering(name) : \/ \E k \in req[c].claim : m \in k.nodes
                                      \/ ls.byName[m].token \in Temps(req[c])
      BY <1>2, OwnName
    <2>5. name \in Names
      BY <1>2, OwnName
    <2>6. m = n
      BY <1>1, <2>5, OneCover
    <2>7. n \in Up[r] /\ n \in Locked
      <3>1. n \in Locked /\ n \in Up[name]
        BY <2>3, <2>5, MemLSAssumption DEF Covering
      <3>2. Up[name] \subseteq Up[r]
        BY <2>1, <2>2, MemLSAssumption
      <3> QED BY <3>1, <3>2
    <2>8. n \in Covering(r)
      BY <2>3, <2>7 DEF Covering
    <2> QED BY <2>1, <2>4, <2>6, <2>8
  <1> QED BY <1>3, <1>4, <1>5

\* While a request works, what covers the resources that it has locks for is its own and is
\* there: for every user, and every If header.
THEOREM RequestsOwnTheirLocks == DavSpec => []WorksUnderOwnLocks
PROOF
  <1>1. DInv => WorksUnderOwnLocks
    <2> SUFFICES ASSUME DInv, NEW c \in Clients, At(c, "work"), NEW r \in Protected(c)
                 PROVE  Covering(r) # {} /\ Covering(r) \subseteq OwnNodes(c)
      BY DEF WorksUnderOwnLocks
    <2>1. PICK n \in Covering(r) : \/ \E k \in req[c].claim : n \in k.nodes
                                   \/ ls.byName[n].token \in Temps(req[c])
      BY OwnCover
    <2>2. n \in OwnNodes(c)
      <3>1. n \in Locked
        BY DEF Covering
      <3>2. CASE \E k \in req[c].claim : n \in k.nodes
        BY <3>2 DEF OwnNodes
      <3>3. CASE ls.byName[n].token \in Temps(req[c])
        <4>1. ls.byName[n].token \in {req[c].srcToken, req[c].dstToken}
          BY <3>3 DEF Temps
        <4> DEFINE Claimed == UNION {k.nodes : k \in req[c].claim}
                   Temporary == {m \in Locked : ls.byName[m].token \in {req[c].srcToken, req[c].dstToken}}
        <4>2. n \in Temporary
          BY <3>1, <4>1
        <4>3. OwnNodes(c) = Claimed \cup Temporary
          BY DEF OwnNodes
        <4> HIDE DEF Claimed, Temporary
        <4> QED BY <4>2, <4>3
      <3> QED BY <2>1, <3>2, <3>3
    <2>3. \A m \in Covering(r) : m = n
      BY OneCover, OwnCover DEF DInv
    <2> QED BY <2>1, <2>2, <2>3
  <1> QED BY RequestInvariance, <1>1, PTL

\* No two requests have locks for one resource at the same time, whichever tokens they present
\* and however the trees that they work on lie to each other.
THEOREM RequestsExcludeEachOther == DavSpec => []WorkExclusive
PROOF
  <1>1. DInv => WorkExclusive
    <2> SUFFICES ASSUME DInv, NEW b \in Clients, NEW c \in Clients, b # c,
                        At(b, "work"), At(c, "work"),
                        NEW r \in Protected(b), r \in Protected(c)
                 PROVE  FALSE
      BY DEF WorkExclusive
    <2>1. PICK n \in Covering(r) : \/ \E k \in req[b].claim : n \in k.nodes
                                   \/ ls.byName[n].token \in Temps(req[b])
      BY OwnCover
    <2>2. PICK m \in Covering(r) : \/ \E k \in req[c].claim : m \in k.nodes
                                   \/ ls.byName[m].token \in Temps(req[c])
      BY OwnCover
    <2>3. m = n
      BY OneCover, OwnCover DEF DInv
    <2>4. /\ Temps(req[b]) \cap Temps(req[c]) = {} /\ req[b].claim \cap req[c].claim = {}
          /\ req[b].claim \subseteq claims /\ req[c].claim \subseteq claims
      BY DEF DInv, Owners, Own
    <2>5. \A k \in claims : /\ k.nodes \subseteq HeldIn(ls)
                            /\ \A l \in claims : k # l => k.nodes \cap l.nodes = {}
      BY DEF DInv, IInv, ClaimsIn
    <2>6. n \in Locked /\ ls.byToken[ls.byName[n].token] = n
      BY DEF Covering, DInv, IInv, Table, Tokens, LockedIn, Locked
    <2>7. ASSUME NEW a \in Clients, ls.byName[n].token \in Temps(req[a]) PROVE n \notin HeldIn(ls)
      BY <2>6, <2>7 DEF DInv, Sound, Backed, Firm, HeldIn
    <2> QED BY <2>1, <2>2, <2>3, <2>4, <2>5, <2>7
  <1> QED BY RequestInvariance, <1>1, PTL
=============================================================================
