------------------------------ MODULE DirCache ------------------------------
(***************************************************************************)
(* internal/op/fs.go, cache.go: the operations on one storage and the      *)
(* directory listings it caches.  Every operation looks its objects up     *)
(* (Get: in the cached listing, else in a new one), calls the driver, and  *)
(* then patches the cached listings.  Requests that want the listing of a  *)
(* directory at the same time share one call of the driver (listG), which  *)
(* itself looks the directory up first.                                    *)
(*                                                                         *)
(* The driver finds objects by their path, has no Get, returns no object   *)
(* from its calls, and replaces a file that is in the way.  Links, status  *)
(* checks, permission masks, sorting and hooks are left out.               *)
(***************************************************************************)
EXTENDS Integers, Sequences, FiniteSets

CONSTANTS
  Names,         \* of files and directories
  Paths,         \* sequences of names, with every prefix; << >> is the root
  Clients,       \* requests that run at the same time
  Backup,        \* path of a file -> its path with ".openlist_to_delete"
  NoOverwrite,   \* Config().NoOverwriteUpload
  Starts,        \* what the storage may hold at first
  Requests,      \* what a client may ask for: steps
  MaxOps,        \* bound: requests
  MaxFaults      \* bound: calls of the driver that fail

Root == << >>
Front(p) == SubSeq(p, 1, Len(p) - 1)
Last(p) == p[Len(p)]
Under(p) == {r \in Paths : Len(r) >= Len(p) /\ SubSeq(r, 1, Len(p)) = p}
Within(p) == {r \in Paths : r # Root /\ Front(r) = p}
\* Where r is once p has become q
Image(r, p, q) == q \o SubSeq(r, Len(p) + 1, Len(r))

Step(k, p, q) == [k |-> k, p |-> p, q |-> q]
Target(s) == IF s.k \in {"move", "copy"} THEN Append(s.q, Last(s.p)) ELSE s.q
\* What a path holds: nothing, a directory, or the content of a file
None == -1
Dir == -2
Empty == 0     \* a file of size 0
Values == -2 .. MaxOps + 1

\* What is above something is a directory.
Tree(s) == s[Root] = Dir /\ \A p \in Paths : \A r \in Under(p) \ {p} : s[r] # None => s[p] = Dir

BackupName(p) == Backup[p] \in Paths \ {Root, p} /\ Front(Backup[p]) = Front(p)

Asked == {"list", "look", "mkdir", "remove", "rename", "move", "copy"}
\* The operations refuse the root (Copy does not, but it has nowhere to go) and,
\* to move or copy, the place where it is; a file that is put has a backup name.
Proper(s) ==
  /\ s.p \in Paths /\ s.q \in Paths
  /\ s.k \notin {"list", "mkdir"} => s.p # Root
  /\ s.k = "look" => s.p \in DOMAIN Backup
  /\ s.k = "rename" => s.q # Root /\ Front(s.q) = Front(s.p)
  /\ s.k \in {"move", "copy"} => s.q # Front(s.p)

ASSUME DirCacheAssumption ==
  /\ Paths \subseteq Seq(Names) /\ Root \in Paths
  /\ \A p \in Paths : \A n \in 0 .. Len(p) : SubSeq(p, 1, n) \in Paths
  /\ \A p \in DOMAIN Backup : p \in Paths \ {Root} /\ BackupName(p)
  /\ \A p, q \in DOMAIN Backup : Backup[p] = Backup[q] => p = q
  /\ NoOverwrite \in BOOLEAN /\ MaxOps \in Nat /\ MaxFaults \in Nat
  /\ \A s \in Starts : s \in [Paths -> {None, Dir, 0, 1}] /\ Tree(s)
  /\ \A s \in Requests : s = Step(s.k, s.p, s.q) /\ s.k \in Asked /\ Proper(s)

VARIABLES
  store,    \* what each path holds
  cache,    \* directory -> its cached listing (entries), or NoList
  flight,   \* directory -> the call of listG that is under way
  client,   \* client -> the steps it has still to take, and how far it is
  hole,     \* history: paths whose cached entries may be wrong, see CacheTruth
  ops, faults  \* history: requests made, driver calls that failed

vars == <<store, cache, flight, client, hole, ops, faults>>

Entry(p, v, temp) == [name |-> Last(p), v |-> v, temp |-> temp]
NoList == {Entry(<<"not cached">>, None, FALSE)}
Listing(s, p) == {Entry(r, s[r], FALSE) : r \in {r \in Within(p) : s[r] # None}}
Cached(p) == cache[p] # NoList
Named(l, p) == {e \in l : e.name = Last(p)}

NoFlight == [st |-> "none", snap |-> {}, torn |-> FALSE]
Idle == [todo |-> << >>, pc |-> "idle", need |-> << >>, v |-> None, torn |-> FALSE,
         new |-> 0, old |-> 0]

TypeOK ==
  /\ store \in [Paths -> Values]
  /\ \A p \in Paths : cache[p] = NoList \/
       cache[p] \subseteq [name : {Last(r) : r \in Within(p)}, v : Values \ {None}, temp : BOOLEAN]
  /\ \A p \in Paths : flight[p].st \in {"none", "get", "wait", "list", "set", "fail"}
  /\ \A c \in Clients : client[c].pc \in {"idle", "get", "wait", "call", "patch"}
  /\ hole \subseteq Paths /\ ops \in 0 .. MaxOps /\ faults \in 0 .. MaxFaults

\* Any of the directories may have been listed before.
Init ==
  /\ store \in Starts
  /\ \E L \in SUBSET {p \in Paths : store[p] = Dir /\ Listing(store, p) # {}} :
       cache = [p \in Paths |-> IF p \in L THEN Listing(store, p) ELSE NoList]
  /\ flight = [p \in Paths |-> NoFlight]
  /\ client = [c \in Clients |-> Idle]
  /\ hole = {} /\ ops = 0 /\ faults = 0

-----------------------------------------------------------------------------
(* The cached listings                                                     *)

\* directoryCache.RemoveObject, UpdateObject: the first object of that name
RemoveObject(l, p) == IF Named(l, p) = {} THEN l ELSE l \ {CHOOSE e \in Named(l, p) : TRUE}
UpdateObject(l, p, e) == RemoveObject(l, p) \cup {e}

\* What deleteDirectoryTree(p) reaches: it goes down through cached listings.
Reached(p) ==
  {r \in Under(p) : \A n \in Len(p) .. Len(r) - 1 :
     LET d == SubSeq(r, 1, n) IN
     Cached(d) /\ \E e \in Named(cache[d], SubSeq(r, 1, n + 1)) : e.v = Dir}
\* Mutant: the listings of a directory outlive it.
BugDeleteTree(p) == cache
DeleteTree(p) == [r \in Paths |-> IF r \in Reached(p) THEN NoList ELSE cache[r]]

\* base, with l for the listing of dir if it is cached
In(base, dir, l) == [base EXCEPT ![dir] = IF Cached(dir) THEN l ELSE @]
\* The listings of a directory v go with it, if its parent's listing is cached.
Swept(p, v) == IF Cached(Front(p)) /\ v = Dir THEN DeleteTree(p) ELSE cache

\* The listings after the driver has done it to an object looked up as v
PatchRemove(p, v) == In(Swept(p, v), Front(p), RemoveObject(cache[Front(p)], p))
PatchRename(p, q, v) == In(Swept(p, v), Front(p), UpdateObject(cache[Front(p)], p, Entry(q, v, TRUE)))
PatchCopy(base, p, d, v) == In(base, d, UpdateObject(cache[d], p, Entry(p, v, TRUE)))
PatchMove(p, d, v) == PatchCopy(PatchRemove(p, v), p, d, v)
PatchMake(p) == In(cache, Front(p), cache[Front(p)] \cup {Entry(p, Dir, TRUE)})
PatchUpload(p, new) == In(cache, Front(p), UpdateObject(cache[Front(p)], p, Entry(p, new, TRUE)))

Patched(s, v, new) ==
  CASE s.k = "make"   -> PatchMake(s.p)
    [] s.k = "upload" -> PatchUpload(s.p, new)
    [] s.k = "remove" -> PatchRemove(s.p, v)
    [] s.k = "rename" -> PatchRename(s.p, s.q, v)
    [] s.k = "move"   -> PatchMove(s.p, s.q, v)
    [] s.k = "copy"   -> PatchCopy(cache, s.p, s.q, v)

-----------------------------------------------------------------------------
(* Requests and their steps                                                *)

Now(c) == Head(client[c].todo)
At(c, pc) == client[c].pc = pc
Touched(s) ==
  CASE s.k \in {"list", "look", "mkdir"} -> {}
    [] s.k \in {"make", "upload", "remove"} -> {s.p}
    [] OTHER -> {s.p, Target(s)}
Overlap(P, Q) == \E p \in P, q \in Q : p \in Under(q) \/ q \in Under(p)
\* Another client has called the driver for one of these, and not yet patched.
Unpatched(c, P) == \E b \in Clients \ {c} : At(b, "patch") /\ Overlap(P, Touched(Now(b)))

\* What a step looks up, in this order
Needs(s) ==
  CASE s.k = "list" -> << >>
    [] s.k \in {"make", "upload"} -> <<Front(s.p)>>
    [] s.k \in {"move", "copy"} -> <<s.p, s.q>>
    [] OTHER -> <<s.p>>

\* r with todo left to do
Onto(r, todo) ==
  IF todo = << >> THEN Idle
  ELSE [r EXCEPT !.todo = todo, !.pc = "get", !.need = Needs(Head(todo)), !.v = None]
\* The next step starts with a view of its own; "make" goes on from its "mkdir".
Done(r) == Onto([r EXCEPT !.torn = @ /\ Head(r.todo).k = "mkdir"], Tail(r.todo))
\* Mutant: the backup is removed even when the upload has failed.
BugFail(r) == IF Len(r.todo) = 2 THEN Onto(r, Tail(r.todo)) ELSE Idle
\* Put puts the old file back when its upload fails; all else gives up.
Fail(r) ==
  IF Head(r.todo).k = "upload" /\ Len(r.todo) = 2
  THEN Onto([r EXCEPT !.torn = FALSE], <<Step("rename", r.todo[2].p, Head(r.todo).p)>>)
  ELSE Idle

\* Put, once it knows what is at the path: an empty file or a directory goes,
\* and a storage that cannot overwrite has the old file stepped aside.
PutPlan(p, v) ==
  LET up == <<Step("mkdir", Front(p), Root), Step("upload", p, Root)>> IN
  IF v \in {Dir, Empty} THEN <<Step("remove", p, Root)>> \o up
  ELSE IF v # None /\ NoOverwrite
  THEN <<Step("rename", p, Backup[p])>> \o up \o <<Step("remove", Backup[p], Root)>>
  ELSE up

\* Get has told request r that there is v at the path (torn: or that there was).
PutLooks(r, v, torn) ==
  LET plan == PutPlan(Head(r.todo).p, v) IN
  Onto([r EXCEPT !.old = IF Len(plan) = 4 /\ ~torn THEN v ELSE Empty], plan)
MakeDirLooks(r, v, torn) ==
  LET p == Head(r.todo).p IN
  IF v = Dir THEN Done(r)
  ELSE IF v # None THEN Idle
  ELSE Onto([r EXCEPT !.torn = @ \/ torn],
            <<Step("mkdir", Front(p), Root), Step("make", p, Root)>> \o Tail(r.todo))

\* What is not there cannot be renamed, moved or copied, and need not be removed.
Got(r, v, torn) ==
  LET s == Head(r.todo)
      q == [r EXCEPT !.need = Tail(@), !.torn = @ \/ torn,
                     !.v = IF Len(r.need) = Len(Needs(s)) THEN v ELSE @] IN
  CASE s.k = "look" -> PutLooks(r, v, torn)
    [] s.k = "mkdir" -> MakeDirLooks(r, v, torn)
    [] s.k = "remove" /\ v = None -> Done(r)
    [] s.k \in {"upload", "rename", "move", "copy"} /\ v = None -> Idle
    [] s.k = "make" /\ v # Dir -> Idle
    [] OTHER -> [q EXCEPT !.pc = IF q.need = << >> THEN "call" ELSE "get"]

Start(c) ==
  /\ At(c, "idle") /\ ops < MaxOps
  /\ \E s \in Requests :
       client' = [client EXCEPT ![c] = Onto([Idle EXCEPT !.new = ops + 2], <<s>>)]
  /\ ops' = ops + 1
  /\ UNCHANGED <<store, cache, flight, hole, faults>>

-----------------------------------------------------------------------------
(* Get and list                                                            *)

\* listG.Do(d): joins the call under way, or begins one
Join(d) == [flight EXCEPT ![d] = IF @.st = "none" THEN [NoFlight EXCEPT !.st = "get"] ELSE @]

\* The cached listing settles the question: no Temp object is taken for one
\* that a driver can work on, except when MakeDir asks whether it is there.
Knows(p, temp) == Cached(Front(p)) /\ \A e \in Named(cache[Front(p)], p) : temp \/ ~e.temp
Known(l, p) == IF Named(l, p) = {} THEN None ELSE (CHOOSE e \in Named(l, p) : TRUE).v

\* mkdirG: one MakeDir of a path at a time; who had to wait looks again
Making(p) == \E b \in Clients : client[b].todo # << >> /\
  \/ Now(b).k = "mkdir" /\ Now(b).p = p /\ At(b, "wait")
  \/ \E i \in DOMAIN client[b].todo : client[b].todo[i] = Step("make", p, Root)

Get(c) ==
  /\ At(c, "get") /\ Now(c).k # "list"
  /\ LET p == Head(client[c].need)
         asks == Now(c).k = "mkdir" IN
     /\ asks => ~Making(p)
     /\ \/ /\ p = Root
           /\ client' = [client EXCEPT ![c] = Got(@, Dir, FALSE)]
           /\ UNCHANGED flight
        \/ /\ p # Root /\ Knows(p, asks)
           /\ client' = [client EXCEPT ![c] =
                Got(@, Known(cache[Front(p)], p), p \in hole \/ Unpatched(c, {p}))]
           /\ UNCHANGED flight
        \/ /\ p # Root /\ ~Knows(p, asks)
           /\ client' = [client EXCEPT ![c].pc = "wait"]
           /\ flight' = Join(Front(p))
  /\ UNCHANGED <<store, cache, hole, ops, faults>>

List(c) ==
  /\ At(c, "get") /\ Now(c).k = "list"
  /\ \/ Cached(Now(c).p) /\ client' = [client EXCEPT ![c] = Done(@)] /\ UNCHANGED flight
     \/ /\ client' = [client EXCEPT ![c].pc = "wait"]   \* not cached, or Refresh
        /\ flight' = Join(Now(c).p)
  /\ UNCHANGED <<store, cache, hole, ops, faults>>

-----------------------------------------------------------------------------
(* One call of listG: the directory is looked up, listed, and cached       *)

FlightGet(d) ==
  /\ flight[d].st = "get"
  /\ \/ d = Root /\ flight' = [flight EXCEPT ![d].st = "list"]
     \/ d # Root /\ Knows(d, FALSE)
        /\ flight' = [flight EXCEPT ![d].st =
             IF Known(cache[Front(d)], d) = Dir THEN "list" ELSE "fail"]
     \/ d # Root /\ ~Knows(d, FALSE)
        /\ flight' = [Join(Front(d)) EXCEPT ![d].st = "wait"]
  /\ UNCHANGED <<store, cache, client, hole, ops, faults>>

\* storage.List
FlightList(d) ==
  /\ flight[d].st = "list"
  /\ \/ /\ store[d] = Dir
        /\ flight' = [flight EXCEPT ![d].st = "set", ![d].snap = Listing(store, d)]
        /\ UNCHANGED faults
     \/ /\ store[d] # Dir \/ faults < MaxFaults
        /\ flight' = [flight EXCEPT ![d].st = "fail"]
        /\ faults' = IF store[d] # Dir THEN faults ELSE faults + 1
  /\ UNCHANGED <<store, cache, client, hole, ops>>

\* The clients, once those who wait for the listing of d have l; Get takes an
\* error for "not found".
Delivered(d, l, torn) == [c \in Clients |->
  LET r == client[c] IN
  IF At(c, "wait") /\ Now(c).k = "list" /\ Now(c).p = d THEN Done(r)
  ELSE IF At(c, "wait") /\ Now(c).k # "list" /\ Front(Head(r.need)) = d
  THEN Got(r, Known(l, Head(r.need)), torn)
  ELSE r]

\* Mutant: the call stays in the group, for others to join.
BugReturn(d, l, torn) ==
  /\ flight' = [flight EXCEPT ![d].st = "done"]
  /\ client' = Delivered(d, l, torn)
\* The call for d ends with l, for the listings below that wait for it, too.
Return(d, l, torn) ==
  /\ flight' = [r \in Paths |->
       IF r = d THEN NoFlight
       ELSE IF r \in Within(d) /\ flight[r].st = "wait"
       THEN [flight[r] EXCEPT !.st = IF Known(l, r) = Dir THEN "list" ELSE "fail"]
       ELSE flight[r]]
  /\ client' = Delivered(d, l, torn)

\* Only cached listings can be wrong.
Kept(h) == {r \in h \ {Root} : cache'[Front(r)] # NoList}

FlightSet(d) ==
  LET f == flight[d] IN
  /\ f.st = "set"
  /\ cache' = IF f.snap # {} THEN [cache EXCEPT ![d] = f.snap] ELSE DeleteTree(d)
  /\ Return(d, f.snap, f.torn)
  /\ hole' = Kept(IF f.torn THEN hole \cup Within(d) ELSE hole \ Within(d))
  /\ UNCHANGED <<store, ops, faults>>

FlightFails(d) ==
  /\ flight[d].st = "fail"
  /\ Return(d, {}, FALSE)
  /\ UNCHANGED <<store, cache, hole, ops, faults>>

Expire(d) ==
  /\ Cached(d)
  /\ cache' = [cache EXCEPT ![d] = NoList]
  /\ hole' = Kept(hole)
  /\ UNCHANGED <<store, flight, client, ops, faults>>

-----------------------------------------------------------------------------
(* The driver's call, and the patch                                        *)

Can(s) ==
  LET t == Target(s) IN
  CASE s.k = "make"   -> store[Front(s.p)] = Dir
    [] s.k = "upload" -> store[Front(s.p)] = Dir /\ store[s.p] # Dir
    [] s.k = "remove" -> store[s.p] # None
    [] OTHER -> /\ store[s.p] # None /\ t \in Paths \ Under(s.p) /\ store[Front(t)] = Dir
                /\ \A r \in Under(s.p) : store[r] # None => Image(r, s.p, t) \in Paths
                /\ store[t] = None \/ (store[t] # Dir /\ store[s.p] # Dir)

\* An object that is there already is no error for MakeDir.
After(s, new) ==
  LET t == Target(s)
      off == [r \in Paths |-> IF r \in Under(s.p) THEN None ELSE store[r]]
      Moved(base) == [r \in Paths |->
        IF \E q \in Under(s.p) : store[q] # None /\ r = Image(q, s.p, t)
        THEN store[CHOOSE q \in Under(s.p) : r = Image(q, s.p, t)] ELSE base[r]] IN
  CASE s.k = "make"   -> [store EXCEPT ![s.p] = IF @ = None THEN Dir ELSE @]
    [] s.k = "upload" -> [store EXCEPT ![s.p] = new]
    [] s.k = "remove" -> off
    [] s.k = "copy"   -> Moved(store)
    [] OTHER          -> Moved(off)

\* The files that a request has still to upload, or to put back, or to remove
\* the backup of
Uploads(r) == {p \in DOMAIN Backup : \E i \in DOMAIN r.todo :
  r.todo[i] \in {Step("upload", p, Root), Step("remove", Backup[p], Root), Step("rename", Backup[p], p)}}

\* The call crosses what others have looked up, or are listing.
Cross(c, s) ==
  /\ client' = [b \in Clients |->
       IF b = c THEN [client[b] EXCEPT !.pc = "patch",
                        !.torn = @ \/ (s.k = "make" /\ store[s.p] # None)]
       ELSE IF client[b].todo = << >> THEN client[b]
       ELSE [client[b] EXCEPT
              !.torn = @ \/ Overlap(Touched(s), Touched(Now(b))),
              !.old = IF Overlap(Touched(s), UNION {{p, Backup[p]} : p \in Uploads(client[b])})
                      THEN Empty ELSE @]]
  /\ flight' = [d \in Paths |->
       [flight[d] EXCEPT !.torn = flight[d].st = "set" /\
          (@ \/ \E r \in Within(d) : store'[r] # store[r])]]

Call(c) ==
  LET s == Now(c) IN
  /\ At(c, "call")
  /\ \/ /\ Can(s)
        /\ store' = After(s, client[c].new)
        /\ Cross(c, s)
        /\ UNCHANGED faults
     \/ /\ ~Can(s) \/ faults < MaxFaults
        /\ client' = [client EXCEPT ![c] = Fail(@)]
        /\ faults' = IF Can(s) THEN faults + 1 ELSE faults
        /\ UNCHANGED <<store, flight>>
  /\ UNCHANGED <<cache, hole, ops>>

\* What the patch leaves wrong: it was made from an old view, the name was
\* listed already, or listings below what is gone stay, those that are out of
\* deleteDirectoryTree's reach, and all if the parent is not cached.
Wrong(s, v, torn) ==
  LET d == Front(s.p)
      twice == \/ s.k = "make" /\ Cached(d) /\ Named(cache[d], s.p) # {}
               \/ s.k = "rename" /\ Cached(d) /\ Named(cache[d], s.q) # {} IN
  (IF torn \/ twice THEN Touched(s) ELSE {})
    \cup (IF s.k \in {"remove", "rename", "move"}
          THEN {r \in Under(s.p) \ {s.p} : Swept(s.p, v)[Front(r)] # NoList} ELSE {})

Patch(c) ==
  /\ At(c, "patch")
  /\ cache' = Patched(Now(c), client[c].v, client[c].new)
  /\ hole' = Kept(hole \cup Wrong(Now(c), client[c].v, client[c].torn))
  /\ client' = [client EXCEPT ![c] = Done(@)]
  /\ UNCHANGED <<store, flight, ops, faults>>

-----------------------------------------------------------------------------
Next ==
  \/ \E c \in Clients : Start(c) \/ Get(c) \/ List(c) \/ Call(c) \/ Patch(c)
  \/ \E d \in Paths : FlightGet(d) \/ FlightList(d) \/ FlightSet(d) \/ FlightFails(d) \/ Expire(d)

Spec == Init /\ [][Next]_vars

\* Goroutines run and the driver answers; nothing makes clients ask.
FairSpec == Spec
  /\ \A c \in Clients : WF_vars(Get(c) \/ List(c) \/ Call(c) \/ Patch(c))
  /\ \A d \in Paths : WF_vars(FlightGet(d) \/ FlightList(d) \/ FlightSet(d) \/ FlightFails(d))

-----------------------------------------------------------------------------
(* Properties                                                              *)

\* A cached listing says what the storage holds: for every name that no
\* request is between its driver call and its patch of, and that was not
\* patched from an old view (hole), whatever the order of listings, patches,
\* expiries and failed calls.
CacheTruth ==
  \A r \in Paths \ (hole \cup {Root}) :
    (/\ Cached(Front(r))
     /\ \A c \in Clients : At(c, "patch") => \A p \in Touched(Now(c)) : r \notin Under(p))
    => {e.v : e \in Named(cache[Front(r)], r)} = IF store[r] = None THEN {} ELSE {store[r]}

\* Put on a storage that cannot overwrite never loses the old file: until the
\* new one is in place, the old one is at its own or at the backup name,
\* whichever call fails, unless another request works on these names.
OldKept ==
  \A c \in Clients : client[c].old # Empty => \A p \in Uploads(client[c]) :
    client[c].old \in {store[p], store[Backup[p]]} \/ store[p] = client[c].new

\* Every request ends: no two of them wait for each other's listing, and all
\* who joined a listing get its result, or its error.
RequestsEnd == \A c \in Clients : ~At(c, "idle") ~> At(c, "idle")
=============================================================================
