----------------------------- MODULE DavRequests -----------------------------
(***************************************************************************)
(* server/webdav/webdav.go: the requests of WebDAV clients as users of the *)
(* lock system.  A request that changes resources first makes sure that    *)
(* nobody else has locked them: without an If header it takes temporary    *)
(* locks of its own (confirmLocks, 125-155), with one it claims the locks  *)
(* whose tokens it presents (157-192).  PUT, DELETE, MKCOL and PROPPATCH   *)
(* do this for the path of the URL, COPY, MOVE and LOCK for that path      *)
(* joined to the user's base path; all of them work on the joined path,    *)
(* DELETE, COPY and MOVE on all that is below it too, COPY and MOVE also   *)
(* on the source's name in the directory of the destination.               *)
(***************************************************************************)
EXTENDS MemLS

CONSTANTS
  Clients,      \* each sends one request at a time
  JoinPath,     \* client -> (path of a URL -> resource): the user's JoinPath
  Landing,      \* src, dst -> the resource with src's name in dst's directory
  MaxLists,     \* bound: lists of an If header
  MaxRestarts   \* bound

ASSUME DavAssumption ==
  /\ DOMAIN JoinPath = Clients
  /\ \A c \in Clients : \A p \in DOMAIN JoinPath[c] : p \in Names /\ JoinPath[c][p] \in Names
  /\ Landing \in [Names \X Names -> Names]
  /\ MaxLists \in Nat /\ MaxRestarts \in Nat

VARIABLES
  req,      \* client -> the request it waits for
  mine,     \* client -> the tokens LOCK has returned to it
  restarts  \* history

dvars == <<ls, claims, clock, req, mine, restarts>>

Idle == [pc |-> "idle", src |-> NoName, dst |-> NoName, roots |-> {}, touches |-> {},
         lists |-> 0, lsrc |-> NoName, srcToken |-> NoToken, dstToken |-> NoToken, claim |-> {}]

DavInit ==
  /\ Init
  /\ req = [c \in Clients |-> Idle]
  /\ mine = [c \in Clients |-> {}]
  /\ restarts = 0

At(c, label) == req[c].pc = label
Paths(c) == DOMAIN JoinPath[c]
Known == UNION {mine[c] : c \in Clients}
Room == ls.gen < MaxTokens

-----------------------------------------------------------------------------
(* A request begins: the names it confirms, the resources it works on      *)

\* roots are the resources of the URL and the destination; lists counts those of the If
\* header.
Begin(c, src, dst, roots, touches, lists) ==
  /\ At(c, "idle")
  /\ req' = [req EXCEPT ![c] =
       [Idle EXCEPT !.pc = IF lists > 0 THEN "confirm"
                           ELSE IF src # NoName THEN "lockSrc" ELSE "lockDst",
                    !.src = src, !.lsrc = src, !.dst = dst,
                    !.roots = roots, !.touches = touches, !.lists = lists]]
  /\ UNCHANGED <<ls, claims, clock, mine, restarts>>

Trees(roots) == UNION {Below(r) : r \in roots}

\* handlePut, handleMkcol, handleProppatch
Write(c, p, lists) == Begin(c, p, NoName, {JoinPath[c][p]}, {JoinPath[c][p]}, lists)

\* handleDelete
Delete(c, p, lists) == Begin(c, p, NoName, {JoinPath[c][p]}, Below(JoinPath[c][p]), lists)

\* handleCopyMove: COPY confirms its destination only, MOVE both.  copyFiles leaves the copy
\* under the name of the source, moveFiles renames it after that.
Copy(c, p, q, lists) ==
  LET src == JoinPath[c][p]  dst == JoinPath[c][q] IN
  p # q /\ Begin(c, NoName, dst, {dst}, Below(Landing[src, dst]), lists)

Move(c, p, q, lists) ==
  LET src == JoinPath[c][p]  dst == JoinPath[c][q] IN
  p # q /\ Begin(c, src, dst, {src, dst}, Trees({src, dst, Landing[src, dst]}), lists)

-----------------------------------------------------------------------------
(* confirmLocks without an If header                                       *)

Created == ls'.gen # ls.gen

LockSrc(c) ==
  /\ At(c, "lockSrc") /\ Room
  /\ \E now \in 0 .. clock : Create(now, req[c].src, -1, TRUE)
  /\ req' = [req EXCEPT ![c] =
       IF Created THEN [req[c] EXCEPT !.srcToken = ls'.gen,
                                      !.pc = IF req[c].dst = NoName THEN "work" ELSE "lockDst"]
                  ELSE Idle]
  /\ UNCHANGED <<mine, restarts>>

\* Bug: the request is refused and keeps its lock on the source.
BugLockDst(c) ==
  /\ At(c, "lockDst") /\ Room
  /\ \E now \in 0 .. clock : Create(now, req[c].dst, -1, TRUE)
  /\ req' = [req EXCEPT ![c] =
       IF Created THEN [req[c] EXCEPT !.dstToken = ls'.gen, !.pc = "work"] ELSE Idle]
  /\ UNCHANGED <<mine, restarts>>

LockDst(c) ==
  /\ At(c, "lockDst") /\ Room
  /\ \E now \in 0 .. clock : Create(now, req[c].dst, -1, TRUE)
  /\ req' = [req EXCEPT ![c] =
       IF Created THEN [req[c] EXCEPT !.dstToken = ls'.gen, !.pc = "work"]
       ELSE IF req[c].srcToken # NoToken THEN [req[c] EXCEPT !.pc = "unlockSrc"]
       ELSE Idle]
  /\ UNCHANGED <<mine, restarts>>

-----------------------------------------------------------------------------
(* confirmLocks with an If header: any list will do                        *)

\* What the conditions of a list may say: tokens of any client, since clients that work
\* together, or one that has several connections, present each other's.  Locks may be gone.
Conds == {f \in UNION {[1 .. k -> Known] : k \in 1 .. MaxConds} :
            \A i, j \in DOMAIN f : f[i] = f[j] => i = j}

\* The source that a list is about: the request's, or that of the list's tag
Subjects(c) == Names \cup {req[c].src}

\* Bug: a request none of whose lists holds goes on.
BugConfirmList(c) ==
  /\ At(c, "confirm")
  /\ \E lsrc \in Subjects(c), conds \in Conds, now \in 0 .. clock :
       \/ /\ ConfirmHolds(now, lsrc, req[c].dst, conds)
          /\ req' = [req EXCEPT ![c] =
               [req[c] EXCEPT !.pc = "work", !.lists = 0, !.lsrc = lsrc, !.claim = claims' \ claims]]
       \/ /\ ConfirmFails(now, lsrc, req[c].dst, conds)
          /\ req' = [req EXCEPT ![c] =
               IF req[c].lists > 1 THEN [req[c] EXCEPT !.lists = @ - 1]
                                   ELSE [req[c] EXCEPT !.pc = "work", !.lists = 0]]
  /\ UNCHANGED <<mine, restarts>>

ConfirmList(c) ==
  /\ At(c, "confirm")
  /\ \E lsrc \in Subjects(c), conds \in Conds, now \in 0 .. clock :
       \/ /\ ConfirmHolds(now, lsrc, req[c].dst, conds)
          /\ req' = [req EXCEPT ![c] =
               [req[c] EXCEPT !.pc = "work", !.lists = 0, !.lsrc = lsrc, !.claim = claims' \ claims]]
       \/ /\ ConfirmFails(now, lsrc, req[c].dst, conds)
          /\ req' = [req EXCEPT ![c] =
               IF req[c].lists > 1 THEN [req[c] EXCEPT !.lists = @ - 1] ELSE Idle]
  /\ UNCHANGED <<mine, restarts>>

-----------------------------------------------------------------------------
(* The work is done: release, or unlock the destination, then the source   *)

ReleaseClaim(c) ==
  /\ At(c, "work") /\ req[c].claim # {}
  /\ \E k \in req[c].claim : Release(k)
  /\ req' = [req EXCEPT ![c] = Idle]
  /\ UNCHANGED <<mine, restarts>>

UnlockDst(c) ==
  /\ At(c, "work") /\ req[c].dstToken # NoToken
  /\ \E now \in 0 .. clock : Unlock(now, req[c].dstToken)
  /\ req' = [req EXCEPT ![c] = IF req[c].srcToken = NoToken THEN Idle
                               ELSE [req[c] EXCEPT !.pc = "unlockSrc", !.dstToken = NoToken]]
  /\ UNCHANGED <<mine, restarts>>

UnlockSrc(c) ==
  /\ \/ At(c, "unlockSrc")
     \/ At(c, "work") /\ req[c].claim = {} /\ req[c].dstToken = NoToken
  /\ \E now \in 0 .. clock : Unlock(now, req[c].srcToken)
  /\ req' = [req EXCEPT ![c] = Idle]
  /\ UNCHANGED <<mine, restarts>>

-----------------------------------------------------------------------------
(* LOCK and UNLOCK                                                         *)

LockNew(c, p, dur, zero) ==
  /\ At(c, "idle") /\ Room
  /\ \E now \in 0 .. clock : Create(now, JoinPath[c][p], dur, zero)
  /\ mine' = IF Created THEN [mine EXCEPT ![c] = @ \cup {ls'.gen}] ELSE mine
  /\ UNCHANGED <<req, restarts>>

LockRefresh(c, t, dur) ==
  /\ At(c, "idle")
  /\ \E now \in 0 .. clock : Refresh(now, t, dur)
  /\ UNCHANGED <<req, mine, restarts>>

\* handleUnlock; the client forgets a token that is gone.
UnlockOwn(c, t) ==
  /\ At(c, "idle")
  /\ \E now \in 0 .. clock : Unlock(now, t)
  /\ mine' = IF t \in DOMAIN ls'.byToken THEN mine ELSE [mine EXCEPT ![c] = @ \ {t}]
  /\ UNCHANGED <<req, restarts>>

-----------------------------------------------------------------------------
\* Bug: tokens count from 0.
BugRestart ==
  /\ restarts < MaxRestarts /\ ls.gen <= clock
  /\ restarts' = restarts + 1
  /\ ls' = [byName |-> << >>, byToken |-> << >>, byExpiry |-> {}, gen |-> 0]
  /\ claims' = {}
  /\ req' = [c \in Clients |-> Idle]
  /\ UNCHANGED <<clock, mine>>

\* The server restarts: NewMemLS, whose tokens count from the time in seconds.
\* Assumed: it has created no more than one lock per second until then.
Restart ==
  /\ restarts < MaxRestarts /\ ls.gen <= clock
  /\ restarts' = restarts + 1
  /\ ls' = [byName |-> << >>, byToken |-> << >>, byExpiry |-> {}, gen |-> clock]
  /\ claims' = {}
  /\ req' = [c \in Clients |-> Idle]
  /\ UNCHANGED <<clock, mine>>

DavNext ==
  \/ \E c \in Clients :
       \/ \E p \in Paths(c), lists \in 0 .. MaxLists :
            \/ Write(c, p, lists) \/ Delete(c, p, lists)
            \/ \E q \in Paths(c) : Copy(c, p, q, lists) \/ Move(c, p, q, lists)
       \/ LockSrc(c) \/ LockDst(c) \/ ConfirmList(c)
       \/ ReleaseClaim(c) \/ UnlockDst(c) \/ UnlockSrc(c)
       \/ \E p \in Paths(c), dur \in Durations, zero \in BOOLEAN : LockNew(c, p, dur, zero)
       \/ \E t \in mine[c] : UnlockOwn(c, t) \/ \E dur \in Durations : LockRefresh(c, t, dur)
  \/ Tick /\ UNCHANGED <<req, mine, restarts>>
  \/ Restart

DavSpec == DavInit /\ [][DavNext]_dvars

-----------------------------------------------------------------------------
(* Properties                                                              *)

Covering(r) == {n \in Locked : n = r \/ (n \in Up[r] /\ ~ls.byName[n].zero)}
OwnNodes(c) ==
  (UNION {k.nodes : k \in req[c].claim}) \cup
  {n \in Locked : ls.byName[n].token \in {req[c].srcToken, req[c].dstToken}}

\* The names that confirmLocks made sure of
Confirmed(c) == Named(req[c].lsrc, req[c].dst)

\* They are not the resources of the request when the user has a base path, which is not
\* joined before PUT, DELETE, MKCOL and PROPPATCH confirm, or when the tag of the If list
\* is another resource's.
Elsewhere(c) == req[c].src \notin req[c].roots \cup {NoName} \/ req[c].lsrc # req[c].src

\* What a request has locks for: these names and, below one, what it works on if its lock is
\* of infinite depth.  A temporary lock is not: others may have locks below the name.
Protected(c) ==
  LET names == Confirmed(c) \cup (IF Elsewhere(c) THEN {} ELSE req[c].roots) IN
  names \cup {r \in req[c].touches :
               \E name \in names \cap Up[r] : \E n \in Covering(name) : ~ls.byName[n].zero}

\* "we still need to check that the resources aren't locked by another client"
\* (webdav.go:127): while a request works, the locks that cover what it has locks for are
\* its own, temporary ones or those it has claimed, and there is one for each.
WorksUnderOwnLocks ==
  \A c \in Clients : At(c, "work") =>
    \A r \in Protected(c) : Covering(r) # {} /\ Covering(r) \subseteq OwnNodes(c)

\* Two requests that work at the same time have locks for different resources, also when
\* they present the same token, or one works on a tree in which the other has a resource.
WorkExclusive ==
  \A b, c \in Clients : b # c /\ At(b, "work") /\ At(c, "work") =>
    Protected(b) \cap Protected(c) = {}

\* "These temporary locks are unlocked at the end of the HTTP request"
\* (webdav.go:129): a lock is in the hands of a client or of a request in progress,
\* so that none stays for good, whichever step the request fails at.
NoLockLeft ==
  \A n \in Locked :
    \E c \in Clients : ls.byName[n].token \in mine[c] \cup {req[c].srcToken, req[c].dstToken}

\* "The token returned identifies the created lock" (lock.go:66): no two clients
\* are given the same token, also across a restart, as long as locks are created
\* at less than one per second.
TokenIdentifiesLock ==
  \A b, c \in Clients : b # c => mine[b] \cap mine[c] = {}
=============================================================================
