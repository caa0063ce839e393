---------------------------- MODULE HumanBacklog ----------------------------
(***************************************************************************)
(* ObjectDebateService.ListHumanBacklog over backlog_query_repo.go: the    *)
(* objects that need a human, newest first by (updated_at, id), in pages   *)
(* that continue after a keyset cursor; and a client of the API that walks *)
(* from the first page until NextCursor is empty, while objects appear,    *)
(* change their status and leave the list.  updated_at is now(), which is  *)
(* the start of the transaction that wrote the row: a transaction that     *)
(* waited stores an earlier time than the rows a client has seen already.  *)
(* The ids are numbers because their order breaks ties.                    *)
(***************************************************************************)
EXTENDS Naturals, FiniteSets, LifecycleRules

CONSTANTS Items,            \* ids of knowledge objects
          Updates,          \* transactions of the lifecycle services
          DefaultPageSize,  \* BacklogDefaultPageSize
          MaxPageSize,      \* BacklogMaxPageSize
          MaxNow            \* bound on now()

\* Ids have an order, and a page has at least one row.
ASSUME BacklogAssumption ==
  /\ Items \subseteq Nat /\ IsFiniteSet(Items)
  /\ {DefaultPageSize, MaxPageSize} \subseteq Nat \ {0}

VARIABLES status,   \* status[o], as in KnowledgeLifecycle
          stamp,    \* stamp[o]: updated_at
          aged,     \* objects last updated more than BacklogRecentDeprecatedDays ago
          now,      \* now()
          began,    \* began[u]: now() of u's transaction, 0 before and after it
          walk      \* the client's walk: cursor, items shown so far, items of the first listing untouched since

backlogVars == <<status, stamp, aged, now, began, walk>>

NoCursor == <<>>

BacklogInit ==
  /\ status = [o \in Items |-> Absent]
  /\ stamp = [o \in Items |-> 0]
  /\ aged = {}
  /\ now = 1
  /\ began = [u \in Updates |-> 0]
  /\ walk = [pc |-> "idle", cursor |-> NoCursor,
             shown |-> [o \in Items |-> 0], kept |-> {}]

-----------------------------------------------------------------------------
(* One page.                                                               *)

NeedsHuman ==
  {o \in Items : \/ status[o] \in {"proposed", "debating"}
                 \/ status[o] = "deprecated" /\ o \notin aged}

\* (updated_at, id) as a row value.
Position(o) == <<stamp[o], o>>
Less(x, y) == x[1] < y[1] \/ (x[1] = y[1] /\ x[2] < y[2])

\* The rows the query may return for a cursor.
Matching(cursor) == {o \in NeedsHuman : cursor = NoCursor \/ Less(Position(o), cursor)}

PageSize(n) == IF n = 0 THEN DefaultPageSize ELSE IF n > MaxPageSize THEN MaxPageSize ELSE n

\* The first n rows in descending order.
Page(cursor, n) ==
  LET rows == Matching(cursor)
  IN {o \in rows : Cardinality({p \in rows : Less(Position(o), Position(p))}) < n}

\* Faulty variant: the cursor is taken from the extra row that was fetched.
NextCursorOfExtraRow(cursor, n) ==
  IF Cardinality(Matching(cursor)) <= n THEN NoCursor
  ELSE Position(CHOOSE o \in Page(cursor, n + 1) :
                  \A p \in Page(cursor, n + 1) : ~ Less(Position(p), Position(o)))

\* The query fetches one row more than the page: if it gets it, the next page
\* continues after the last row of this one.
NextCursor(cursor, n) ==
  IF Cardinality(Matching(cursor)) <= n THEN NoCursor
  ELSE Position(CHOOSE o \in Page(cursor, n) :
                  \A p \in Page(cursor, n) : ~ Less(Position(p), Position(o)))

-----------------------------------------------------------------------------
(* The walking client.                                                     *)

\* One page: the first when the client is idle, the next one while it walks.
\* A page without NextCursor is the last.
ListHumanBacklog(n) ==
  LET size == PageSize(n)
      next == NextCursor(walk.cursor, size)
  IN /\ walk.pc # "ended"
     /\ walk' = [pc     |-> IF next = NoCursor THEN "ended" ELSE "walking",
                 cursor |-> next,
                 shown  |-> [o \in Items |->
                               walk.shown[o] + IF o \in Page(walk.cursor, size) THEN 1 ELSE 0],
                 kept   |-> IF walk.pc = "idle" THEN NeedsHuman ELSE walk.kept]

  /\ UNCHANGED <<status, stamp, aged, now, began>>

-----------------------------------------------------------------------------
(* What goes on meanwhile.                                                 *)

Touched(o) == walk' = [walk EXCEPT !.kept = @ \ {o}]

\* Time passes from one transaction to the next, or two start at once.
Starts == now' \in {now, now + 1} /\ now' <= MaxNow

Ingest(o, s) ==
  /\ status[o] = Absent
  /\ status' = [status EXCEPT ![o] = s]
  /\ stamp' = [stamp EXCEPT ![o] = now]
  /\ Starts
  /\ UNCHANGED <<aged, began, walk>>

BeginUpdate(u) ==
  /\ began[u] = 0
  /\ began' = [began EXCEPT ![u] = now]
  /\ Starts
  /\ UNCHANGED <<status, stamp, aged, walk>>

\* UpdateStatus, at the commit of its transaction.
Update(u, op, o, target) ==
  /\ began[u] # 0
  /\ status[o] \in SourceStatuses(op) /\ target \in AllowedTargets(op) /\ status[o] # target
  /\ status' = [status EXCEPT ![o] = target]
  /\ stamp' = [stamp EXCEPT ![o] = began[u]]
  /\ began' = [began EXCEPT ![u] = 0]
  /\ Touched(o)
  /\ UNCHANGED <<aged, now>>

\* A deprecated row falls out of the window of recent deprecations.
Age(o) ==
  /\ status[o] = "deprecated" /\ o \notin aged
  /\ aged' = aged \union {o}
  /\ Touched(o)
  /\ UNCHANGED <<status, stamp, now, began>>

BacklogNext ==
  \/ \E n \in 0 .. MaxPageSize + 1 : ListHumanBacklog(n)
  \/ \E o \in Items : Age(o) \/ \E s \in Statuses : Ingest(o, s)
  \/ \E u \in Updates : \/ BeginUpdate(u)
                        \/ \E op \in Operations, o \in Items, s \in Statuses : Update(u, op, o, s)

BacklogSpec == BacklogInit /\ [][BacklogNext]_backlogVars

-----------------------------------------------------------------------------
(* Properties.                                                             *)

\* An item of the first listing that nobody has touched since is shown exactly
\* once when the walk ends, whatever appears, moves or goes around it; the page
\* sizes of the walk may differ.
UntouchedItemsAreWalkedOnce ==
  walk.pc = "ended" =>
    \A o \in walk.kept : walk.shown[o] = 1

=============================================================================
