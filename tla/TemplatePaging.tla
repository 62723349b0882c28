---------------------------- MODULE TemplatePaging ----------------------------
(***************************************************************************)
(* A consumer walks the template listing page by page, following           *)
(* paging.next (or paging.previous) until it is absent, while templates    *)
(* are created, deleted and moderated under the walk.                      *)
(*                                                                         *)
(* The listing is keyset-paginated on (created_at, id): the cursor is the  *)
(* id at the edge of the last page, and the server looks its key up again. *)
(***************************************************************************)
EXTENDS Naturals, FiniteSets

CONSTANTS
  Ids,         \* template ids, as numbers: the second half of the key is their order
  Limit,       \* the page size the consumer asks for
  MaxTime      \* bound: the last millisecond of the clock

ASSUME PagingAssumption ==
  /\ Ids \subseteq Nat
  /\ Limit \in Nat \ {0}
  /\ MaxTime \in Nat

Direction == {"after", "before"}

VARIABLES
  now,         \* the clock, in milliseconds
  createdAt,   \* created_at of a template that was ever created
  rows,        \* the templates of the account
  matching,    \* those the filters of the listing let through
  walk,        \* the consumer: its direction, its cursor, and whether it is done
  seen,        \* the templates of the pages it read
  repeated,    \* those it was given twice
  lasting,     \* those the walk should list and that matched from its start on
  cursorLost   \* was a page asked for with a cursor whose template is gone?

pagingVars == <<now, createdAt, rows, matching, walk, seen, repeated, lasting, cursorLost>>
walkVars == <<walk, seen, repeated, cursorLost>>

\* Created, never deleted before: a random id is minted once.
Unminted == Ids \ DOMAIN createdAt

-----------------------------------------------------------------------------
(* The query *)

\* order by created_at, id
Precedes(t, u) ==
  createdAt[t] < createdAt[u] \/ (createdAt[t] = createdAt[u] /\ t < u)

\* Does a walk in this direction come to t before it comes to u?
ComesFirst(t, u, direction) ==
  IF direction = "after" THEN Precedes(t, u) ELSE Precedes(u, t)

\* Mutant: the key is created_at alone.
BeyondByTime(cursor, direction) ==
  IF cursor \notin rows THEN matching
  ELSE {t \in matching : IF direction = "after" THEN createdAt[cursor] < createdAt[t]
                         ELSE createdAt[t] < createdAt[cursor]}

\* Mutant: the cursor is inclusive.
BeyondOrAt(cursor, direction) ==
  IF cursor \notin rows THEN matching
  ELSE {t \in matching : t = cursor \/ ComesFirst(cursor, t, direction)}

\* The matching rows on the far side of a cursor; a cursor that names no row
\* (any more) is no condition at all.
Beyond(cursor, direction) ==
  IF cursor \notin rows THEN matching
  ELSE {t \in matching : ComesFirst(cursor, t, direction)}

\* The rows of a set nearest to where a walk in this direction comes from.
Nearest(S, n, direction) ==
  {t \in S : Cardinality({u \in S : ComesFirst(u, t, direction)}) < n}

\* Edge of a page: the id its next (or previous) link carries.
Edge(page, direction) ==
  CHOOSE t \in page : \A u \in page \ {t} : ComesFirst(u, t, direction)

\* hasNextPage, hasPreviousPage: a one-row page of the same query beyond the edge.
Continues(page, direction) == page # {} /\ Beyond(Edge(page, direction), direction) # {}

-----------------------------------------------------------------------------
PagingInit ==
  /\ now = 0
  /\ createdAt = <<>>
  /\ rows = {}
  /\ matching = {}
  /\ walk = [at |-> "idle"]
  /\ seen = {}
  /\ repeated = {}
  /\ lasting = {}
  /\ cursorLost = FALSE

Tick ==
  /\ now < MaxTime
  /\ now' = now + 1
  /\ UNCHANGED <<createdAt, rows, matching, lasting, walkVars>>

\* insert(): the filters of the walk may or may not let it through.
CreateRow(t) ==
  /\ t \in Unminted
  /\ createdAt' = [u \in DOMAIN createdAt \cup {t} |-> IF u = t THEN now ELSE createdAt[u]]
  /\ rows' = rows \cup {t}
  /\ matching' \in {matching, matching \cup {t}}
  /\ UNCHANGED <<now, lasting, walkVars>>

DeleteRow(t) ==
  /\ t \in rows
  /\ rows' = rows \ {t}
  /\ matching' = matching \ {t}
  /\ lasting' = lasting \ {t}
  /\ UNCHANGED <<now, createdAt, walkVars>>

\* update(): a decision or an edit moves a template in or out of the filter.
Update(t) ==
  /\ t \in rows
  /\ matching' = IF t \in matching THEN matching \ {t} ELSE matching \cup {t}
  /\ lasting' = lasting \ {t}
  /\ UNCHANGED <<now, createdAt, rows, walkVars>>

\* The first request of a walk: no cursor forwards, one the consumer kept
\* backwards.
StartForward ==
  /\ walk.at = "idle"
  /\ walk' = [at |-> "start", direction |-> "after"]
  /\ lasting' = matching
  /\ UNCHANGED <<now, createdAt, rows, matching, seen, repeated, cursorLost>>

StartBackward(cursor) ==
  /\ walk.at = "idle"
  /\ cursor \in rows
  /\ walk' = [at |-> "walking", direction |-> "before", cursor |-> cursor]
  /\ lasting' = {t \in matching : Precedes(t, cursor)}
  /\ UNCHANGED <<now, createdAt, rows, matching, seen, repeated, cursorLost>>

\* GET /{waba}/message_templates: the page and the answer whether another
\* follows are read in one go; the consumer stops when none does.
ReadPage ==
  /\ walk.at \in {"start", "walking"}
  /\ LET beyond == IF walk.at = "start" THEN matching ELSE Beyond(walk.cursor, walk.direction)
         page == Nearest(beyond, Limit, walk.direction)
     IN /\ seen' = seen \cup page
        /\ repeated' = repeated \cup (seen \cap page)
        /\ walk' = IF Continues(page, walk.direction)
                   THEN [at |-> "walking", direction |-> walk.direction,
                         cursor |-> Edge(page, walk.direction)]
                   ELSE [at |-> "done"]
  /\ cursorLost' = (cursorLost \/ (walk.at = "walking" /\ walk.cursor \notin rows))
  /\ UNCHANGED <<now, createdAt, rows, matching, lasting>>

PagingNext ==
  \/ Tick
  \/ \E t \in Ids : CreateRow(t) \/ DeleteRow(t) \/ Update(t) \/ StartBackward(t)
  \/ StartForward
  \/ ReadPage

\* The consumer goes on asking.
PagingFairness == WF_pagingVars(ReadPage)

PagingSpec == PagingInit /\ [][PagingNext]_pagingVars
FairPaging == PagingSpec /\ PagingFairness

-----------------------------------------------------------------------------
(* What the listing promises *)

\* Every variable has its type.
PagingTypeOK ==
  /\ now \in 0 .. MaxTime
  /\ DOMAIN createdAt \subseteq Ids
  /\ \A t \in DOMAIN createdAt : createdAt[t] \in 0 .. MaxTime
  /\ matching \subseteq rows /\ rows \subseteq DOMAIN createdAt
  /\ walk \in [at : {"idle", "done"}] \cup [at : {"start"}, direction : Direction]
               \cup [at : {"walking"}, direction : Direction, cursor : DOMAIN createdAt]
  /\ seen \subseteq DOMAIN createdAt
  /\ repeated \subseteq seen
  /\ lasting \subseteq matching
  /\ cursorLost \in BOOLEAN

\* A finished walk listed every template that was there, and matched, all the
\* time: "the property the consumer's paging loop depends on", here with
\* creations, deletes (of the cursor, too) and filters that change under it.
NothingMissed == walk.at = "done" => lasting \subseteq seen

\* A walk whose cursor still exists whenever it is used lists no template twice.
ExclusiveWhileCursorLives == ~cursorLost => repeated = {}

\* A walk that is followed ends, however the listing changes meanwhile.
WalkEnds == walk.at \in {"start", "walking"} ~> walk.at = "done"
=============================================================================
