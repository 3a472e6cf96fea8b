------------------------------ MODULE Requests ------------------------------
(***************************************************************************)
(* How a NestJS handler runs: every awaited statement is its own committed *)
(* step, and between two of them any other handler may run.  A statement   *)
(* may fail and a process may die, which ends the request where it stands. *)
(* The modules of the platform that extend this one share its handlers.    *)
(***************************************************************************)
EXTENDS Integers, Sequences, FiniteSets

CONSTANTS
    Handlers,       \* HTTP requests that can be in flight at the same time
    MaxRequests,    \* bound: requests that arrive
    MaxFailures,    \* bound: statements that fail, or crashes of a handler
    None,           \* SQL NULL, and "not loaded"
    Pages,          \* pages of a list that are asked for
    PageSize        \* rows on a page

ASSUME RequestsAssumption ==
    /\ IsFiniteSet(Handlers) /\ Handlers # {}
    /\ MaxRequests \in Nat /\ MaxFailures \in Nat
    /\ Pages \subseteq Nat \ {0} /\ PageSize \in Nat \ {0}

VARIABLES
    task,       \* the request each handler is executing
    arrived,    \* how many requests have arrived
    failures,   \* how many statements have failed
    overlapped, \* history: what requests changed that were under way together
    failed      \* history: what requests changed that did not get to their end

control == <<task, arrived, failures, overlapped, failed>>

disturbed == overlapped \cup failed

\* `on` names what the request changes and `data` is what the handler has in memory.
Idle == [at |-> "idle", on |-> <<>>, data |-> <<>>]

Busy(h)     == task[h].at # "idle"
At(h, step) == task[h].at = step
Data(h)     == task[h].data

\* The statement succeeded, and the handler awaits the next one.
Goto(h, step, data) ==
    /\ task' = [task EXCEPT ![h].at = step, ![h].data = data]
    /\ UNCHANGED <<arrived, failures, overlapped, failed>>

\* The statement was the last one.
Answer(h) ==
    /\ task' = [task EXCEPT ![h] = Idle]
    /\ UNCHANGED <<arrived, failures, overlapped, failed>>

Overlaps(h, on) ==
    overlapped' = overlapped \cup {t \in {on} : \E g \in Handlers \ {h} : Busy(g) /\ task[g].on = t}

\* A request arrives and its first statement succeeds.
Begin(h, step, on, data) ==
    /\ ~Busy(h)
    /\ arrived < MaxRequests
    /\ arrived' = arrived + 1
    /\ task' = [task EXCEPT ![h] = [at |-> step, on |-> on, data |-> data]]
    /\ Overlaps(h, on)
    /\ UNCHANGED <<failures, failed>>

\* A request that is answered by its first statement, which changes `on`.
AtOnce(h, on) ==
    /\ ~Busy(h)
    /\ arrived < MaxRequests
    /\ arrived' = arrived + 1
    /\ Overlaps(h, on)
    /\ UNCHANGED <<task, failures, failed>>

\* A request that is answered by its first statement, which changes nothing.
Reads(h) ==
    /\ ~Busy(h)
    /\ arrived < MaxRequests
    /\ arrived' = arrived + 1
    /\ UNCHANGED <<task, failures, overlapped, failed>>

\* The statement that h awaits fails, or its process dies.
Breaks(h) ==
    /\ Busy(h)
    /\ failures < MaxFailures
    /\ failures' = failures + 1
    /\ task' = [task EXCEPT ![h] = Idle]
    /\ failed' = failed \cup {task[h].on}
    /\ UNCHANGED <<arrived, overlapped>>

Newer(x, y) == x > y
Lower(x, y) == x < y

\* Rows of a page: how many come before one says on which page it is.
OfPage(before, page) ==
    (page - 1) * PageSize <= Cardinality(before) /\ Cardinality(before) < page * PageSize

NewestOn(S, page) == {x \in S : OfPage({y \in S : Newer(y, x)}, page)}
LowestOn(S, page) == {x \in S : OfPage({y \in S : Lower(y, x)}, page)}

ControlInit ==
    /\ task = [h \in Handlers |-> Idle]
    /\ arrived = 0
    /\ failures = 0
    /\ overlapped = {}
    /\ failed = {}
-----------------------------------------------------------------------------
\* How many rows a page has when all its pages have `total`.
OnPage(total, page) ==
    CASE total >= page * PageSize      -> PageSize
      [] total <= (page - 1) * PageSize -> 0
      [] OTHER                          -> total - (page - 1) * PageSize
=============================================================================
