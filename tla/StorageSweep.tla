---------------------------- MODULE StorageSweep ----------------------------
(***************************************************************************)
(* The nightly sweep of stored packets that nothing refers to             *)
(* (convex/caseStorageReconciler.ts, crons.ts).  A sweep is a chain of    *)
(* scheduled transactions, one page each; a sweep whose chain has been    *)
(* silent for an hour is taken over by the next night's.                  *)
(***************************************************************************)
EXTENDS CaseStore, FiniteSets

CONSTANTS PageSize,        \* CASE_STORAGE_RECONCILE_PAGE_SIZE
          MaxLostPages,    \* bound: pages that fail for good or a day late
          DeletionEnabled  \* SUITS_STORAGE_RECONCILER_DELETE_ENABLED

ASSUME SweepAssumption ==
  /\ PageSize \in Nat \ {0}
  /\ MaxLostPages \in Nat
  /\ DeletionEnabled \in BOOLEAN

VARIABLES
  sweep,     \* the sweep the lock names; scanned stands for its cursor
  pages,     \* the scheduled pages, current if of the lock's generation
  cronDue,   \* tonight's cron has not run yet
  lostPages

sweepVars == <<sweep, pages, cronDue, lostPages>>

NoSweep == [status |-> "none", fresh |-> FALSE, targets |-> {}, scanned |-> {}]

SweepInit ==
  /\ sweep = NoSweep
  /\ pages = {}
  /\ cronDue = FALSE
  /\ lostPages = 0

Page(scanned) == [current |-> TRUE, scanned |-> scanned]

-----------------------------------------------------------------------------
\* Mutant: a sweep that is running is always left alone.
AlreadyRunning_Forever == sweep.status = "running"
AlreadyRunning         == sweep.status = "running" /\ sweep.fresh

\* The objects older than the cutoff.
Old == {d \in Drivers : blobs[d].state = "stored" /\ blobs[d].age >= Grace}

StartSweep ==
  /\ cronDue
  /\ cronDue' = FALSE
  /\ IF AlreadyRunning
       THEN UNCHANGED <<sweep, pages>>
       ELSE /\ sweep' = [status |-> "running", fresh |-> TRUE,
                         targets |-> Old, scanned |-> {}]
            /\ pages' = {[page EXCEPT !.current = FALSE] : page \in pages} \cup {Page({})}
  /\ UNCHANGED <<storeVars, lostPages>>

\* An hour without a page.
SweepGoesStale ==
  /\ sweep.status = "running" /\ sweep.fresh
  /\ sweep' = [sweep EXCEPT !.fresh = FALSE]
  /\ UNCHANGED <<storeVars, pages, cronDue, lostPages>>

FenceMatches(page) ==
  /\ page.current
  /\ sweep.status = "running"
  /\ page.scanned = sweep.scanned

Referenced(d) == draft.author = d

\* Mutant: the final look at the references is left out.
Deletable_Unchecked(d) == DeletionEnabled /\ Associated(d)
Deletable(d)           == DeletionEnabled /\ Associated(d) /\ ~Referenced(d)

\* One page of the objects the cursor has not passed, and the next one.
ReconcilePage(page) ==
  LET remaining == {d \in sweep.targets \ page.scanned : blobs[d].state = "stored"}
      scans     == {some \in SUBSET remaining :
                      Cardinality(some) = Capped(PageSize, Cardinality(remaining))}
  IN
  /\ page \in pages
  /\ FenceMatches(page)
  /\ \E some \in scans :
       /\ blobs' = Without({d \in some : Deletable(d)})
       /\ IF some = remaining
            THEN /\ sweep' = [NoSweep EXCEPT !.status = "completed"]
                 /\ pages' = pages \ {page}
            ELSE /\ sweep' = [sweep EXCEPT !.scanned = @ \cup some, !.fresh = TRUE]
                 /\ pages' = (pages \ {page}) \cup {Page(page.scanned \cup some)}
  /\ UNCHANGED <<claim, attempts, grants, draft, cronDue, lostPages>>

FencedPage(page) ==
  /\ page \in pages
  /\ ~FenceMatches(page)
  /\ pages' = pages \ {page}
  /\ UNCHANGED <<storeVars, sweep, cronDue, lostPages>>

\* The transaction fails for good: it is undone, and the chain ends.
LosePage(page) ==
  /\ page \in pages
  /\ lostPages < MaxLostPages
  /\ pages' = pages \ {page}
  /\ lostPages' = lostPages + 1
  /\ UNCHANGED <<storeVars, sweep, cronDue>>

SweepStep ==
  \/ StartSweep
  \/ SweepGoesStale
  \/ \E page \in pages : ReconcilePage(page) \/ FencedPage(page) \/ LosePage(page)

SweepTypeOK ==
  /\ sweep \in [status : {"none", "running", "completed"}, fresh : BOOLEAN,
                targets : SUBSET Drivers, scanned : SUBSET Drivers]
  /\ sweep.scanned \subseteq sweep.targets
  /\ pages \subseteq [current : BOOLEAN, scanned : SUBSET Drivers]
  /\ cronDue \in BOOLEAN
  /\ lostPages \in 0 .. MaxLostPages
=============================================================================
