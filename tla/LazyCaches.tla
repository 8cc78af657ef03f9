----------------------------- MODULE LazyCaches -----------------------------
(***************************************************************************)
(* What a process keeps about its machine and its imports, filled on first *)
(* use and read by every thread: the tile of each dimension                *)
(* (_wht_tile_for_dim), the L2 figure and the memory budget (autotune), all *)
(* behind double-checked locking, and the scipy.sparse module behind a     *)
(* plain flag (_scipy_sparse_module).  A process drain may fork a worker    *)
(* from any of the threads, at any moment of the others.                   *)
(***************************************************************************)
EXTENDS Naturals, FiniteSets

CONSTANTS Threads,    \* threads of the application
          Worker,     \* the main thread of a worker process it forks
          Dims,       \* dimensions decomposed, one cell of the tile cache each
          Tile,       \* the tile of a dimension on this machine
          Figures,    \* what a measurement of the L2 cache or of the memory may say
          NoThread,   \* nobody holds the lock
          Unset,      \* the sentinel of a cell that was never filled
          MayRaise,   \* whether the warning about a missing probe is an error
          Installed,  \* whether scipy is installed
          MaxLookups  \* bound: lookups of all threads together

Cells == Dims \cup {"l2", "budget"}

ASSUME ThreadsAssumption == /\ Worker \notin Threads
                            /\ NoThread \notin Threads \cup {Worker}
ASSUME CellsAssumption == /\ Dims \cap {"l2", "budget", "none"} = {}
                          /\ Tile \in [Dims -> Figures]
                          /\ Unset \notin Figures
ASSUME FlagsAssumption == /\ MayRaise \in BOOLEAN
                          /\ Installed \in BOOLEAN
                          /\ MaxLookups \in Nat

VARIABLES cell,        \* cell[p]: the caches of process p
          holder,      \* holder[p]: who holds each of the two locks in p's memory
          forked,      \* whether the worker process exists
          pc,          \* where each thread is
          item, found, \* the cell it looks up and the figure it has got hold of
          lookups,     \* how many lookups were made
          attempted, sp, \* _sp_import_attempted and whether _sp is the module
          fills,       \* history: measurements that each process made or inherited
          answers,     \* history: the figures it returned
          interrupted  \* history: an import was cut short by an exception

caches == <<cell, holder, fills, answers>>
scipy  == <<attempted, sp, interrupted>>
vars   == <<caches, scipy, forked, pc, item, found, lookups>>

Everyone == Threads \cup {Worker}
Processes == {"parent", "child"}
Locks == {"tile", "cache"}

Home(t) == IF t = Worker THEN "child" ELSE "parent"
LockOf(c) == IF c \in Dims THEN "tile" ELSE "cache"

Places == {"idle", "check", "read", "wait", "recheck", "store", "release",
           "spClaim", "spImport", "spRead"}

TypeOK ==
  /\ cell \in [Processes -> [Cells -> Figures \cup {Unset}]]
  /\ holder \in [Processes -> [Locks -> Everyone \cup {NoThread}]]
  /\ forked \in BOOLEAN
  /\ pc \in [Everyone -> Places]
  /\ item \in [Everyone -> Cells \cup {"none"}]
  /\ found \in [Everyone -> Figures \cup {Unset}]
  /\ lookups \in 0 .. MaxLookups
  /\ attempted \in BOOLEAN /\ sp \in BOOLEAN
  /\ fills \in [Processes -> [Cells -> Nat]]
  /\ answers \in [Processes -> [Cells -> SUBSET Figures]]
  /\ interrupted \in BOOLEAN

Init ==
  /\ cell = [p \in Processes |-> [c \in Cells |-> Unset]]
  /\ holder = [p \in Processes |-> [l \in Locks |-> NoThread]]
  /\ forked = FALSE
  /\ pc = [t \in Everyone |-> "idle"]
  /\ item = [t \in Everyone |-> "none"]
  /\ found = [t \in Everyone |-> Unset]
  /\ lookups = 0
  /\ attempted = FALSE /\ sp = FALSE
  /\ fills = [p \in Processes |-> [c \in Cells |-> 0]]
  /\ answers = [p \in Processes |-> [c \in Cells |-> {}]]
  /\ interrupted = FALSE

-----------------------------------------------------------------------------
(* A lookup.                                                               *)

Go(t, from, to) == pc[t] = from /\ pc' = [pc EXCEPT ![t] = to]

\* Return or raise: the locals are gone.
Leave(t, from) == /\ Go(t, from, "idle")
                  /\ item' = [item EXCEPT ![t] = "none"]
                  /\ found' = [found EXCEPT ![t] = Unset]

\* The first, unlocked test.  Workers only ever need tiles.
Ask(t, c) ==
  /\ t = Worker => forked /\ c \in Dims
  /\ lookups < MaxLookups
  /\ Go(t, "idle", "check")
  /\ item' = [item EXCEPT ![t] = c]
  /\ lookups' = lookups + 1
  /\ UNCHANGED <<caches, scipy, forked, found>>

Filled(t) == cell[Home(t)][item[t]] # Unset

FirstTest(t) == Filled(t)

Check(t) ==
  /\ Go(t, "check", IF FirstTest(t) THEN "read" ELSE "wait")
  /\ UNCHANGED <<caches, scipy, forked, item, found, lookups>>

Answer(t, v) ==
  answers' = [answers EXCEPT ![Home(t)][item[t]] = @ \cup {v}]

Read(t) ==
  /\ Leave(t, "read")
  /\ Answer(t, cell[Home(t)][item[t]])
  /\ UNCHANGED <<cell, holder, fills, scipy, forked, lookups>>

\* Fault: there is no lock.
LockIgnored(t) == TRUE

LockFree(t) == holder[Home(t)][LockOf(item[t])] = NoThread

Acquire(t) ==
  /\ Go(t, "wait", "recheck")
  /\ LockFree(t)
  /\ holder' = [holder EXCEPT ![Home(t)][LockOf(item[t])] = t]
  /\ UNCHANGED <<cell, fills, answers, scipy, forked, item, found, lookups>>

\* Fault: the cell is not tested again under the lock.
SecondTestForgotten(t) == FALSE

SecondTest(t) == Filled(t)

\* Under the lock: somebody else has filled the cell.
Recheck(t) ==
  /\ Go(t, "recheck", "release")
  /\ SecondTest(t)
  /\ found' = [found EXCEPT ![t] = cell[Home(t)][item[t]]]
  /\ UNCHANGED <<caches, scipy, forked, item, lookups>>

\* A tile follows from the machine; the other two differ from one measurement
\* to the next, which is why one of them has to stay.
Outcomes(c) == IF c \in Dims THEN {Tile[c]} ELSE Figures

Measure(t) ==
  /\ Go(t, "recheck", "store")
  /\ ~ SecondTest(t)
  /\ \E v \in Outcomes(item[t]) : found' = [found EXCEPT ![t] = v]
  /\ fills' = [fills EXCEPT ![Home(t)][item[t]] = @ + 1]
  /\ UNCHANGED <<cell, holder, answers, scipy, forked, item, lookups>>

Store(t) ==
  /\ Go(t, "store", "release")
  /\ cell' = [cell EXCEPT ![Home(t)][item[t]] = found[t]]
  /\ UNCHANGED <<holder, fills, answers, scipy, forked, item, found, lookups>>

Unlocked(t) == [holder EXCEPT ![Home(t)][LockOf(item[t])] = NoThread]

Release(t) ==
  /\ Leave(t, "release")
  /\ holder' = Unlocked(t)
  /\ Answer(t, found[t])
  /\ UNCHANGED <<cell, fills, scipy, forked, lookups>>

\* Fault: acquire() and release() instead of `with'.
WarningKeepsLock(t) ==
  /\ MayRaise /\ item[t] = "l2"
  /\ Leave(t, "recheck")
  /\ ~ SecondTest(t)
  /\ UNCHANGED <<caches, scipy, forked, lookups>>

\* warnings.warn raises inside the lock; `with' lets go of it.
WarningRaised(t) ==
  /\ MayRaise /\ item[t] = "l2"
  /\ Leave(t, "recheck")
  /\ ~ SecondTest(t)
  /\ holder' = Unlocked(t)
  /\ UNCHANGED <<cell, fills, answers, scipy, forked, lookups>>

-----------------------------------------------------------------------------
(* scipy.sparse: the flag is set before the import, not after it.          *)

AskScipy(t) ==
  /\ t \in Threads
  /\ lookups < MaxLookups
  /\ Go(t, "idle", IF attempted THEN "spRead" ELSE "spClaim")
  /\ lookups' = lookups + 1
  /\ UNCHANGED <<caches, scipy, forked, item, found>>

Claim(t) ==
  /\ Go(t, "spClaim", "spImport")
  /\ attempted' = TRUE
  /\ UNCHANGED <<caches, sp, interrupted, forked, item, found, lookups>>

\* Fault: _sp is assigned without `global'.
ImportedLocally == sp

Imported == Installed

Import(t) ==
  /\ Go(t, "spImport", "spRead")
  /\ sp' = Imported
  /\ UNCHANGED <<caches, attempted, interrupted, forked, item, found, lookups>>

\* Anything but an ImportError, such as KeyboardInterrupt, passes through.
ImportInterrupted(t) ==
  /\ Go(t, "spImport", "idle")
  /\ interrupted' = TRUE
  /\ UNCHANGED <<caches, attempted, sp, forked, item, found, lookups>>

ReadScipy(t) ==
  /\ Go(t, "spRead", "idle")
  /\ UNCHANGED <<caches, scipy, forked, item, found, lookups>>

-----------------------------------------------------------------------------
(* fork() copies the caches and the locks as they are, and one thread.      *)

Fork(t) ==
  /\ t \in Threads /\ pc[t] = "idle"
  /\ ~ forked
  /\ forked' = TRUE
  /\ LET inherit(f) == [f EXCEPT !["child"] = f["parent"]]
     IN  /\ cell' = inherit(cell)
         /\ holder' = inherit(holder)
         /\ fills' = inherit(fills)
         /\ answers' = inherit(answers)
  /\ UNCHANGED <<scipy, pc, item, found, lookups>>

Step(t) == \/ Check(t) \/ Read(t) \/ Acquire(t) \/ Recheck(t) \/ Measure(t)
           \/ Store(t) \/ Release(t) \/ WarningRaised(t)
           \/ Claim(t) \/ Import(t) \/ ImportInterrupted(t) \/ ReadScipy(t)

Next == \E t \in Everyone :
          \/ \E c \in Cells : Ask(t, c)
          \/ AskScipy(t)
          \/ Step(t)
          \/ Fork(t)

Spec == Init /\ [][Next]_vars

\* Threads and processes are scheduled; nobody is obliged to ask or to fork.
FairSpec == Spec /\ \A t \in Everyone : WF_vars(Step(t))

-----------------------------------------------------------------------------
(* Properties.                                                             *)

\* Double-checked locking: however the threads meet, and wherever a fork
\* falls, no process measures what it or its parent has measured before
\* (two cache probes at once would disturb each other).
FilledOnce == \A p \in Processes : \A c \in Cells : fills[p][c] <= 1

\* Measurements differ from one to the next, but all decisions of a process
\* rest on one figure: everyone who asked was told what the cache now holds.
ReadersAgree == \A p \in Processes : \A c \in Cells :
                  answers[p][c] # {} => answers[p][c] = {cell[p][c]}

\* An installed scipy is taken for missing only by a caller that comes while
\* another thread is inside the import, or after an import was cut short.
BlindOnlyDuringImport ==
  [][\A t \in Threads :
       (ReadScipy(t) /\ Installed /\ ~ sp)
         => interrupted \/ \E u \in Threads : pc[u] = "spImport"]_vars

\* The lock a worker waits for was held by some other thread at the fork.
Orphaned(t) == /\ t = Worker /\ pc[t] = "wait"
               /\ holder["child"][LockOf(item[t])] \in Threads

\* Every lookup returns or raises, whoever raised before; only a worker forked
\* while another thread was filling its tile cache waits for good.
LookupsReturn == \A t \in Everyone :
                   (pc[t] # "idle") ~> (pc[t] = "idle" \/ Orphaned(t))

=============================================================================
