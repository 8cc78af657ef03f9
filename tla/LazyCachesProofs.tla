-------------------------- MODULE LazyCachesProofs --------------------------
(***************************************************************************)
(* Double-checked locking fills each cache once and all its readers see    *)
(* one figure, for every number of threads and dimensions and wherever the *)
(* fork falls; and what the flag before the scipy import costs.            *)
(***************************************************************************)
EXTENDS LazyCaches, TLAPS

LEMMA HomeTypes ==
  ASSUME NEW t \in Everyone
  PROVE  /\ Home(t) \in Processes
         /\ t \in Threads => Home(t) = "parent"
         /\ t \notin Threads => t = Worker /\ Home(t) = "child"
BY ThreadsAssumption DEF Home, Processes, Everyone

LEMMA LockTypes == \A c \in Cells : LockOf(c) \in Locks
BY DEF LockOf, Locks

LEMMA FiguresTypes == /\ Unset \notin Figures
                      /\ \A c \in Cells : Outcomes(c) \subseteq Figures
BY CellsAssumption DEF Outcomes, Cells

-----------------------------------------------------------------------------
(* Types, and what a thread's place says of its locals.                    *)

Looking == {"check", "read", "wait", "recheck", "store", "release"}
Importing == {"spClaim", "spImport", "spRead"}

PlacesInv ==
  \A t \in Everyone :
    /\ pc[t] \in Looking => item[t] \in Cells
    /\ pc[t] \in {"store", "release"} => found[t] \in Figures
    /\ pc[t] = "read" => cell[Home(t)][item[t]] # Unset
    /\ pc[t] \in Importing => t \in Threads

TypeInv == TypeOK /\ PlacesInv

LEMMA TypeInit == Init => TypeInv
<1> SUFFICES ASSUME Init PROVE TypeInv
  OBVIOUS
<1>1. /\ cell \in [Processes -> [Cells -> Figures \cup {Unset}]]
      /\ holder \in [Processes -> [Locks -> Everyone \cup {NoThread}]]
      /\ item \in [Everyone -> Cells \cup {"none"}]
      /\ found \in [Everyone -> Figures \cup {Unset}]
      /\ fills \in [Processes -> [Cells -> Nat]]
      /\ answers \in [Processes -> [Cells -> SUBSET Figures]]
  BY DEF Init
<1>2. pc \in [Everyone -> Places] /\ \A t \in Everyone : pc[t] = "idle"
  BY DEF Init, Places
<1>3. /\ forked \in BOOLEAN /\ attempted \in BOOLEAN /\ sp \in BOOLEAN
      /\ interrupted \in BOOLEAN
  BY DEF Init
<1>4. lookups \in 0 .. MaxLookups
  BY FlagsAssumption DEF Init
<1>5. PlacesInv
  BY <1>2 DEF PlacesInv, Looking, Importing
<1> QED
  BY <1>1, <1>2, <1>3, <1>4, <1>5 DEF TypeInv, TypeOK

\* A lookup that is handed to a reader is one of the figures.
LEMMA AnswerTypes ==
  ASSUME TypeOK, NEW t \in Everyone, item[t] \in Cells,
         NEW v \in Figures, Answer(t, v)
  PROVE  answers' \in [Processes -> [Cells -> SUBSET Figures]]
BY HomeTypes DEF TypeOK, Answer

LEMMA TypeLookup ==
  ASSUME TypeInv, NEW t \in Everyone,
         \/ \E c \in Cells : Ask(t, c)
         \/ Check(t) \/ Read(t) \/ Acquire(t) \/ Recheck(t)
         \/ Measure(t) \/ Store(t) \/ Release(t) \/ WarningRaised(t)
  PROVE  TypeInv'
<1> USE DEF TypeInv
<1>1. CASE \E c \in Cells : Ask(t, c)
  BY <1>1, FlagsAssumption
     DEF Ask, Go, TypeOK, PlacesInv, Looking, Importing, Places, caches, scipy
<1>2. CASE Check(t)
  BY <1>2 DEF Check, Go, FirstTest, Filled, TypeOK, PlacesInv, Looking,
              Importing, Places, caches, scipy
<1>3. CASE Read(t)
  <2>1. item[t] \in Cells /\ cell[Home(t)][item[t]] \in Figures
    BY <1>3, HomeTypes DEF Read, Leave, Go, TypeOK, PlacesInv, Looking
  <2>2. answers' \in [Processes -> [Cells -> SUBSET Figures]]
    BY <1>3, <2>1, AnswerTypes DEF Read
  <2> QED
    BY <1>3, <2>2 DEF Read, Leave, Go, TypeOK, PlacesInv, Looking, Importing,
                      Places, scipy
<1>4. CASE Acquire(t)
  BY <1>4, HomeTypes, LockTypes
     DEF Acquire, Go, TypeOK, PlacesInv, Looking, Importing, Places, scipy
<1>5. CASE Recheck(t)
  <2>1. cell[Home(t)][item[t]] \in Figures
    BY <1>5, HomeTypes DEF Recheck, Go, SecondTest, Filled, TypeOK, PlacesInv,
                           Looking
  <2> QED
    BY <1>5, <2>1 DEF Recheck, Go, TypeOK, PlacesInv, Looking, Importing,
                      Places, caches, scipy
<1>6. CASE Measure(t)
  <2>1. PICK v \in Figures : found' = [found EXCEPT ![t] = v]
    BY <1>6, FiguresTypes DEF Measure, Go, PlacesInv, Looking
  <2>2. fills' \in [Processes -> [Cells -> Nat]]
    BY <1>6, HomeTypes DEF Measure, Go, TypeOK, PlacesInv, Looking
  <2> QED
    BY <1>6, <2>1, <2>2 DEF Measure, Go, TypeOK, PlacesInv, Looking, Importing,
                            Places, scipy
<1>7. CASE Store(t)
  <2>1. /\ item[t] \in Cells /\ found[t] \in Figures
        /\ cell' = [cell EXCEPT ![Home(t)][item[t]] = found[t]]
    BY <1>7 DEF Store, Go, PlacesInv, Looking
  <2>2. cell' \in [Processes -> [Cells -> Figures \cup {Unset}]]
    BY <2>1, HomeTypes DEF TypeOK
  <2>3. \A u \in Everyone : pc'[u] = "read" => cell'[Home(u)][item'[u]] # Unset
    BY <1>7, <2>1, HomeTypes, FiguresTypes
       DEF Store, Go, TypeOK, PlacesInv, Looking
  <2> QED
    BY <1>7, <2>2, <2>3 DEF Store, Go, TypeOK, PlacesInv, Looking, Importing,
                            Places, scipy
<1>8. CASE Release(t)
  <2>1. item[t] \in Cells /\ found[t] \in Figures
    BY <1>8 DEF Release, Leave, Go, PlacesInv, Looking
  <2>2. answers' \in [Processes -> [Cells -> SUBSET Figures]]
    BY <1>8, <2>1, AnswerTypes DEF Release
  <2>3. holder' \in [Processes -> [Locks -> Everyone \cup {NoThread}]]
    BY <1>8, <2>1, HomeTypes, LockTypes DEF Release, Unlocked, TypeOK
  <2> QED
    BY <1>8, <2>2, <2>3 DEF Release, Leave, Go, TypeOK, PlacesInv, Looking,
                            Importing, Places, scipy
<1>9. CASE WarningRaised(t)
  <2>1. item[t] \in Cells
    BY <1>9 DEF WarningRaised, Cells
  <2>2. holder' \in [Processes -> [Locks -> Everyone \cup {NoThread}]]
    BY <1>9, <2>1, HomeTypes, LockTypes DEF WarningRaised, Unlocked, TypeOK
  <2> QED
    BY <1>9, <2>2 DEF WarningRaised, Leave, Go, TypeOK, PlacesInv, Looking,
                      Importing, Places, scipy
<1> QED
  BY <1>1, <1>2, <1>3, <1>4, <1>5, <1>6, <1>7, <1>8, <1>9

LEMMA TypeImport ==
  ASSUME TypeInv, NEW t \in Everyone,
         \/ AskScipy(t) \/ Claim(t) \/ Import(t) \/ ImportInterrupted(t)
         \/ ReadScipy(t)
  PROVE  TypeInv'
<1> USE DEF TypeInv, Go, TypeOK, PlacesInv, Looking, Importing, Places,
            caches, scipy
<1>1. CASE AskScipy(t)
  BY <1>1, FlagsAssumption DEF AskScipy
<1>2. CASE Claim(t)
  BY <1>2 DEF Claim
<1>3. CASE Import(t)
  BY <1>3, FlagsAssumption DEF Import, Imported
<1>4. CASE ImportInterrupted(t)
  BY <1>4 DEF ImportInterrupted
<1>5. CASE ReadScipy(t)
  BY <1>5 DEF ReadScipy
<1> QED
  BY <1>1, <1>2, <1>3, <1>4, <1>5

\* No thread of the worker process exists before the fork.
UnforkedInv == ~ forked => pc[Worker] = "idle"

LEMMA UnforkedStep == TypeInv /\ UnforkedInv /\ [Next]_vars => UnforkedInv'
<1> SUFFICES ASSUME TypeInv, UnforkedInv, [Next]_vars, ~ forked'
             PROVE  pc'[Worker] = "idle"
  BY DEF UnforkedInv
<1>1. ASSUME NEW t \in Everyone, Step(t) PROVE pc'[Worker] = "idle"
  <2>1. t # Worker
    BY <1>1 DEF UnforkedInv, Step, Check, Read, Acquire, Recheck, Measure,
       Store, Release, WarningRaised, Claim, Import, ImportInterrupted,
       ReadScipy, Leave, Go
  <2>2. /\ \E place \in Places : pc' = [pc EXCEPT ![t] = place]
        /\ forked' = forked
    BY <1>1 DEF Step, Check, Read, Acquire, Recheck, Measure, Store, Release,
       WarningRaised, Claim, Import, ImportInterrupted, ReadScipy, Leave, Go,
       Places
  <2> QED
    BY <2>1, <2>2 DEF UnforkedInv, TypeInv, TypeOK, Everyone
<1>2. ASSUME NEW t \in Everyone, NEW c \in Cells, Ask(t, c)
      PROVE  pc'[Worker] = "idle"
  BY <1>2 DEF Ask, Go, UnforkedInv, TypeInv, TypeOK, Everyone
<1>3. ASSUME NEW t \in Everyone, AskScipy(t) PROVE pc'[Worker] = "idle"
  BY <1>3, ThreadsAssumption
     DEF AskScipy, Go, UnforkedInv, TypeInv, TypeOK, Everyone
<1>4. ASSUME NEW t \in Everyone, Fork(t) PROVE FALSE
  BY <1>4 DEF Fork
<1>5. CASE UNCHANGED vars
  BY <1>5 DEF vars, UnforkedInv
<1> QED
  BY <1>1, <1>2, <1>3, <1>4, <1>5 DEF Next

LEMMA TypeFork ==
  ASSUME TypeInv, UnforkedInv, NEW t \in Everyone, Fork(t)
  PROVE  TypeInv'
<1>1. /\ cell' \in [Processes -> [Cells -> Figures \cup {Unset}]]
      /\ holder' \in [Processes -> [Locks -> Everyone \cup {NoThread}]]
      /\ fills' \in [Processes -> [Cells -> Nat]]
      /\ answers' \in [Processes -> [Cells -> SUBSET Figures]]
  BY DEF Fork, TypeInv, TypeOK, Processes
<1>2. TypeOK'
  BY <1>1 DEF Fork, TypeInv, TypeOK, scipy
<1>3. \A u \in Everyone : pc[u] = "read" => u \in Threads
  BY HomeTypes DEF Fork, UnforkedInv
<1>4. \A u \in Threads : cell'[Home(u)] = cell[Home(u)]
  BY HomeTypes DEF Fork, TypeInv, TypeOK, Processes, Everyone
<1> QED
  BY <1>2, <1>3, <1>4 DEF Fork, TypeInv, PlacesInv

LEMMA TypeStep == TypeInv /\ UnforkedInv /\ [Next]_vars => TypeInv'
<1> SUFFICES ASSUME TypeInv, UnforkedInv, [Next]_vars PROVE TypeInv'
  OBVIOUS
<1>1. CASE UNCHANGED vars
  BY <1>1 DEF vars, caches, scipy, TypeInv, TypeOK, PlacesInv
<1>2. ASSUME NEW t \in Everyone, Fork(t) PROVE TypeInv'
  BY <1>2, TypeFork
<1> QED
  BY <1>1, <1>2, TypeLookup, TypeImport DEF Next, Step

-----------------------------------------------------------------------------
\* Type correctness of the caches, whoever looks them up.
THEOREM TypeCorrect == Spec => []TypeOK
<1>1. Init => TypeInv /\ UnforkedInv
  BY TypeInit DEF Init, UnforkedInv, Everyone
<1>2. TypeInv => TypeOK
  BY DEF TypeInv
<1> QED
  BY <1>1, <1>2, TypeStep, UnforkedStep, PTL DEF Spec

-----------------------------------------------------------------------------
(* The locks.  A fork copies a lock that is held, so in the worker process *)
(* its holder may be a thread that does not exist there: nobody ever gets  *)
(* in, and what that thread had begun stays unfinished.                    *)

Inside == {"recheck", "store", "release"}

Holder(t) == holder[Home(t)][LockOf(item[t])]

LockInv ==
  /\ \A t \in Everyone : pc[t] \in Inside => Holder(t) = t
  /\ \A l \in Locks : holder["parent"][l] # Worker

\* A figure that was measured and is not in its cell is on its way there, or
\* was when the parent forked.
OnItsWay(p, c) ==
  LET t == holder[p][LockOf(c)]
  IN  t \in Everyone /\ (Home(t) = p => pc[t] = "store" /\ item[t] = c)

CellInv ==
  /\ \A t \in Everyone : pc[t] = "store" => cell[Home(t)][item[t]] = Unset
  /\ \A t \in Everyone : pc[t] = "release" => cell[Home(t)][item[t]] = found[t]
  /\ \A p \in Processes, c \in Cells :
       cell[p][c] = Unset /\ fills[p][c] # 0 => OnItsWay(p, c)

Inv == /\ TypeInv /\ UnforkedInv
       /\ LockInv /\ CellInv
       /\ FilledOnce /\ ReadersAgree

\* A thread's step that leaves caches and locks as they are, outside the locks.
LEMMA QuietStep ==
  ASSUME Inv, NEW t \in Everyone, NEW place \in Places \ Inside, NEW c,
         pc[t] \notin Inside, UNCHANGED caches,
         pc' = [pc EXCEPT ![t] = place],
         item' = item \/ item' = [item EXCEPT ![t] = c],
         found' = found \/ found' = [found EXCEPT ![t] = Unset]
  PROVE  LockInv' /\ CellInv' /\ FilledOnce' /\ ReadersAgree'
<1>1. \A u \in Everyone : pc'[u] \in Inside =>
        /\ pc'[u] = pc[u] /\ item'[u] = item[u] /\ found'[u] = found[u]
        /\ u # t
  BY DEF Inv, TypeInv, TypeOK
<1>2. LockInv'
  BY <1>1 DEF Inv, LockInv, Holder, caches
<1>3. FilledOnce' /\ ReadersAgree'
  BY DEF Inv, FilledOnce, ReadersAgree, caches
<1>4. \A u \in Everyone : pc[u] = "store" =>
        pc'[u] = "store" /\ item'[u] = item[u]
  BY DEF Inside, Inv, TypeInv, TypeOK
<1>5. \A p \in Processes, d \in Cells : OnItsWay(p, d) => OnItsWay(p, d)'
  BY <1>4 DEF OnItsWay, caches
<1>6. CellInv'
  BY <1>1, <1>5 DEF Inv, CellInv, caches, Inside
<1> QED
  BY <1>2, <1>3, <1>6

LEMMA AcquireStep ==
  ASSUME Inv, NEW t \in Everyone, Acquire(t)
  PROVE  LockInv' /\ CellInv' /\ FilledOnce' /\ ReadersAgree'
<1>1. /\ pc[t] = "wait" /\ item[t] \in Cells /\ t # NoThread
      /\ pc' = [pc EXCEPT ![t] = "recheck"]
      /\ holder' = [holder EXCEPT ![Home(t)][LockOf(item[t])] = t]
      /\ holder[Home(t)][LockOf(item[t])] = NoThread
      /\ UNCHANGED <<cell, fills, answers, item, found>>
  BY ThreadsAssumption DEF Acquire, Go, LockFree, Inv, TypeInv, PlacesInv,
     Looking, Everyone
<1>2. \A u \in Everyone : pc[u] \in Inside => item[u] \in Cells
  BY DEF Inv, TypeInv, PlacesInv, Looking, Inside
<1>3. /\ pc \in [Everyone -> Places]
      /\ holder \in [Processes -> [Locks -> Everyone \cup {NoThread}]]
      /\ NoThread \notin Everyone
  BY ThreadsAssumption DEF Inv, TypeInv, TypeOK, Everyone
<1>4. \A p \in Processes, l \in Locks :
        holder'[p][l] = IF p = Home(t) /\ l = LockOf(item[t]) THEN t
                        ELSE holder[p][l]
  BY <1>1, <1>3, HomeTypes, LockTypes
<1>5. LockInv'
  <2>1. \A u \in Everyone : pc'[u] \in Inside => Holder(u)' = u
    <3> SUFFICES ASSUME NEW u \in Everyone, pc'[u] \in Inside
                 PROVE  holder'[Home(u)][LockOf(item[u])] = u
      BY <1>1 DEF Holder
    <3>1. CASE u = t
      BY <3>1, <1>1, <1>4, HomeTypes, LockTypes
    <3>2. CASE u # t
      <4>1. pc[u] \in Inside /\ item[u] \in Cells
        BY <3>2, <1>1, <1>2, <1>3
      <4>2. holder[Home(u)][LockOf(item[u])] = u
        BY <4>1 DEF Inv, LockInv, Holder
      <4> QED
        BY <4>1, <4>2, <1>1, <1>3, <1>4, HomeTypes, LockTypes
    <3> QED
      BY <3>1, <3>2
  <2>2. \A l \in Locks : holder'["parent"][l] # Worker
    BY <1>4, HomeTypes, ThreadsAssumption DEF Inv, LockInv, Processes
  <2> QED
    BY <2>1, <2>2 DEF LockInv
<1>6. \A u \in Everyone : pc'[u] \in {"store", "release"} => pc[u] = pc'[u]
  BY <1>1, <1>3
<1>7. \A p \in Processes, c \in Cells : OnItsWay(p, c) => OnItsWay(p, c)'
  BY <1>1, <1>3, <1>4, LockTypes DEF OnItsWay
<1>8. CellInv'
  BY <1>1, <1>6, <1>7 DEF Inv, CellInv
<1> QED
  BY <1>1, <1>5, <1>8 DEF Inv, FilledOnce, ReadersAgree

\* Nobody else is inside the lock that t holds.
LEMMA AloneInside ==
  ASSUME Inv, NEW t \in Everyone, pc[t] \in Inside,
         NEW u \in Everyone, pc[u] \in Inside,
         Home(u) = Home(t), LockOf(item[u]) = LockOf(item[t])
  PROVE  u = t
BY DEF Inv, LockInv, Holder

\* Within the lock, before or after the measurement, no figure is on its way.
LEMMA NothingOnItsWay ==
  ASSUME Inv, NEW t \in Everyone, pc[t] \in Inside, NEW c \in Cells,
         LockOf(c) = LockOf(item[t]), OnItsWay(Home(t), c)
  PROVE  pc[t] = "store" /\ item[t] = c
BY DEF Inv, LockInv, Holder, OnItsWay

LEMMA RecheckStep ==
  ASSUME Inv, NEW t \in Everyone, Recheck(t)
  PROVE  LockInv' /\ CellInv' /\ FilledOnce' /\ ReadersAgree'
<1>1. /\ pc[t] = "recheck" /\ item[t] \in Cells
      /\ pc' = [pc EXCEPT ![t] = "release"]
      /\ found' = [found EXCEPT ![t] = cell[Home(t)][item[t]]]
      /\ UNCHANGED <<caches, item>>
  BY DEF Recheck, Go, Inv, TypeInv, PlacesInv, Looking
<1>2. pc \in [Everyone -> Places] /\ found \in [Everyone -> Figures \cup {Unset}]
  BY DEF Inv, TypeInv, TypeOK
<1>3. \A u \in Everyone : pc'[u] \in Inside => pc[u] \in Inside
  BY <1>1, <1>2 DEF Inside
<1>4. LockInv'
  BY <1>1, <1>3 DEF Inv, LockInv, Holder, caches
<1>5. \A p \in Processes, c \in Cells : OnItsWay(p, c) => OnItsWay(p, c)'
  BY <1>1, <1>2 DEF OnItsWay, caches
<1>6. CellInv'
  BY <1>1, <1>2, <1>5 DEF Inv, CellInv, caches
<1> QED
  BY <1>1, <1>4, <1>6 DEF Inv, FilledOnce, ReadersAgree, caches

LEMMA MeasureStep ==
  ASSUME Inv, NEW t \in Everyone, Measure(t)
  PROVE  LockInv' /\ CellInv' /\ FilledOnce' /\ ReadersAgree'
<1>1. /\ pc[t] = "recheck" /\ item[t] \in Cells /\ cell[Home(t)][item[t]] = Unset
      /\ pc' = [pc EXCEPT ![t] = "store"]
      /\ fills' = [fills EXCEPT ![Home(t)][item[t]] = @ + 1]
      /\ \A u \in Everyone : u # t => found'[u] = found[u]
      /\ UNCHANGED <<cell, holder, answers, item>>
  BY DEF Measure, Go, SecondTest, Filled, Inv, TypeInv, TypeOK, PlacesInv, Looking
<1>2. /\ pc \in [Everyone -> Places]
      /\ fills \in [Processes -> [Cells -> Nat]]
  BY DEF Inv, TypeInv, TypeOK
<1>3. Home(t) \in Processes /\ pc[t] \in Inside
  BY <1>1, HomeTypes DEF Inside
<1>4. fills[Home(t)][item[t]] = 0
  <2> SUFFICES ASSUME fills[Home(t)][item[t]] # 0 PROVE FALSE
    OBVIOUS
  <2>1. OnItsWay(Home(t), item[t])
    BY <1>1, <1>3 DEF Inv, CellInv
  <2> QED
    BY <2>1, <1>1, <1>3, NothingOnItsWay
<1>5. \A u \in Everyone : pc'[u] \in Inside => pc[u] \in Inside
  BY <1>1, <1>2, <1>3
<1>6. LockInv'
  BY <1>1, <1>5 DEF Inv, LockInv, Holder
<1>7. FilledOnce'
  BY <1>1, <1>2, <1>3, <1>4 DEF Inv, FilledOnce
<1>8. \A p \in Processes, c \in Cells : OnItsWay(p, c) => OnItsWay(p, c)'
  BY <1>1, <1>2 DEF OnItsWay
<1>9. OnItsWay(Home(t), item[t])'
  BY <1>1, <1>2, <1>3 DEF OnItsWay, Inv, LockInv, Holder
<1>10. CellInv'
  <2>1. \A u \in Everyone : pc'[u] = "store" => cell'[Home(u)][item'[u]] = Unset
    BY <1>1, <1>2 DEF Inv, CellInv
  <2>2. \A u \in Everyone : pc'[u] = "release" => cell'[Home(u)][item'[u]] = found'[u]
    BY <1>1, <1>2 DEF Inv, CellInv
  <2>3. ASSUME NEW p \in Processes, NEW c \in Cells,
               cell'[p][c] = Unset, fills'[p][c] # 0
        PROVE  OnItsWay(p, c)'
    <3>1. CASE p = Home(t) /\ c = item[t]
      BY <3>1, <1>9, <1>1
    <3>2. CASE ~ (p = Home(t) /\ c = item[t])
      BY <3>2, <2>3, <1>1, <1>2, <1>3, <1>8 DEF Inv, CellInv
    <3> QED
      BY <3>1, <3>2
  <2> QED
    BY <2>1, <2>2, <2>3 DEF CellInv
<1> QED
  BY <1>1, <1>6, <1>7, <1>10 DEF Inv, ReadersAgree

LEMMA StoreStep ==
  ASSUME Inv, NEW t \in Everyone, Store(t)
  PROVE  LockInv' /\ CellInv' /\ FilledOnce' /\ ReadersAgree'
<1>1. /\ pc[t] = "store" /\ item[t] \in Cells /\ found[t] \in Figures
      /\ pc' = [pc EXCEPT ![t] = "release"]
      /\ cell' = [cell EXCEPT ![Home(t)][item[t]] = found[t]]
      /\ UNCHANGED <<holder, fills, answers, item, found>>
  BY DEF Store, Go, Inv, TypeInv, PlacesInv, Looking
<1>2. /\ pc \in [Everyone -> Places]
      /\ cell \in [Processes -> [Cells -> Figures \cup {Unset}]]
  BY DEF Inv, TypeInv, TypeOK
<1>3. Home(t) \in Processes /\ pc[t] \in Inside /\ cell[Home(t)][item[t]] = Unset
  BY <1>1, HomeTypes DEF Inside, Inv, CellInv
<1>4. \A p \in Processes, c \in Cells :
        cell'[p][c] = IF p = Home(t) /\ c = item[t] THEN found[t] ELSE cell[p][c]
  BY <1>1, <1>2, <1>3
<1>5. \A u \in Everyone : pc'[u] \in Inside => pc[u] \in Inside /\ item[u] \in Cells
  BY <1>1, <1>2, <1>3 DEF Inside, Inv, TypeInv, PlacesInv, Looking
<1>6. LockInv'
  BY <1>1, <1>5 DEF Inv, LockInv, Holder
<1>7. ReadersAgree'
  <2>1. answers[Home(t)][item[t]] = {}
    <3>1. answers[Home(t)][item[t]] # {} =>
            /\ answers[Home(t)][item[t]] = {Unset}
            /\ answers[Home(t)][item[t]] \subseteq Figures
      BY <1>1, <1>3 DEF Inv, ReadersAgree, TypeInv, TypeOK
    <3> QED
      BY <3>1, FiguresTypes
  <2> QED
    BY <2>1, <1>1, <1>4 DEF Inv, ReadersAgree
<1>8. CellInv'
  <2>1. \A u \in Everyone : pc'[u] = "store" => cell'[Home(u)][item'[u]] = Unset
    <3> SUFFICES ASSUME NEW u \in Everyone, pc'[u] = "store"
                 PROVE  cell'[Home(u)][item[u]] = Unset
      BY <1>1
    <3>1. u # t /\ pc[u] = "store" /\ pc[u] \in Inside /\ item[u] \in Cells
      BY <1>1, <1>2, <1>5 DEF Inside
    <3>2. ~ (Home(u) = Home(t) /\ item[u] = item[t])
      BY <3>1, <1>3, AloneInside
    <3> QED
      BY <3>1, <3>2, <1>4, HomeTypes DEF Inv, CellInv
  <2>2. \A u \in Everyone : pc'[u] = "release" => cell'[Home(u)][item'[u]] = found'[u]
    <3> SUFFICES ASSUME NEW u \in Everyone, pc'[u] = "release"
                 PROVE  cell'[Home(u)][item[u]] = found[u]
      BY <1>1
    <3>1. CASE u = t
      BY <3>1, <1>1, <1>3, <1>4
    <3>2. CASE u # t
      <4>1. pc[u] = "release" /\ pc[u] \in Inside /\ item[u] \in Cells
        BY <3>2, <1>1, <1>2, <1>5 DEF Inside
      <4>2. ~ (Home(u) = Home(t) /\ item[u] = item[t])
        BY <3>2, <4>1, <1>3, AloneInside
      <4> QED
        BY <4>1, <4>2, <1>4, HomeTypes DEF Inv, CellInv
    <3> QED
      BY <3>1, <3>2
  <2>3. ASSUME NEW p \in Processes, NEW c \in Cells,
               cell'[p][c] = Unset, fills'[p][c] # 0
        PROVE  OnItsWay(p, c)'
    <3>1. ~ (p = Home(t) /\ c = item[t]) /\ cell[p][c] = Unset
      BY <2>3, <1>1, <1>4, FiguresTypes
    <3>2. OnItsWay(p, c)
      BY <3>1, <2>3, <1>1 DEF Inv, CellInv
    <3>3. holder[p][LockOf(c)] # t \/ Home(t) # p
      BY <3>1, <3>2 DEF OnItsWay
    <3> QED
      BY <3>2, <3>3, <1>1, <1>2 DEF OnItsWay
  <2> QED
    BY <2>1, <2>2, <2>3 DEF CellInv
<1> QED
  BY <1>1, <1>6, <1>7, <1>8 DEF Inv, FilledOnce

\* Letting go of a lock, by any way out of it.
LEMMA UnlockStep ==
  ASSUME Inv, NEW t \in Everyone, item[t] \in Cells,
         \/ Leave(t, "recheck")
         \/ Leave(t, "release"),
         holder' = Unlocked(t), UNCHANGED <<cell, fills>>
  PROVE  LockInv' /\ CellInv' /\ FilledOnce'
<1>1. /\ pc[t] \in {"recheck", "release"} /\ pc[t] \in Inside
      /\ pc' = [pc EXCEPT ![t] = "idle"]
      /\ \A u \in Everyone : u # t => item'[u] = item[u] /\ found'[u] = found[u]
      /\ Home(t) \in Processes
  BY HomeTypes DEF Leave, Go, Inside, Inv, TypeInv, TypeOK
<1>2. /\ pc \in [Everyone -> Places]
      /\ holder \in [Processes -> [Locks -> Everyone \cup {NoThread}]]
      /\ NoThread \notin Everyone
  BY ThreadsAssumption DEF Inv, TypeInv, TypeOK, Everyone
<1>3. \A p \in Processes, l \in Locks :
        holder'[p][l] = IF p = Home(t) /\ l = LockOf(item[t]) THEN NoThread
                        ELSE holder[p][l]
  BY <1>1, <1>2, LockTypes DEF Unlocked
<1>4. \A u \in Everyone : pc'[u] \in Inside =>
        u # t /\ pc'[u] = pc[u] /\ item[u] \in Cells
  BY <1>1, <1>2 DEF Inside, Inv, TypeInv, PlacesInv, Looking
<1>5. LockInv'
  <2>1. \A u \in Everyone : pc'[u] \in Inside => Holder(u)' = u
    <3> SUFFICES ASSUME NEW u \in Everyone, pc'[u] \in Inside
                 PROVE  holder'[Home(u)][LockOf(item[u])] = u
      BY <1>1, <1>4 DEF Holder
    <3>1. ~ (Home(u) = Home(t) /\ LockOf(item[u]) = LockOf(item[t]))
      BY <1>1, <1>4, AloneInside
    <3> QED
      BY <3>1, <1>3, <1>4, HomeTypes, LockTypes DEF Inv, LockInv, Holder
  <2>2. \A l \in Locks : holder'["parent"][l] # Worker
    BY <1>2, <1>3 DEF Inv, LockInv, Processes, Everyone
  <2> QED
    BY <2>1, <2>2 DEF LockInv
<1>6. CellInv'
  <2>1. \A u \in Everyone : pc'[u] = "store" => cell'[Home(u)][item'[u]] = Unset
    BY <1>1, <1>4 DEF Inv, CellInv, Inside
  <2>2. \A u \in Everyone : pc'[u] = "release" => cell'[Home(u)][item'[u]] = found'[u]
    BY <1>1, <1>4 DEF Inv, CellInv, Inside
  <2>3. ASSUME NEW p \in Processes, NEW c \in Cells,
               cell'[p][c] = Unset, fills'[p][c] # 0
        PROVE  OnItsWay(p, c)'
    <3>1. OnItsWay(p, c)
      BY <2>3 DEF Inv, CellInv
    <3>2. p # Home(t) \/ LockOf(c) # LockOf(item[t])
      BY <3>1, <1>1, NothingOnItsWay
    <3>3. holder'[p][LockOf(c)] = holder[p][LockOf(c)]
      BY <3>2, <1>3, LockTypes
    <3>4. ~ (holder[p][LockOf(c)] = t /\ Home(t) = p /\ pc[t] = "store")
      BY <1>1
    <3> QED
      BY <3>1, <3>3, <3>4, <1>1, <1>2 DEF OnItsWay
  <2> QED
    BY <2>1, <2>2, <2>3 DEF CellInv
<1> QED
  BY <1>5, <1>6 DEF Inv, FilledOnce

\* A reader is told what its cell holds.
LEMMA AnswerStep ==
  ASSUME Inv, NEW t \in Everyone, item[t] \in Cells,
         Answer(t, cell[Home(t)][item[t]]), cell' = cell
  PROVE  ReadersAgree'
<1>1. answers \in [Processes -> [Cells -> SUBSET Figures]]
  BY DEF Inv, TypeInv, TypeOK
<1>2. \A p \in Processes, c \in Cells :
        answers'[p][c] = IF p = Home(t) /\ c = item[t]
                         THEN answers[p][c] \cup {cell[p][c]}
                         ELSE answers[p][c]
  BY <1>1, HomeTypes DEF Answer
<1>3. \A p \in Processes, c \in Cells :
        answers[p][c] = {} \/ answers[p][c] = {cell[p][c]}
  BY DEF Inv, ReadersAgree
<1>4. ASSUME NEW p \in Processes, NEW c \in Cells
      PROVE  answers'[p][c] = {} \/ answers'[p][c] = {cell[p][c]}
  <2>1. CASE p = Home(t) /\ c = item[t]
    <3>1. answers'[p][c] = answers[p][c] \cup {cell[p][c]}
      BY <2>1, <1>2
    <3> QED
      BY <3>1, <1>3
  <2> QED
    BY <2>1, <1>2, <1>3
<1> QED
  BY <1>4 DEF ReadersAgree

LEMMA ReadStep ==
  ASSUME Inv, NEW t \in Everyone, Read(t)
  PROVE  LockInv' /\ CellInv' /\ FilledOnce' /\ ReadersAgree'
<1>1. /\ pc[t] = "read" /\ item[t] \in Cells
      /\ pc' = [pc EXCEPT ![t] = "idle"]
      /\ \A u \in Everyone : u # t => item'[u] = item[u] /\ found'[u] = found[u]
      /\ UNCHANGED <<cell, holder, fills>>
  BY DEF Read, Leave, Go, Inv, TypeInv, TypeOK, PlacesInv, Looking
<1>2. pc \in [Everyone -> Places]
  BY DEF Inv, TypeInv, TypeOK
<1>3. \A u \in Everyone : pc'[u] \in Inside => u # t /\ pc'[u] = pc[u]
  BY <1>1, <1>2 DEF Inside
<1>4. LockInv'
  BY <1>1, <1>3 DEF Inv, LockInv, Holder
<1>5. \A p \in Processes, c \in Cells : OnItsWay(p, c) => OnItsWay(p, c)'
  BY <1>1, <1>2 DEF OnItsWay
<1>6. CellInv'
  BY <1>1, <1>3, <1>5 DEF Inv, CellInv, Inside
<1>7. ReadersAgree'
  BY <1>1, AnswerStep DEF Read
<1> QED
  BY <1>1, <1>4, <1>6, <1>7 DEF Inv, FilledOnce

LEMMA ReleaseStep ==
  ASSUME Inv, NEW t \in Everyone, Release(t)
  PROVE  LockInv' /\ CellInv' /\ FilledOnce' /\ ReadersAgree'
<1>1. /\ item[t] \in Cells /\ found[t] = cell[Home(t)][item[t]]
      /\ Leave(t, "release")
  BY DEF Release, Leave, Go, Inv, TypeInv, PlacesInv, Looking, CellInv
<1> QED
  BY <1>1, UnlockStep, AnswerStep DEF Release

LEMMA WarningStep ==
  ASSUME Inv, NEW t \in Everyone, WarningRaised(t)
  PROVE  LockInv' /\ CellInv' /\ FilledOnce' /\ ReadersAgree'
<1>1. item[t] \in Cells /\ Leave(t, "recheck")
  BY DEF WarningRaised, Cells
<1> QED
  BY <1>1, UnlockStep DEF WarningRaised, Inv, ReadersAgree

\* The child starts with its parent's caches, and with nobody inside.
LEMMA ForkStep ==
  ASSUME Inv, NEW t \in Everyone, Fork(t)
  PROVE  LockInv' /\ CellInv' /\ FilledOnce' /\ ReadersAgree'
<1>1. UNCHANGED <<pc, item, found>> /\ pc[Worker] = "idle"
  BY DEF Fork, Inv, UnforkedInv
<1>2. /\ \A p \in Processes : cell'[p] = cell["parent"]
      /\ \A p \in Processes : holder'[p] = holder["parent"]
      /\ \A p \in Processes : fills'[p] = fills["parent"]
      /\ \A p \in Processes : answers'[p] = answers["parent"]
  BY DEF Fork, Inv, TypeInv, TypeOK, Processes
<1>3. \A u \in Everyone : pc[u] \in Inside => Home(u) = "parent"
  BY <1>1, HomeTypes DEF Inside
<1>4. \A u \in Everyone : u # Worker => Home(u) = "parent"
  BY HomeTypes DEF Everyone
<1>5. "parent" \in Processes
  BY DEF Processes
<1>6. LockInv'
  BY <1>1, <1>2, <1>3, <1>5 DEF Inv, LockInv, Holder
<1>7. \A p \in Processes, c \in Cells : OnItsWay("parent", c) => OnItsWay(p, c)'
  <2> SUFFICES ASSUME NEW p \in Processes, NEW c \in Cells, OnItsWay("parent", c)
               PROVE  OnItsWay(p, c)'
    OBVIOUS
  <2>1. holder["parent"][LockOf(c)] # Worker
    BY LockTypes DEF Inv, LockInv
  <2> QED
    BY <2>1, <1>1, <1>2, <1>4, <1>5 DEF OnItsWay
<1>8. CellInv'
  BY <1>1, <1>2, <1>3, <1>5, <1>7 DEF Inv, CellInv, Inside
<1> QED
  BY <1>2, <1>5, <1>6, <1>8 DEF Inv, FilledOnce, ReadersAgree

-----------------------------------------------------------------------------
LEMMA InvInit == Init => Inv
<1> SUFFICES ASSUME Init PROVE Inv
  OBVIOUS
<1>1. TypeInv /\ UnforkedInv
  BY TypeInit DEF Init, UnforkedInv, Everyone
<1>2. LockInv
  BY ThreadsAssumption, HomeTypes
     DEF Init, LockInv, Inside, Processes, Everyone
<1>3. CellInv /\ FilledOnce /\ ReadersAgree
  BY DEF Init, CellInv, FilledOnce, ReadersAgree
<1> QED
  BY <1>1, <1>2, <1>3 DEF Inv

LEMMA InvStep == Inv /\ [Next]_vars => Inv'
<1> SUFFICES ASSUME Inv, [Next]_vars
             PROVE  LockInv' /\ CellInv' /\ FilledOnce' /\ ReadersAgree'
  BY TypeStep, UnforkedStep DEF Inv
<1>1. CASE UNCHANGED vars
  <2>1. \A p \in Processes, c \in Cells : OnItsWay(p, c) = OnItsWay(p, c)'
    BY <1>1 DEF vars, caches, OnItsWay
  <2> QED
    BY <2>1, <1>1 DEF vars, caches, Inv, LockInv, Holder, CellInv, FilledOnce,
                      ReadersAgree
<1>2. ASSUME NEW t \in Everyone, NEW c \in Cells, Ask(t, c)
      PROVE  LockInv' /\ CellInv' /\ FilledOnce' /\ ReadersAgree'
  BY <1>2, QuietStep DEF Ask, Go, Inside, Places
<1>3. ASSUME NEW t \in Everyone,
             AskScipy(t) \/ Claim(t) \/ Import(t) \/ ImportInterrupted(t)
             \/ ReadScipy(t) \/ Check(t)
      PROVE  LockInv' /\ CellInv' /\ FilledOnce' /\ ReadersAgree'
  <2>1. /\ pc[t] \notin Inside
        /\ \E place \in Places \ Inside : pc' = [pc EXCEPT ![t] = place]
        /\ UNCHANGED <<caches, item, found>>
    BY <1>3 DEF AskScipy, Claim, Import, ImportInterrupted, ReadScipy, Check,
       Go, Inside, Places
  <2> QED
    BY <2>1, QuietStep
<1>4. ASSUME NEW t \in Everyone, Fork(t)
      PROVE  LockInv' /\ CellInv' /\ FilledOnce' /\ ReadersAgree'
  BY <1>4, ForkStep
<1> QED
  BY <1>1, <1>2, <1>3, <1>4, ReadStep, AcquireStep, RecheckStep, MeasureStep,
     StoreStep, ReleaseStep, WarningStep DEF Next, Step

LEMMA Correct == Spec => []Inv
BY InvInit, InvStep, PTL DEF Spec

\* However many threads meet at a cache, and wherever a fork falls, no process
\* repeats a measurement that it or its parent has made.
THEOREM MeasuredOnce == Spec => []FilledOnce
<1>1. Inv => FilledOnce
  BY DEF Inv
<1> QED
  BY <1>1, Correct, PTL

\* All the callers of a process are told the same figure, the cached one.
THEOREM OneFigure == Spec => []ReadersAgree
<1>1. Inv => ReadersAgree
  BY DEF Inv
<1> QED
  BY <1>1, Correct, PTL

-----------------------------------------------------------------------------
(* The flag of scipy is set before the module is there.                    *)

ScipyInv ==
  /\ Installed /\ attempted /\ ~ sp =>
       interrupted \/ \E u \in Threads : pc[u] = "spImport"
  /\ \A t \in Everyone : pc[t] \in {"spImport", "spRead"} => attempted

LEMMA ScipyStep == TypeInv /\ ScipyInv /\ [Next]_vars => ScipyInv'
<1> SUFFICES ASSUME TypeInv, ScipyInv, [Next]_vars PROVE ScipyInv'
  OBVIOUS
<1>1. pc \in [Everyone -> Places]
  BY DEF TypeInv, TypeOK
<1>2. CASE UNCHANGED vars
  BY <1>2 DEF vars, scipy, ScipyInv
<1>3. ASSUME NEW t \in Everyone, NEW from \in Places \ {"spImport"},
             NEW to \in Places, Go(t, from, to), UNCHANGED scipy,
             to \in {"spImport", "spRead"} => attempted
      PROVE  ScipyInv'
  <2>1. \A u \in Threads : pc[u] = "spImport" => pc'[u] = "spImport"
    BY <1>1, <1>3 DEF Go, Everyone
  <2> QED
    BY <2>1, <1>1, <1>3 DEF Go, scipy, ScipyInv
<1>4. ASSUME NEW t \in Everyone,
             \/ \E c \in Cells : Ask(t, c)
             \/ Check(t) \/ Read(t) \/ Acquire(t) \/ Recheck(t) \/ Measure(t)
             \/ Store(t) \/ Release(t) \/ WarningRaised(t) \/ AskScipy(t)
             \/ ReadScipy(t)
      PROVE  ScipyInv'
  <2>1. /\ UNCHANGED scipy
        /\ \E from \in Places \ {"spImport"}, to \in Places :
             Go(t, from, to) /\ (to \in {"spImport", "spRead"} => attempted)
    BY <1>4 DEF Ask, Check, Read, Acquire, Recheck, Measure, Store, Release,
       WarningRaised, AskScipy, ReadScipy, Leave, Places, scipy
  <2> QED
    BY <2>1, <1>3
<1>5. ASSUME NEW t \in Everyone, Claim(t) PROVE ScipyInv'
  <2>1. t \in Threads
    BY <1>5 DEF Claim, Go, TypeInv, PlacesInv, Importing
  <2> QED
    BY <2>1, <1>1, <1>5 DEF Claim, Go, ScipyInv
<1>6. ASSUME NEW t \in Everyone, Import(t) PROVE ScipyInv'
  <2>1. t \in Threads
    BY <1>6 DEF Import, Go, TypeInv, PlacesInv, Importing
  <2>2. attempted
    BY <1>6 DEF Import, Go, ScipyInv
  <2> QED
    BY <2>1, <2>2, <1>1, <1>6 DEF Import, Imported, Go, ScipyInv
<1>7. ASSUME NEW t \in Everyone, ImportInterrupted(t) PROVE ScipyInv'
  BY <1>1, <1>7 DEF ImportInterrupted, Go, ScipyInv
<1>8. ASSUME NEW t \in Everyone, Fork(t) PROVE ScipyInv'
  BY <1>8 DEF Fork, scipy, ScipyInv
<1> QED
  BY <1>2, <1>4, <1>5, <1>6, <1>7, <1>8 DEF Next, Step

\* An installed scipy is missed only while some thread is importing it, or
\* after an import that an exception cut short.
THEOREM MissedOnlyDuringImport == Spec => BlindOnlyDuringImport
<1>1. Init => TypeInv /\ UnforkedInv /\ ScipyInv
  BY TypeInit DEF Init, UnforkedInv, ScipyInv, Everyone
<1>2. TypeInv /\ ScipyInv =>
        \A t \in Threads : (ReadScipy(t) /\ Installed /\ ~ sp)
          => interrupted \/ \E u \in Threads : pc[u] = "spImport"
  BY DEF ReadScipy, Go, ScipyInv, Everyone
<1>3. TypeInv /\ ScipyInv =>
        [\A t \in Threads : (ReadScipy(t) /\ Installed /\ ~ sp)
          => interrupted \/ \E u \in Threads : pc[u] = "spImport"]_vars
  BY <1>2
<1> QED
  BY <1>1, <1>3, TypeStep, UnforkedStep, ScipyStep, PTL
     DEF Spec, BlindOnlyDuringImport
=============================================================================
