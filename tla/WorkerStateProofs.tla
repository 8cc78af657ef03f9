-------------------------- MODULE WorkerStateProofs --------------------------
(***************************************************************************)
(* Proofs about the shared worker state for every set of calls, number of  *)
(* threads and number of chunks.  What calls keep of each other needs that *)
(* one does not begin while another is under way; the rest does not.       *)
(***************************************************************************)
EXTENDS WorkerState, TLAPS

\* Everything that can happen, one action per step.
Steps(c) ==
  \/ Save(c) \/ Set(c) \/ Release(c) \/ PrimingFails(c) \/ StartRefused(c)
  \/ BarrierOpens(c) \/ BarrierBreaks(c)
  \/ DrainEnds(c) \/ LeaveEarly(c) \/ Join(c) \/ Restore(c)
  \/ \E t \in Threads : Thread(c, t)

LEMMA NextIsSteps == Next <=> \E c \in Calls : Steps(c)
BY DEF Next, Steps, Call, Barrier

-----------------------------------------------------------------------------
(* Type correctness.                                                       *)

LEMMA TypeInit == Init => TypeOK
BY CallsAssumption DEF Init, TypeOK, States, Stages, Places

LEMMA TypeStep == TypeOK /\ [Next]_vars => TypeOK'
<1> SUFFICES ASSUME TypeOK, [Next]_vars PROVE TypeOK'
  OBVIOUS
<1> USE CallsAssumption DEF TypeOK, MoveTo, ThreadTo, LetGo, fixed, States, Stages, Places
<1>1. CASE UNCHANGED vars
  BY <1>1 DEF vars
<1>2. ASSUME NEW c \in Calls, Steps(c) PROVE TypeOK'
  <2>1. CASE Save(c)
    BY <2>1 DEF Save
  <2>2. CASE Set(c)
    BY <2>2 DEF Set
  <2>3. CASE Release(c)
    BY <2>3 DEF Release
  <2>4. CASE PrimingFails(c)
    BY <2>4 DEF PrimingFails
  <2>5. CASE StartRefused(c)
    BY <2>5 DEF StartRefused
  <2>6. CASE BarrierOpens(c)
    BY <2>6 DEF BarrierOpens
  <2>7. CASE BarrierBreaks(c)
    BY <2>7 DEF BarrierBreaks
  <2>8. CASE DrainEnds(c)
    BY <2>8 DEF DrainEnds
  <2>9. CASE LeaveEarly(c)
    BY <2>9 DEF LeaveEarly
  <2>10. CASE Join(c)
    BY <2>10 DEF Join
  <2>11. CASE Restore(c)
    BY <2>11 DEF Restore
  <2>12. ASSUME NEW t \in Threads, Thread(c, t) PROVE TypeOK'
    <3>1. CASE Spawn(c, t)
      <4>1. PICK p \in {"waiting", "ready"} : thread' = [thread EXCEPT ![c][t] = p]
        BY <3>1 DEF Spawn
      <4>2. thread' \in [Calls -> [Threads -> Places]]
        BY <4>1
      <4>3. primers' \in [Calls -> 0 .. NThreads]
        <5>1. CASE primers[c] > 0 /\ primers' = [primers EXCEPT ![c] = @ - 1]
          <6>1. primers[c] \in 0 .. NThreads /\ primers[c] - 1 \in 0 .. NThreads
            BY <5>1
          <6> QED
            BY <5>1, <6>1
        <5> QED
          BY <3>1, <5>1 DEF Spawn
      <4> QED
        BY <3>1, <4>2, <4>3 DEF Spawn
    <3>2. CASE Begin(c, t)
      <4>1. left[c] \in 0 .. NChunks /\ left[c] - 1 \in 0 .. NChunks
        BY <3>2 DEF Begin
      <4>2. left' \in [Calls -> 0 .. NChunks]
        BY <3>2, <4>1 DEF Begin
      <4>3. read' \in [Calls -> [Threads -> States]]
        BY <3>2 DEF Begin
      <4> QED
        BY <3>2, <4>2, <4>3 DEF Begin
    <3>3. CASE End(c, t)
      BY <3>3 DEF End
    <3>4. CASE Raise(c, t)
      BY <3>4 DEF Raise
    <3>5. CASE Stop(c, t)
      BY <3>5 DEF Stop
    <3> QED
      BY <2>12, <3>1, <3>2, <3>3, <3>4, <3>5 DEF Thread
  <2> QED
    BY <1>2, <2>1, <2>2, <2>3, <2>4, <2>5, <2>6, <2>7, <2>8, <2>9, <2>10, <2>11,
       <2>12 DEF Steps
<1> QED
  BY <1>1, <1>2, NextIsSteps

\* Every variable keeps its type, however calls overlap.
THEOREM TypeCorrect == Spec => []TypeOK
BY TypeInit, TypeStep, PTL DEF Spec

-----------------------------------------------------------------------------
(* The barrier.                                                            *)

\* Up to the barrier an eager call has taken no chunk, some thread took its
\* first primer, and a primer that has returned found all threads there;
\* behind it every thread was born.
BarrierHolds ==
  \A c \in Calls : eager[c] =>
    IF stage[c] \in {"new", "saved", "priming", "broken"}
      THEN /\ left[c] = NChunks
           /\ \A t \in Threads : thread[c][t] \in {"absent", "waiting", "primed", "stopped"}
           /\ (\A t \in Threads : thread[c][t] = "absent") => primers[c] = NThreads
           /\ \A t, u \in Threads : thread[c][t] = "primed" => thread[c][u] # "absent"
      ELSE \A t \in Threads : thread[c][t] # "absent"

LEMMA BarrierInit == Init => BarrierHolds
BY DEF Init, BarrierHolds

LEMMA BarrierStep == TypeOK /\ BarrierHolds /\ [Next]_vars => BarrierHolds'
<1> SUFFICES ASSUME TypeOK, BarrierHolds, [Next]_vars PROVE BarrierHolds'
  OBVIOUS
<1> USE DEF TypeOK, BarrierHolds, MoveTo, ThreadTo, LetGo, fixed
<1>1. CASE UNCHANGED vars
  BY <1>1 DEF vars
<1>2. ASSUME NEW c \in Calls, Steps(c) PROVE BarrierHolds'
  <2>1. CASE Save(c)
    BY <2>1 DEF Save
  <2>2. CASE Set(c)
    BY <2>2 DEF Set
  <2>3. CASE Release(c)
    <3>1. eager[c] => \A t \in Threads : thread[c][t] = "primed"
      BY <2>3, CallsAssumption DEF Release, AllPrimed, Threads
    <3> QED
      BY <2>3, <3>1 DEF Release
  <2>4. CASE PrimingFails(c)
    BY <2>4 DEF PrimingFails
  <2>5. CASE StartRefused(c)
    BY <2>5 DEF StartRefused
  <2>6. CASE BarrierOpens(c)
    BY <2>6 DEF BarrierOpens, AllArrived
  <2>7. CASE BarrierBreaks(c)
    BY <2>7 DEF BarrierBreaks
  <2>8. CASE DrainEnds(c)
    BY <2>8 DEF DrainEnds
  <2>9. CASE LeaveEarly(c)
    BY <2>9 DEF LeaveEarly
  <2>10. CASE Join(c)
    BY <2>10 DEF Join, Stopped
  <2>11. CASE Restore(c)
    BY <2>11 DEF Restore
  <2>12. ASSUME NEW t \in Threads, Thread(c, t) PROVE BarrierHolds'
    <3>1. CASE Spawn(c, t)
      <4>1. PICK p \in {"waiting", "ready"} :
               /\ thread' = [thread EXCEPT ![c][t] = p]
               /\ p = "ready" => stage[c] \in {"draining", "leaving"}
        BY <3>1 DEF Spawn
      <4>2. /\ UNCHANGED <<eager, stage, left>>
            /\ \A d \in Calls \ {c} : primers'[d] = primers[d]
        BY <3>1 DEF Spawn
      <4> QED
        BY <4>1, <4>2
    <3>2. CASE Begin(c, t)
      <4>1. eager[c] => stage[c] \notin {"new", "saved", "priming", "broken"}
        BY <3>2 DEF Begin
      <4>2. /\ thread' = [thread EXCEPT ![c][t] = "computing"]
            /\ \A d \in Calls \ {c} : left'[d] = left[d]
            /\ UNCHANGED <<eager, stage, primers>>
        BY <3>2 DEF Begin
      <4> QED
        BY <4>1, <4>2
    <3>3. CASE End(c, t)
      BY <3>3 DEF End
    <3>4. CASE Raise(c, t)
      BY <3>4 DEF Raise
    <3>5. CASE Stop(c, t)
      BY <3>5 DEF Stop
    <3> QED
      BY <2>12, <3>1, <3>2, <3>3, <3>4, <3>5 DEF Thread
  <2> QED
    BY <1>2, <2>1, <2>2, <2>3, <2>4, <2>5, <2>6, <2>7, <2>8, <2>9, <2>10, <2>11,
       <2>12 DEF Steps
<1> QED
  BY <1>1, <1>2, NextIsSteps

LEMMA BarrierImplies == TypeOK /\ BarrierHolds => ThreadsBeforeChunks
BY CallsAssumption DEF TypeOK, BarrierHolds, ThreadsBeforeChunks

\* The eager barrier does what it is for: no chunk is started before every
\* thread of the pool exists, however calls overlap.
THEOREM BarrierFirst == Spec => []ThreadsBeforeChunks
<1>1. Init => TypeOK /\ BarrierHolds
  BY TypeInit, BarrierInit
<1>2. TypeOK /\ BarrierHolds /\ [Next]_vars => (TypeOK /\ BarrierHolds)'
  BY TypeStep, BarrierStep
<1> QED
  BY <1>1, <1>2, BarrierImplies, PTL DEF Spec

-----------------------------------------------------------------------------
(* Save, set and restore, one call at a time.                              *)

InForce == {"priming", "broken", "draining", "leaving", "joined"}

OneAlive == \A c, d \in Calls : Alive(c) /\ Alive(d) => c = d

\* What a call saves is what the process held at the start, and from the
\* time it has set its own state to the time it restores, that is the global.
GlobalBelongs ==
  \A c \in Calls :
    /\ stage[c] = "saved" => saved[c] = initial /\ global = initial
    /\ stage[c] \in InForce => saved[c] = initial /\ global = c

\* A call's threads live only while its state is in force.
ThreadsInside ==
  \A c \in Calls :
    /\ stage[c] \in {"new", "saved"} => \A t \in Threads : thread[c][t] = "absent"
    /\ stage[c] \in {"joined", "ended"} => \A t \in Threads : Stopped(c, t)

ReadOwn ==
  \A c \in Calls : \A t \in Threads : thread[c][t] = "computing" => read[c][t] = c

StateInv == /\ TypeOK /\ OneAlive /\ GlobalBelongs /\ ThreadsInside
            /\ ReadOwn /\ StateRestored /\ OwnOperator

LEMMA StateInit == Init => StateInv
<1> SUFFICES ASSUME Init PROVE StateInv
  OBVIOUS
<1>1. TypeOK
  BY TypeInit
<1> QED
  BY <1>1 DEF Init, StateInv, OneAlive, GlobalBelongs, ThreadsInside, ReadOwn,
              StateRestored, OwnOperator, Alive, InForce

\* A chunk can only begin while its call's state is in force.
LEMMA BeginInForce ==
  ASSUME StateInv, NEW c \in Calls, NEW t \in Threads,
         thread[c][t] \in {"ready", "computing"}
  PROVE  stage[c] \in InForce
BY DEF StateInv, TypeOK, ThreadsInside, Stopped, InForce, Stages

LEMMA StateStep ==
  ASSUME MayOverlap = FALSE, StateInv, [Next]_vars PROVE StateInv'
<1>t. TypeOK /\ TypeOK'
  BY TypeStep DEF StateInv
<1> USE DEF fixed, MoveTo, ThreadTo, LetGo
<1>1. CASE UNCHANGED vars
  BY <1>1, <1>t DEF vars, StateInv, OneAlive, GlobalBelongs, ThreadsInside,
                    ReadOwn, StateRestored, OwnOperator, Alive, Stopped
<1>2. ASSUME NEW c \in Calls, Steps(c) PROVE StateInv'
  <2>1. CASE Save(c)
    <3> USE <1>t, <2>1 DEF Save, TypeOK
    <3>1. \A d \in Calls : ~Alive(d)
      OBVIOUS
    <3>2. global = initial
      BY <3>1 DEF StateInv, StateRestored
    <3>3. OneAlive' /\ StateRestored'
      BY <3>1, <3>2 DEF StateInv, OneAlive, StateRestored, Alive
    <3>4. GlobalBelongs'
      BY <3>1, <3>2 DEF StateInv, GlobalBelongs, Alive, InForce
    <3>5. ThreadsInside' /\ ReadOwn' /\ OwnOperator'
      BY DEF StateInv, ThreadsInside, ReadOwn, OwnOperator, Stopped
    <3> QED
      BY <3>3, <3>4, <3>5 DEF StateInv
  <2>2. CASE Set(c)
    <3> USE <1>t, <2>2 DEF Set, TypeOK
    <3>1. \A d \in Calls \ {c} : ~Alive(d)
      BY DEF StateInv, OneAlive, Alive
    <3>2. OneAlive' /\ StateRestored'
      BY <3>1 DEF StateInv, OneAlive, StateRestored, Alive
    <3>3. GlobalBelongs'
      BY <3>1 DEF StateInv, GlobalBelongs, Alive, InForce
    <3>4. ThreadsInside' /\ ReadOwn' /\ OwnOperator'
      BY DEF StateInv, ThreadsInside, ReadOwn, OwnOperator, Stopped
    <3> QED
      BY <3>2, <3>3, <3>4 DEF StateInv
  <2>3. CASE Restore(c)
    <3> USE <1>t, <2>3 DEF Restore, TypeOK
    <3>1. \A d \in Calls \ {c} : ~Alive(d)
      BY DEF StateInv, OneAlive, Alive
    <3>2. global' = initial
      BY DEF StateInv, GlobalBelongs, InForce
    <3>3. OneAlive' /\ StateRestored'
      BY <3>1, <3>2 DEF StateInv, OneAlive, StateRestored, Alive
    <3>4. GlobalBelongs'
      BY <3>1, <3>2 DEF StateInv, GlobalBelongs, Alive, InForce
    <3>5. ThreadsInside' /\ ReadOwn' /\ OwnOperator'
      BY DEF StateInv, ThreadsInside, ReadOwn, OwnOperator, Stopped
    <3> QED
      BY <3>3, <3>4, <3>5 DEF StateInv
  <2>4. CASE \/ Release(c) \/ PrimingFails(c) \/ StartRefused(c)
             \/ DrainEnds(c) \/ LeaveEarly(c) \/ Join(c)
    <3> USE <1>t
    <3>1. PICK there \in InForce :
             /\ stage[c] \in InForce
             /\ stage' = [stage EXCEPT ![c] = there]
             /\ UNCHANGED <<global, initial, saved, read, used>>
      BY <2>4 DEF Release, PrimingFails, StartRefused, DrainEnds, LeaveEarly, Join, InForce
    <3>2. OneAlive' /\ StateRestored'
      BY <3>1 DEF StateInv, OneAlive, StateRestored, Alive, InForce, TypeOK
    <3>3. GlobalBelongs'
      BY <3>1 DEF StateInv, GlobalBelongs, InForce, TypeOK
    <3>4. ThreadsInside' /\ ReadOwn'
      <4> USE DEF StateInv, ThreadsInside, ReadOwn, Stopped, TypeOK
      <4>1. CASE Release(c)
        BY <4>1 DEF Release
      <4>2. CASE PrimingFails(c)
        BY <4>2 DEF PrimingFails
      <4>3. CASE StartRefused(c)
        BY <4>3 DEF StartRefused
      <4>4. CASE DrainEnds(c)
        BY <4>4 DEF DrainEnds
      <4>5. CASE LeaveEarly(c)
        BY <4>5 DEF LeaveEarly
      <4>6. CASE Join(c)
        BY <4>6 DEF Join
      <4> QED
        BY <2>4, <4>1, <4>2, <4>3, <4>4, <4>5, <4>6
    <3>5. OwnOperator'
      BY <3>1 DEF StateInv, OwnOperator
    <3> QED
      BY <3>2, <3>3, <3>4, <3>5 DEF StateInv
  <2>5. CASE BarrierOpens(c) \/ BarrierBreaks(c)
    <3>1. UNCHANGED <<global, initial, stage, saved, read, used>>
      BY <2>5 DEF BarrierOpens, BarrierBreaks
    <3>2. PICK where \in {"primed", "stopped"} : LetGo(c, where)
      BY <2>5 DEF BarrierOpens, BarrierBreaks
    <3>3. OneAlive' /\ StateRestored' /\ GlobalBelongs' /\ OwnOperator'
      BY <3>1 DEF StateInv, OneAlive, StateRestored, GlobalBelongs, OwnOperator, Alive
    <3>4. ThreadsInside' /\ ReadOwn'
      BY <1>t, <3>1, <3>2 DEF StateInv, ThreadsInside, ReadOwn, Stopped, TypeOK
    <3> QED
      BY <1>t, <3>3, <3>4 DEF StateInv
  <2>6. ASSUME NEW t \in Threads, Thread(c, t) PROVE StateInv'
    <3>1. UNCHANGED <<global, initial, stage, saved>>
      BY <2>6 DEF Thread, Spawn, Begin, End, Raise, Stop
    <3>2. OneAlive' /\ StateRestored' /\ GlobalBelongs'
      BY <3>1 DEF StateInv, OneAlive, StateRestored, GlobalBelongs, Alive
    <3>3. ThreadsInside'
      <4>0. ThreadsInside
        BY DEF StateInv
      <4>1. CASE Spawn(c, t)
        <5>1. stage[c] \notin {"new", "saved"}
          BY <4>1 DEF Spawn
        <5>2. stage[c] \notin {"joined", "ended"}
          BY <4>1 DEF Spawn
        <5>3. \A d \in Calls \ {c} : thread'[d] = thread[d]
          BY <4>1, <1>t DEF Spawn, TypeOK
        <5> QED
          BY <3>1, <4>0, <5>1, <5>2, <5>3 DEF ThreadsInside, Stopped
      <4>2. CASE Begin(c, t)
        BY <1>t, <3>1, <4>0, <4>2 DEF TypeOK, ThreadsInside, Stopped, Begin
      <4>3. CASE End(c, t)
        BY <1>t, <3>1, <4>0, <4>3 DEF TypeOK, ThreadsInside, Stopped, End
      <4>4. CASE Raise(c, t)
        BY <1>t, <3>1, <4>0, <4>4 DEF TypeOK, ThreadsInside, Stopped, Raise
      <4>5. CASE Stop(c, t)
        BY <1>t, <3>1, <4>0, <4>5 DEF TypeOK, ThreadsInside, Stopped, Stop
      <4> QED
        BY <2>6, <4>1, <4>2, <4>3, <4>4, <4>5 DEF Thread
    <3>4. ReadOwn' /\ OwnOperator'
      <4>1. CASE Spawn(c, t)
        <5>1. \A d \in Calls, u \in Threads :
                thread'[d][u] = "computing" => thread[d][u] = "computing"
          <6>1. PICK where \in {"waiting", "ready"} : ThreadTo(c, t, where)
            BY <4>1 DEF Spawn
          <6>2. thread \in [Calls -> [Threads -> Places]]
            BY <1>t DEF TypeOK
          <6> QED
            BY <6>1, <6>2
        <5>2. read' = read /\ used' = used
          BY <4>1 DEF Spawn
        <5> QED
          BY <5>1, <5>2 DEF StateInv, ReadOwn, OwnOperator
      <4>2. CASE Begin(c, t)
        <5>1. global = c
          BY <1>t, <4>2, BeginInForce DEF TypeOK, Begin, StateInv, GlobalBelongs
        <5> QED
          BY <1>t, <4>2, <5>1 DEF TypeOK, StateInv, ReadOwn, OwnOperator, Begin
      <4>3. CASE End(c, t)
        BY <1>t, <4>3 DEF TypeOK, StateInv, ReadOwn, OwnOperator, End
      <4>4. CASE Raise(c, t)
        BY <1>t, <4>4 DEF TypeOK, StateInv, ReadOwn, OwnOperator, Raise
      <4>5. CASE Stop(c, t)
        BY <1>t, <4>5 DEF TypeOK, StateInv, ReadOwn, OwnOperator, Stop
      <4> QED
        BY <2>6, <4>1, <4>2, <4>3, <4>4, <4>5 DEF Thread
    <3> QED
      BY <1>t, <3>2, <3>3, <3>4 DEF StateInv
  <2> QED
    BY <1>2, <2>1, <2>2, <2>3, <2>4, <2>5, <2>6 DEF Steps
<1> QED
  BY <1>1, <1>2, NextIsSteps

LEMMA StateAlways == ASSUME MayOverlap = FALSE PROVE Spec => []StateInv
<1>1. Init => StateInv
  BY StateInit
<1>2. StateInv /\ [Next]_vars => StateInv'
  BY StateStep
<1> QED
  BY <1>1, <1>2, PTL DEF Spec

\* Calls that do not overlap compute every chunk with their own operator,
\* the chunks that run on after the caller has closed the generator included.
THEOREM ChunksUseOwnOperator ==
  ASSUME MayOverlap = FALSE PROVE Spec => []OwnOperator
<1>1. StateInv => OwnOperator
  BY DEF StateInv
<1> QED
  BY <1>1, StateAlways, PTL

\* Calls that do not overlap leave the global as the first one found it, in a
\* worker process too.
THEOREM StateIsRestored ==
  ASSUME MayOverlap = FALSE PROVE Spec => []StateRestored
<1>1. StateInv => StateRestored
  BY DEF StateInv
<1> QED
  BY <1>1, StateAlways, PTL
=============================================================================
