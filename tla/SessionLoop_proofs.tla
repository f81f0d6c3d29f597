------------------------- MODULE SessionLoop_proofs -------------------------
(***************************************************************************)
(* What SessionLoop promises, proved for any calls and any bounds.         *)
(***************************************************************************)
EXTENDS SessionLoop, TLAPS

USE DEF logVars, muVars, runVars, loopVars, callVars, lifeVars

(* Type correctness: every action keeps every variable in its range.       *)
LEMMA TypeInit == Init => TypeOK
<1> SUFFICES ASSUME Init PROVE TypeOK OBVIOUS
<1>1. turns \in 0..TurnCap /\ budget \in 0..TurnCap /\ crashes \in 0..MaxCrashes
  BY BudgetAssumption, BoundAssumption DEF Init
<1>2. lfrom \in [Calls -> States] /\ lto \in [Calls -> States \ {"running"}]
  BY DEF Init, States
<1>3. op \in [Calls -> AllOps \cup {"none"}] /\ from \in [Calls -> States]
  BY DEF Init, States
<1>q. QED BY <1>1, <1>2, <1>3 DEF Init, TypeOK, States, CallPoints, LoopPoints

(* Where a call enters its handler.                                        *)
LEMMA FirstPoints ==
  \A o \in AllOps :
     FirstStep[o] \in {"p_lock", "g_lock", "r_check", "x_stop", "c_lock", "d_start"}
  BY DEF AllOps, FirstStep

LEMMA TypeStep == TypeOK /\ [Next]_vars => TypeOK'
<1> SUFFICES ASSUME TypeOK, [Next]_vars PROVE TypeOK' OBVIOUS
<1> USE OpsAssumption, NoCallAssumption, BudgetAssumption, BoundAssumption
    DEF TypeOK, States, Ended, CallPoints, LoopPoints, AllOps, Goto, Move, Finish, Alive
<1>1. ASSUME NEW c \in Calls, Begin(c) PROVE TypeOK'
  <2>1. PICK o \in Ops : pc' = [pc EXCEPT ![c] = FirstStep[o]] /\ op' = [op EXCEPT ![c] = o]
    BY <1>1 DEF Begin
  <2>2. FirstStep[o] \in CallPoints BY FirstPoints
  <2>q. QED BY <1>1, <2>1, <2>2 DEF Begin
<1>2. ASSUME NEW c \in Calls, PromptLock(c) PROVE TypeOK'
  BY <1>2 DEF PromptLock, Lock
<1>3. ASSUME NEW c \in Calls, PromptAppend(c) PROVE TypeOK'
  BY <1>3 DEF PromptAppend
<1>4. ASSUME NEW c \in Calls, GoalLock(c) PROVE TypeOK'
  BY <1>4 DEF GoalLock, Lock
<1>5. ASSUME NEW c \in Calls, GoalCheck(c) PROVE TypeOK'
  BY <1>5 DEF GoalCheck, Unlock
<1>6. ASSUME NEW c \in Calls, ResumeCheck(c) PROVE TypeOK'
  BY <1>6 DEF ResumeCheck
<1>7. ASSUME NEW c \in Calls, ResumeBudget(c) PROVE TypeOK'
  BY <1>7 DEF ResumeBudget
<1>8. ASSUME NEW c \in Calls, ResumeLock(c) PROVE TypeOK'
  BY <1>8 DEF ResumeLock, Lock
<1>9. ASSUME NEW c \in Calls, StartLoop(c) PROVE TypeOK'
  BY <1>9 DEF StartLoop, EnsureRunning, Unlock
<1>10. ASSUME NEW c \in Calls, StopRunning(c) PROVE TypeOK'
  BY <1>10 DEF StopRunning, CancelLoop
<1>11. ASSUME NEW c \in Calls, AwaitLoop(c) PROVE TypeOK'
  BY <1>11 DEF AwaitLoop
<1>12. ASSUME NEW c \in Calls, CancelCompaction(c) PROVE TypeOK'
  BY <1>12 DEF CancelCompaction
<1>13. ASSUME NEW c \in Calls, AwaitCompaction(c) PROVE TypeOK'
  BY <1>13 DEF AwaitCompaction
<1>14. ASSUME NEW c \in Calls, InterruptEnd(c) PROVE TypeOK'
  BY <1>14 DEF InterruptEnd
<1>15. ASSUME NEW c \in Calls, StopCheck(c) PROVE TypeOK'
  BY <1>15 DEF StopCheck
<1>16. ASSUME NEW c \in Calls, StopFrom(c) PROVE TypeOK'
  BY <1>16 DEF StopFrom
<1>17. ASSUME NEW c \in Calls, StopAppend(c) PROVE TypeOK'
  BY <1>17 DEF StopAppend
<1>18. ASSUME NEW c \in Calls, CompactLock(c) PROVE TypeOK'
  BY <1>18 DEF CompactLock, Lock
<1>19. ASSUME NEW c \in Calls, CompactBegin(c) PROVE TypeOK'
  BY <1>19 DEF CompactBegin
<1>20. ASSUME NEW c \in Calls, CompactEnd(c) PROVE TypeOK'
  BY <1>20 DEF CompactEnd, RecordSummary, Unlock
<1>21. ASSUME NEW c \in Calls, ShutdownBegin(c) PROVE TypeOK'
  BY <1>21 DEF ShutdownBegin
<1>22. ASSUME NEW c \in Calls, ShutdownStop(c) PROVE TypeOK'
  BY <1>22 DEF ShutdownStop, CancelLoop
<1>23. ASSUME NEW c \in Calls, ShutdownAwaitLoop(c) PROVE TypeOK'
  BY <1>23 DEF ShutdownAwaitLoop
<1>24. ASSUME NEW c \in Calls, ShutdownCheck(c) PROVE TypeOK'
  BY <1>24 DEF ShutdownCheck
<1>25. ASSUME NEW c \in Calls, ShutdownPause(c) PROVE TypeOK'
  BY <1>25 DEF ShutdownPause
<1>26. ASSUME NEW c \in Calls, ShutdownDrain(c) PROVE TypeOK'
  BY <1>26 DEF ShutdownDrain
<1>27. ASSUME NEW c \in Calls, LoopTop(c) PROVE TypeOK'
  BY <1>27 DEF LoopTop
<1>28. ASSUME NEW c \in Calls, LoopBuild(c) PROVE TypeOK'
  BY <1>28 DEF LoopBuild
<1>29. ASSUME NEW c \in Calls, LoopReply(c) PROVE TypeOK'
  BY <1>29 DEF LoopReply
<1>30. ASSUME NEW c \in Calls, LoopNoReply(c) PROVE TypeOK'
  BY <1>30 DEF LoopNoReply
<1>31. ASSUME NEW c \in Calls, LoopTools(c) PROVE TypeOK'
  BY <1>31 DEF LoopTools
<1>32. ASSUME NEW c \in Calls, LoopAfterTurn(c) PROVE TypeOK'
  BY <1>32 DEF LoopAfterTurn
<1>33. ASSUME NEW c \in Calls, LoopSummaryBegin(c) PROVE TypeOK'
  BY <1>33 DEF LoopSummaryBegin
<1>34. ASSUME NEW c \in Calls, LoopSummaryEnd(c) PROVE TypeOK'
  BY <1>34 DEF LoopSummaryEnd, RecordSummary
<1>35. ASSUME NEW c \in Calls, LoopCheck(c) PROVE TypeOK'
  BY <1>35 DEF LoopCheck
<1>36. ASSUME NEW c \in Calls, LoopStopGate(c) PROVE TypeOK'
  BY <1>36 DEF LoopStopGate
<1>37. ASSUME NEW c \in Calls, LoopEndFrom(c) PROVE TypeOK'
  BY <1>37 DEF LoopEndFrom
<1>38. ASSUME NEW c \in Calls, LoopEndAppend(c) PROVE TypeOK'
  BY <1>38 DEF LoopEndAppend
<1>39. ASSUME NEW c \in Calls, LoopExit(c) PROVE TypeOK'
  BY <1>39 DEF LoopExit
<1>40. CASE Crash
  <2>1. crashes' \in 0..MaxCrashes BY <1>40 DEF Crash
  <2>2. pc' \in [Calls -> CallPoints] /\ lp' \in [Calls -> LoopPoints]
    BY <1>40 DEF Crash, ProcessEnds
  <2>q. QED BY <1>40, <2>1, <2>2 DEF Crash, ProcessEnds
<1>41. CASE Exit
  BY <1>41 DEF Exit, ProcessEnds
<1>42. CASE Boot
  BY <1>42 DEF Boot
<1>43. CASE AtRest
  BY <1>43 DEF AtRest, vars
<1>44. CASE UNCHANGED vars
  BY <1>44 DEF vars
<1> HIDE DEF TypeOK, States, Ended, CallPoints, LoopPoints, AllOps, Goto, Move, Finish, Alive
<1>q. QED
  BY <1>1, <1>2, <1>3, <1>4, <1>5, <1>6, <1>7, <1>8, <1>9, <1>10, <1>11, <1>12, <1>13,
     <1>14, <1>15, <1>16, <1>17, <1>18, <1>19, <1>20, <1>21, <1>22, <1>23, <1>24, <1>25,
     <1>26, <1>27, <1>28, <1>29, <1>30, <1>31, <1>32, <1>33, <1>34, <1>35, <1>36, <1>37,
     <1>38, <1>39, <1>40, <1>41, <1>42, <1>43, <1>44
  DEF Next, CallStep, LoopStep

(* Every variable of the model keeps its type in every execution, for any *)
(* set of calls: no handler leaves a lock, a loop or the log in a form the *)
(* next one does not expect.                                               *)
THEOREM TypeCorrect == Spec => []TypeOK
  BY TypeInit, TypeStep, PTL DEF Spec

-----------------------------------------------------------------------------
(* The steps that start or end a loop; every other step leaves the loops   *)
(* as they were.                                                           *)
SameLoops ==
  /\ cur' = cur
  /\ \A g \in Calls : /\ Alive(g)' <=> Alive(g)
                      /\ lp[g] = "none" <=> lp'[g] = "none"

LEMMA LoopsChange ==
  ASSUME TypeOK, [Next]_vars
  PROVE  \/ \E c \in Calls : StartLoop(c) \/ LoopExit(c)
         \/ ProcessEnds
         \/ SameLoops
<1> USE DEF TypeOK, LoopPoints, SameLoops, Alive, Goto, Move, Finish
<1>1. ASSUME NEW c \in Calls, Begin(c) PROVE SameLoops
  BY <1>1 DEF Begin
<1>2. ASSUME NEW c \in Calls, CallStep(c), ~StartLoop(c) PROVE SameLoops
  <2>1. UNCHANGED <<cur, lp>>
    BY <1>2 DEF CallStep, PromptLock, PromptAppend, GoalLock, GoalCheck, ResumeCheck, ResumeBudget,
       ResumeLock, StopRunning, AwaitLoop, CancelCompaction, AwaitCompaction, InterruptEnd,
       StopCheck, StopFrom, StopAppend, CompactLock, CompactBegin, CompactEnd, ShutdownBegin,
       ShutdownStop, ShutdownAwaitLoop, ShutdownCheck, ShutdownPause, ShutdownDrain
  <2>q. QED BY <2>1
<1>3. ASSUME NEW g \in Calls, LoopStep(g), ~LoopExit(g) PROVE SameLoops
  <2>1. /\ cur' = cur
        /\ lp[g] \notin {"none", "gone"}
        /\ \E l \in LoopPoints \ {"none", "gone"} : lp' = [lp EXCEPT ![g] = l]
    BY <1>3 DEF LoopStep, LoopTop, LoopBuild, LoopReply, LoopNoReply, LoopTools, LoopAfterTurn,
       LoopSummaryBegin, LoopSummaryEnd, LoopCheck, LoopStopGate, LoopEndFrom, LoopEndAppend
  <2>q. QED BY <2>1
<1>4. CASE Boot BY <1>4 DEF Boot
<1>5. CASE AtRest \/ UNCHANGED vars BY <1>5 DEF AtRest, vars
<1> HIDE DEF TypeOK, LoopPoints, SameLoops, Alive, Goto, Move, Finish
<1>q. QED BY <1>1, <1>2, <1>3, <1>4, <1>5 DEF Next, Crash, Exit

-----------------------------------------------------------------------------
(* A call starts its loop with its last step, so before that step the loop *)
(* named after it does not exist.                                          *)
StartsOnce == \A c \in Calls : pc[c] # "done" => lp[c] = "none"

LoopInv == TypeOK /\ OneLoop /\ StartsOnce

LEMMA CallsEndOnce ==
  ASSUME TypeOK, [Next]_vars, NEW c \in Calls, pc'[c] # "done"
  PROVE  pc[c] # "done"
<1> USE DEF TypeOK, Goto
<1>1. ASSUME NEW d \in Calls, Begin(d) PROVE pc[c] # "done"
  BY <1>1 DEF Begin
<1>2. ASSUME NEW d \in Calls, CallStep(d) PROVE pc[c] # "done"
  <2>1. /\ pc[d] # "done"
        /\ \E l \in CallPoints : pc' = [pc EXCEPT ![d] = l]
    BY <1>2 DEF CallPoints, CallStep, PromptLock, PromptAppend, GoalLock, GoalCheck, ResumeCheck,
       ResumeBudget, ResumeLock, StartLoop, StopRunning, CancelLoop, AwaitLoop, CancelCompaction,
       AwaitCompaction, InterruptEnd, StopCheck, StopFrom, StopAppend, CompactLock, CompactBegin,
       CompactEnd, ShutdownBegin, ShutdownStop, ShutdownAwaitLoop, ShutdownCheck, ShutdownPause,
       ShutdownDrain
  <2>q. QED BY <2>1
<1>3. ASSUME NEW g \in Calls, LoopStep(g) PROVE pc[c] # "done"
  BY <1>3 DEF callVars, LoopStep, LoopTop, LoopBuild, LoopReply, LoopNoReply, LoopTools,
     LoopAfterTurn, LoopSummaryBegin, LoopSummaryEnd, LoopCheck, LoopStopGate, LoopEndFrom,
     LoopEndAppend, LoopExit
<1>4. CASE ProcessEnds BY <1>4 DEF ProcessEnds
<1>5. CASE Boot \/ AtRest \/ UNCHANGED vars BY <1>5 DEF Boot, AtRest, vars
<1> HIDE DEF TypeOK, Goto
<1>q. QED BY <1>1, <1>2, <1>3, <1>4, <1>5 DEF Next, Crash, Exit

LEMMA LoopInvInit == Init => LoopInv
  BY TypeInit, NoCallAssumption DEF Init, LoopInv, OneLoop, StartsOnce, Alive

LEMMA LoopInvStep == LoopInv /\ [Next]_vars => LoopInv'
<1> SUFFICES ASSUME LoopInv, [Next]_vars PROVE LoopInv' OBVIOUS
<1>1. TypeOK' BY TypeStep DEF LoopInv
<1>2. \A c \in Calls : pc'[c] # "done" => pc[c] # "done"
  BY CallsEndOnce DEF LoopInv
<1> USE NoCallAssumption DEF LoopInv, OneLoop, StartsOnce, Alive
<1>3. ASSUME NEW c \in Calls, StartLoop(c) PROVE OneLoop' /\ StartsOnce'
  BY <1>1, <1>2, <1>3 DEF StartLoop, EnsureRunning, Goto, TypeOK
<1>4. ASSUME NEW g \in Calls, LoopExit(g) PROVE OneLoop' /\ StartsOnce'
  BY <1>1, <1>2, <1>4 DEF LoopExit, Move, TypeOK
<1>5. CASE ProcessEnds
  <2>1. \A g \in Calls : lp'[g] = IF Alive(g) THEN "gone" ELSE lp[g]
    BY <1>5 DEF ProcessEnds
  <2>2. cur' = NoCall BY <1>5 DEF ProcessEnds
  <2>3. OneLoop' BY <2>1, <2>2
  <2>4. StartsOnce' BY <1>2, <2>1
  <2>q. QED BY <1>1, <2>3, <2>4
<1>6. CASE SameLoops
  BY <1>1, <1>2, <1>6 DEF SameLoops
<1> HIDE DEF OneLoop, StartsOnce, Alive
<1>q. QED BY <1>1, <1>3, <1>4, <1>5, <1>6, LoopsChange

(* At most one loop goroutine works on a session, whoever starts and ends  *)
(* them: ensureRunning's guard under m.mu, and running cleared last.       *)
THEOREM LoopIsUnique == Spec => []OneLoop
<1>1. LoopInv => OneLoop BY DEF LoopInv
<1>q. QED BY LoopInvInit, LoopInvStep, <1>1, PTL DEF Spec

-----------------------------------------------------------------------------
(* compactMu is held exactly by the call, or the loop, that is between its *)
(* Lock and its Unlock.                                                    *)
HoldPoints ==
  {"p_append", "p_ensure", "g_check", "g_ensure", "r_ensure", "c_begin", "c_call"}

MutexHeld ==
  \A c \in Calls : /\ pc[c] \in HoldPoints <=> compactMu = CallOf(c)
                   /\ lp[c] = "sum_call" <=> compactMu = LoopOf(c)

(* While a summary is written nobody else holds compactMu, so no message   *)
(* has been appended since its range was taken.                            *)
RangeIsAll ==
  \A c \in Calls : pc[c] = "c_call" \/ lp[c] = "sum_call" => rng = msgs

SummaryInv == TypeOK /\ MutexHeld /\ RangeIsAll /\ NothingStranded

LEMMA Holders ==
  /\ \A c, d \in Calls : CallOf(c) = CallOf(d) => c = d
  /\ \A c, d \in Calls : LoopOf(c) = LoopOf(d) => c = d
  /\ \A c, d \in Calls : CallOf(c) # LoopOf(d)
  /\ \A c \in Calls : CallOf(c) # Free /\ LoopOf(c) # Free
  BY DEF CallOf, LoopOf, Free

LEMMA SummaryInvInit == Init => SummaryInv
  BY TypeInit, Holders
  DEF Init, SummaryInv, MutexHeld, RangeIsAll, NothingStranded, HoldPoints

LEMMA MutexStep ==
  ASSUME TypeOK, MutexHeld, [Next]_vars PROVE MutexHeld'
<1> USE Holders DEF TypeOK, MutexHeld, HoldPoints, Goto, Move, Finish, Lock, Unlock
<1>1. ASSUME NEW c \in Calls, Begin(c) PROVE MutexHeld'
  <2>1. UNCHANGED <<compactMu, lp>> BY <1>1 DEF Begin
  <2>2. PICK o \in Ops : pc[c] = "new" /\ pc' = [pc EXCEPT ![c] = FirstStep[o]]
    BY <1>1 DEF Begin
  <2>3. FirstStep[o] \notin HoldPoints
    BY OpsAssumption, FirstPoints
  <2>q. QED BY <2>1, <2>2, <2>3
<1>2. ASSUME NEW c \in Calls,
             PromptLock(c) \/ GoalLock(c) \/ ResumeLock(c) \/ CompactLock(c) \/ GoalCheck(c)
               \/ StartLoop(c) \/ CompactEnd(c)
      PROVE  MutexHeld'
  <2>1. ASSUME StartLoop(c) PROVE \A d \in Calls : lp[d] = "sum_call" <=> lp'[d] = "sum_call"
    <3>1. compactMu = CallOf(c) BY <2>1 DEF StartLoop
    <3>2. lp[c] # "sum_call" BY <3>1
    <3>q. QED BY <2>1, <3>2 DEF StartLoop, EnsureRunning
  <2>q. QED
    BY <1>2, <2>1 DEF PromptLock, GoalLock, ResumeLock, CompactLock, GoalCheck, StartLoop, CompactEnd
<1>3. ASSUME NEW c \in Calls, CallStep(c),
             ~(PromptLock(c) \/ GoalLock(c) \/ ResumeLock(c) \/ CompactLock(c) \/ GoalCheck(c)
                 \/ StartLoop(c) \/ CompactEnd(c))
      PROVE  MutexHeld'
  <2>1. UNCHANGED <<compactMu, lp>>
    BY <1>3 DEF CallStep, PromptAppend, ResumeCheck, ResumeBudget, StopRunning, AwaitLoop,
       CancelCompaction, AwaitCompaction, InterruptEnd, StopCheck, StopFrom, StopAppend,
       CompactBegin, ShutdownBegin, ShutdownStop, ShutdownAwaitLoop, ShutdownCheck, ShutdownPause,
       ShutdownDrain
  <2>2. \E l \in CallPoints : /\ pc' = [pc EXCEPT ![c] = l]
                              /\ pc[c] \in HoldPoints <=> l \in HoldPoints
    BY <1>3 DEF CallPoints, CallStep, PromptAppend, ResumeCheck, ResumeBudget, StopRunning,
       CancelLoop, AwaitLoop, CancelCompaction, AwaitCompaction, InterruptEnd, StopCheck, StopFrom,
       StopAppend, CompactBegin, ShutdownBegin, ShutdownStop, ShutdownAwaitLoop, ShutdownCheck,
       ShutdownPause, ShutdownDrain
  <2>q. QED BY <2>1, <2>2
<1>4. ASSUME NEW g \in Calls, LoopSummaryBegin(g) \/ LoopSummaryEnd(g) PROVE MutexHeld'
  BY <1>4 DEF callVars, LoopSummaryBegin, LoopSummaryEnd
<1>5. ASSUME NEW g \in Calls, LoopStep(g), ~(LoopSummaryBegin(g) \/ LoopSummaryEnd(g))
      PROVE  MutexHeld'
  <2>1. UNCHANGED <<compactMu, pc>>
    BY <1>5 DEF callVars, LoopStep, LoopTop, LoopBuild, LoopReply, LoopNoReply, LoopTools,
       LoopAfterTurn, LoopCheck, LoopStopGate, LoopEndFrom, LoopEndAppend, LoopExit
  <2>2. \E l \in LoopPoints : /\ lp' = [lp EXCEPT ![g] = l]
                              /\ lp[g] # "sum_call" /\ l # "sum_call"
    BY <1>5 DEF LoopPoints, LoopStep, LoopTop, LoopBuild, LoopReply, LoopNoReply, LoopTools,
       LoopAfterTurn, LoopCheck, LoopStopGate, LoopEndFrom, LoopEndAppend, LoopExit
  <2>q. QED BY <2>1, <2>2
<1>6. CASE ProcessEnds
  BY <1>6 DEF ProcessEnds, Alive
<1>7. CASE Boot \/ AtRest \/ UNCHANGED vars
  BY <1>7 DEF Boot, AtRest, vars
<1> HIDE DEF TypeOK, MutexHeld, HoldPoints, Goto, Move, Finish, Lock, Unlock
<1>q. QED BY <1>1, <1>2, <1>3, <1>4, <1>5, <1>6, <1>7 DEF Next, Crash, Exit

LEMMA SummaryInvStep == SummaryInv /\ [Next]_vars => SummaryInv'
<1> SUFFICES ASSUME SummaryInv, [Next]_vars PROVE SummaryInv' OBVIOUS
<1>1. TypeOK /\ MutexHeld /\ RangeIsAll /\ NothingStranded BY DEF SummaryInv
<1>2. TypeOK' /\ MutexHeld' BY <1>1, TypeStep, MutexStep
<1> USE Holders, <1>1, <1>2
    DEF TypeOK, MutexHeld, HoldPoints, RangeIsAll, NothingStranded, Goto, Move, Finish, Lock, Unlock
<1>3. ASSUME NEW c \in Calls, Begin(c) PROVE RangeIsAll' /\ NothingStranded'
  <2>1. UNCHANGED <<msgs, before, covered, rng, compactMu, lp>> BY <1>3 DEF Begin
  <2>2. PICK o \in Ops : pc' = [pc EXCEPT ![c] = FirstStep[o]] BY <1>3 DEF Begin
  <2>3. FirstStep[o] # "c_call" BY OpsAssumption, FirstPoints
  <2>q. QED BY <2>1, <2>2, <2>3
<1>4. ASSUME NEW c \in Calls, PromptAppend(c) PROVE RangeIsAll' /\ NothingStranded'
  BY <1>4 DEF PromptAppend
<1>5. ASSUME NEW c \in Calls, CompactBegin(c) PROVE RangeIsAll' /\ NothingStranded'
  BY <1>5 DEF CompactBegin
<1>6. ASSUME NEW c \in Calls, CompactEnd(c) PROVE RangeIsAll' /\ NothingStranded'
  BY <1>6 DEF CompactEnd, RecordSummary
<1>7. ASSUME NEW c \in Calls, CallStep(c), ~(PromptAppend(c) \/ CompactBegin(c) \/ CompactEnd(c))
      PROVE  RangeIsAll' /\ NothingStranded'
  <2>1. UNCHANGED <<msgs, before, covered, rng>>
    BY <1>7 DEF CallStep, PromptLock, GoalLock, GoalCheck, ResumeCheck, ResumeBudget, ResumeLock,
       StartLoop, StopRunning, AwaitLoop, CancelCompaction, AwaitCompaction, InterruptEnd, StopCheck,
       StopFrom, StopAppend, CompactLock, ShutdownBegin, ShutdownStop, ShutdownAwaitLoop,
       ShutdownCheck, ShutdownPause, ShutdownDrain
  <2>2. \A d \in Calls : pc'[d] = "c_call" => pc[d] = "c_call"
    BY <1>7 DEF CallStep, PromptLock, GoalLock, GoalCheck, ResumeCheck, ResumeBudget, ResumeLock,
       StartLoop, StopRunning, CancelLoop, AwaitLoop, CancelCompaction, AwaitCompaction,
       InterruptEnd, StopCheck, StopFrom, StopAppend, CompactLock, ShutdownBegin, ShutdownStop,
       ShutdownAwaitLoop, ShutdownCheck, ShutdownPause, ShutdownDrain
  <2>3. \A g \in Calls : lp'[g] = "sum_call" => lp[g] = "sum_call"
    BY <1>7 DEF CallStep, PromptLock, GoalLock, GoalCheck, ResumeCheck, ResumeBudget, ResumeLock,
       StartLoop, EnsureRunning, StopRunning, AwaitLoop, CancelCompaction, AwaitCompaction,
       InterruptEnd, StopCheck, StopFrom, StopAppend, CompactLock, ShutdownBegin, ShutdownStop,
       ShutdownAwaitLoop, ShutdownCheck, ShutdownPause, ShutdownDrain
  <2>q. QED BY <2>1, <2>2, <2>3
<1>8. ASSUME NEW g \in Calls, LoopSummaryBegin(g) \/ LoopSummaryEnd(g)
      PROVE  RangeIsAll' /\ NothingStranded'
  BY <1>8 DEF callVars, LoopSummaryBegin, LoopSummaryEnd, RecordSummary
<1>9. ASSUME NEW g \in Calls, LoopStep(g), ~(LoopSummaryBegin(g) \/ LoopSummaryEnd(g))
      PROVE  RangeIsAll' /\ NothingStranded'
  <2>1. UNCHANGED <<msgs, before, covered, rng, pc>>
    BY <1>9 DEF logVars, callVars, LoopStep, LoopTop, LoopBuild, LoopReply, LoopNoReply, LoopTools,
       LoopAfterTurn, LoopCheck, LoopStopGate, LoopEndFrom, LoopEndAppend, LoopExit
  <2>2. \A d \in Calls : lp'[d] = "sum_call" => lp[d] = "sum_call"
    BY <1>9 DEF LoopStep, LoopTop, LoopBuild, LoopReply, LoopNoReply, LoopTools,
       LoopAfterTurn, LoopCheck, LoopStopGate, LoopEndFrom, LoopEndAppend, LoopExit
  <2>q. QED BY <2>1, <2>2
<1>10. CASE ProcessEnds
  BY <1>10 DEF SummaryInv, ProcessEnds, Alive
<1>11. CASE Boot \/ AtRest \/ UNCHANGED vars
  BY <1>11 DEF SummaryInv, Boot, AtRest, vars
<1> HIDE DEF TypeOK, MutexHeld, HoldPoints, RangeIsAll, NothingStranded, Goto, Move, Finish, Lock, Unlock
<1>q. QED
  BY <1>3, <1>4, <1>5, <1>6, <1>7, <1>8, <1>9, <1>10, <1>11 DEF SummaryInv, Next, Crash, Exit

(* No user message is left out of every request: what precedes the last    *)
(* summary is inside the range of one.  The mutex keeps messages out of    *)
(* the log between the moment a range is taken and the summary's record.   *)
THEOREM MessagesAreKept == Spec => []NothingStranded
<1>1. SummaryInv => NothingStranded BY DEF SummaryInv
<1>q. QED BY SummaryInvInit, SummaryInvStep, <1>1, PTL DEF Spec

-----------------------------------------------------------------------------
(* A loop starts only in a call that holds compactMu, so never while       *)
(* another call holds it to write a summary.                               *)
THEOREM SummaryIsNotOvertaken == Spec => NoStartUnderSummary
<1> DEFINE Step == (\E c \in Calls : pc[c] \in {"c_begin", "c_call"}) => cur' \in {cur, NoCall}
<1>1. ASSUME SummaryInv, [Next]_vars PROVE Step
  <2>1. SUFFICES ASSUME NEW c \in Calls, pc[c] \in {"c_begin", "c_call"}
                 PROVE  cur' \in {cur, NoCall}
    OBVIOUS
  <2>2. TypeOK /\ compactMu = CallOf(c)
    BY <1>1, <2>1 DEF SummaryInv, MutexHeld, HoldPoints
  <2>3. ASSUME NEW d \in Calls, StartLoop(d) PROVE FALSE
    <3>1. compactMu = CallOf(d) /\ pc[d] \notin {"c_begin", "c_call"}
      BY <1>1, <2>3 DEF SummaryInv, MutexHeld, HoldPoints, StartLoop
    <3>q. QED BY <2>1, <2>2, <3>1, Holders
  <2>4. ASSUME NEW d \in Calls, LoopExit(d) PROVE cur' = NoCall BY <2>4 DEF LoopExit
  <2>5. ProcessEnds => cur' = NoCall BY DEF ProcessEnds
  <2>q. QED BY <1>1, <2>2, <2>3, <2>4, <2>5, LoopsChange DEF SameLoops
<1>2. SummaryInv /\ [Next]_vars => [Step]_vars BY <1>1
<1>q. QED BY <1>2, SummaryInvInit, SummaryInvStep, PTL DEF Spec, NoStartUnderSummary

-----------------------------------------------------------------------------
(* A shutdown past its first step has closed the manager, and stays in a   *)
(* process that is up.                                                     *)
Closing == {"d_stop", "d_wait", "d_check", "d_pause", "d_drain", "d_exit"}

ClosedFirst == \A c \in Calls : pc[c] \in Closing => closed
DownIsEmpty == ~up => \A c \in Calls : pc[c] \in {"new", "done"}

ShutdownInv == LoopInv /\ ClosedFirst /\ DownIsEmpty /\ ShutdownQuiesces

LEMMA ShutdownInvInit == Init => ShutdownInv
  BY LoopInvInit DEF Init, ShutdownInv, ClosedFirst, DownIsEmpty, ShutdownQuiesces, Closing, Alive

LEMMA ShutdownInvStep == ShutdownInv /\ [Next]_vars => ShutdownInv'
<1> SUFFICES ASSUME ShutdownInv, [Next]_vars PROVE ShutdownInv' OBVIOUS
<1>1. TypeOK /\ LoopInv /\ LoopInv' BY LoopInvStep DEF ShutdownInv, LoopInv
<1>2. ClosedFirst /\ DownIsEmpty /\ ShutdownQuiesces BY DEF ShutdownInv
<1> DEFINE Goal == ClosedFirst' /\ DownIsEmpty' /\ ShutdownQuiesces'
<1> USE <1>1, <1>2 DEF TypeOK, ClosedFirst, DownIsEmpty, ShutdownQuiesces, Closing, Goto
<1>3. ASSUME NEW c \in Calls, Begin(c) PROVE Goal
  <2>1. UNCHANGED <<closed, lp>> /\ up /\ up' = up BY <1>3 DEF Begin
  <2>2. PICK o \in Ops : pc' = [pc EXCEPT ![c] = FirstStep[o]] BY <1>3 DEF Begin
  <2>3. FirstStep[o] \notin Closing BY OpsAssumption, FirstPoints
  <2>q. QED BY <2>1, <2>2, <2>3 DEF Alive
<1>4. ASSUME NEW c \in Calls, StartLoop(c) PROVE Goal
  <2>1. UNCHANGED <<closed, up>> /\ pc' = [pc EXCEPT ![c] = "done"] BY <1>4 DEF StartLoop
  <2>2. closed => lp' = lp BY <1>4 DEF StartLoop, EnsureRunning
  <2>q. QED BY <2>1, <2>2 DEF Alive
<1>5. ASSUME NEW c \in Calls, ShutdownDrain(c) PROVE Goal
  BY <1>5 DEF ShutdownDrain, Alive
<1>6. ASSUME NEW c \in Calls, CallStep(c), ~StartLoop(c), ~ShutdownDrain(c) PROVE Goal
  <2>1. UNCHANGED <<up, lp>> /\ (closed => closed')
    BY <1>6 DEF CallStep, PromptLock, PromptAppend, GoalLock, GoalCheck, ResumeCheck, ResumeBudget,
       ResumeLock, StopRunning, CancelLoop, AwaitLoop, CancelCompaction, AwaitCompaction,
       InterruptEnd, StopCheck, StopFrom, StopAppend, CompactLock, CompactBegin, CompactEnd,
       ShutdownBegin, ShutdownStop, ShutdownAwaitLoop, ShutdownCheck, ShutdownPause
  <2>2. \E l \in CallPoints :
           /\ pc' = [pc EXCEPT ![c] = l] /\ pc[c] \notin {"new", "done"}
           /\ l # "d_exit"
           /\ l \in Closing => pc[c] \in Closing \/ closed'
    BY <1>6 DEF CallPoints, CallStep, PromptLock, PromptAppend, GoalLock, GoalCheck, ResumeCheck,
       ResumeBudget, ResumeLock, StopRunning, CancelLoop, AwaitLoop, CancelCompaction,
       AwaitCompaction, InterruptEnd, StopCheck, StopFrom, StopAppend, CompactLock, CompactBegin,
       CompactEnd, ShutdownBegin, ShutdownStop, ShutdownAwaitLoop, ShutdownCheck, ShutdownPause
  <2>q. QED BY <2>1, <2>2 DEF Alive
<1>7. ASSUME NEW g \in Calls, LoopStep(g) PROVE Goal
  <2>1. UNCHANGED <<up, pc, closed>>
    BY <1>7 DEF LoopStep, LoopTop, LoopBuild, LoopReply, LoopNoReply, LoopTools, LoopAfterTurn,
       LoopSummaryBegin, LoopSummaryEnd, LoopCheck, LoopStopGate, LoopEndFrom, LoopEndAppend, LoopExit
  <2>2. Alive(g)
    BY <1>7 DEF Alive, LoopStep, LoopTop, LoopBuild, LoopReply, LoopNoReply, LoopTools,
       LoopAfterTurn, LoopSummaryBegin, LoopSummaryEnd, LoopCheck, LoopStopGate, LoopEndFrom,
       LoopEndAppend, LoopExit
  <2>q. QED BY <2>1, <2>2
<1>8. CASE ProcessEnds
  BY <1>8 DEF ShutdownInv, ProcessEnds
<1>9. CASE Boot \/ AtRest \/ UNCHANGED vars
  BY <1>9 DEF ShutdownInv, Boot, AtRest, vars, Alive
<1> HIDE DEF TypeOK, ClosedFirst, DownIsEmpty, ShutdownQuiesces, Closing, Goto
<1>q. QED
  BY <1>3, <1>4, <1>5, <1>6, <1>7, <1>8, <1>9 DEF ShutdownInv, Next, Crash, Exit

(* When Shutdown returns no loop runs, and none starts afterwards: closed  *)
(* is set before the loops are waited for and is read where they start.    *)
THEOREM ShutdownIsQuiet == Spec => []ShutdownQuiesces
<1>1. ShutdownInv => ShutdownQuiesces BY DEF ShutdownInv
<1>q. QED BY ShutdownInvInit, ShutdownInvStep, <1>1, PTL DEF Spec

-----------------------------------------------------------------------------
(* A call that waits for a loop names one that was started and is gone     *)
(* for good once it has ended; a call that never found one names none.     *)
Stopping == {"x_compact", "x_barrier", "x_end", "s_from", "s_append"}
Waiting  == {"x_wait", "d_wait"}
Past     == Stopping \cup {"d_check", "d_pause", "d_drain", "d_exit", "done"}

TargetStarted ==
  /\ \A c \in Calls : target[c] # NoCall => /\ pc[c] \in Waiting \cup Past
                                            /\ lp[target[c]] # "none"
  /\ \A c \in Calls : pc[c] \in Waiting => target[c] # NoCall

LateInv == LoopInv /\ TargetStarted /\ NoLateResult

LEMMA LateInvInit == Init => LateInv
  BY LoopInvInit DEF Init, LateInv, TargetStarted, NoLateResult, Waiting, Past, Stopping

LEMMA LateInvStep == LateInv /\ [Next]_vars => LateInv'
<1> SUFFICES ASSUME LateInv, [Next]_vars PROVE LateInv' OBVIOUS
<1>1. TypeOK /\ LoopInv /\ LoopInv' BY LoopInvStep DEF LateInv, LoopInv
<1>2. TargetStarted /\ NoLateResult /\ OneLoop /\ StartsOnce BY DEF LateInv, LoopInv
<1> DEFINE Goal == TargetStarted' /\ NoLateResult'
<1> USE <1>1, <1>2, NoCallAssumption
    DEF TypeOK, TargetStarted, NoLateResult, Waiting, Past, Stopping, Goto
<1>3. ASSUME NEW c \in Calls, Begin(c) PROVE Goal
  <2>1. UNCHANGED <<target, lp>> /\ pc[c] = "new" BY <1>3 DEF Begin
  <2>2. PICK o \in Ops : pc' = [pc EXCEPT ![c] = FirstStep[o]] BY <1>3 DEF Begin
  <2>3. FirstStep[o] \notin Waiting \cup Stopping BY OpsAssumption, FirstPoints
  <2>q. QED BY <2>1, <2>2, <2>3 DEF Alive
<1>4. ASSUME NEW c \in Calls, StartLoop(c) PROVE Goal
  <2>1. target' = target /\ pc' = [pc EXCEPT ![c] = "done"] BY <1>4 DEF StartLoop
  <2>2. lp' = lp \/ lp' = [lp EXCEPT ![c] = "top"] BY <1>4 DEF StartLoop, EnsureRunning
  <2>3. lp[c] = "none" BY <1>4 DEF StartLoop, StartsOnce
  <2>q. QED BY <2>1, <2>2, <2>3 DEF Alive
<1>5. ASSUME NEW c \in Calls, StopRunning(c) \/ ShutdownStop(c) PROVE Goal
  <2>1. lp' = lp BY <1>5 DEF StopRunning, ShutdownStop
  <2>2. target[c] = NoCall BY <1>5 DEF StopRunning, ShutdownStop
  <2>3. CASE cur # NoCall
    <3>1. cur \in Calls /\ lp[cur] # "none" BY <2>3 DEF OneLoop, Alive
    <3>q. QED BY <1>5, <2>1, <2>3, <3>1 DEF StopRunning, ShutdownStop, CancelLoop, Alive
  <2>4. CASE cur = NoCall
    BY <1>5, <2>1, <2>2, <2>4 DEF StopRunning, ShutdownStop, CancelLoop, Alive
  <2>q. QED BY <2>3, <2>4
<1>6. ASSUME NEW c \in Calls, CallStep(c), ~(StartLoop(c) \/ StopRunning(c) \/ ShutdownStop(c))
      PROVE  Goal
  <2>1. UNCHANGED <<target, lp>>
    BY <1>6 DEF CallStep, PromptLock, PromptAppend, GoalLock, GoalCheck, ResumeCheck, ResumeBudget,
       ResumeLock, AwaitLoop, CancelCompaction, AwaitCompaction, InterruptEnd, StopCheck, StopFrom,
       StopAppend, CompactLock, CompactBegin, CompactEnd, ShutdownBegin, ShutdownAwaitLoop,
       ShutdownCheck, ShutdownPause, ShutdownDrain
  <2>2. \E l \in CallPoints :
           /\ pc' = [pc EXCEPT ![c] = l] /\ l \notin Waiting
           /\ pc[c] \in Waiting \cup Past => l \in Past
           /\ l \in Stopping => pc[c] \in Stopping \/ ~Alive(target[c])
    BY <1>6 DEF CallPoints, CallStep, PromptLock, PromptAppend, GoalLock, GoalCheck, ResumeCheck,
       ResumeBudget, ResumeLock, AwaitLoop, CancelCompaction, AwaitCompaction, InterruptEnd,
       StopCheck, StopFrom, StopAppend, CompactLock, CompactBegin, CompactEnd, ShutdownBegin,
       ShutdownAwaitLoop, ShutdownCheck, ShutdownPause, ShutdownDrain
  <2>q. QED BY <2>1, <2>2 DEF Alive
<1>7. ASSUME NEW g \in Calls, LoopStep(g) PROVE Goal
  <2>1. UNCHANGED <<target, pc>>
    BY <1>7 DEF LoopStep, LoopTop, LoopBuild, LoopReply, LoopNoReply, LoopTools, LoopAfterTurn,
       LoopSummaryBegin, LoopSummaryEnd, LoopCheck, LoopStopGate, LoopEndFrom, LoopEndAppend, LoopExit
  <2>2. Alive(g) /\ \E l \in LoopPoints \ {"none"} : lp' = [lp EXCEPT ![g] = l]
    BY <1>7 DEF Alive, Move, Finish, LoopPoints, LoopStep, LoopTop, LoopBuild, LoopReply,
       LoopNoReply, LoopTools, LoopAfterTurn, LoopSummaryBegin, LoopSummaryEnd, LoopCheck,
       LoopStopGate, LoopEndFrom, LoopEndAppend, LoopExit
  <2>q. QED BY <2>1, <2>2 DEF Alive
<1>8. CASE ProcessEnds
  <2>1. \A g \in Calls : lp'[g] = IF Alive(g) THEN "gone" ELSE lp[g] BY <1>8 DEF ProcessEnds
  <2>2. target' = target /\ \A c \in Calls : pc'[c] = IF pc[c] = "new" THEN "new" ELSE "done"
    BY <1>8 DEF ProcessEnds
  <2>q. QED BY <2>1, <2>2 DEF LateInv, Alive
<1>9. CASE Boot \/ AtRest \/ UNCHANGED vars
  BY <1>9 DEF LateInv, Boot, AtRest, vars, Alive
<1> HIDE DEF TypeOK, TargetStarted, NoLateResult, Waiting, Past, Stopping, Goto
<1>q. QED
  BY <1>3, <1>4, <1>5, <1>6, <1>7, <1>8, <1>9 DEF LateInv, Next, Crash, Exit

(* The turn an interrupt or a stop cut off is over before the state that   *)
(* ends it is written, so nothing of it can follow that state in the log.  *)
THEOREM CutOffTurnsAreOver == Spec => []NoLateResult
<1>1. LateInv => NoLateResult BY DEF LateInv
<1>q. QED BY LateInvInit, LateInvStep, <1>1, PTL DEF Spec

-----------------------------------------------------------------------------
(* Who answers for a session that says running: its loop, or a call that   *)
(* is about to write another state.  A loop that leaves without writing    *)
(* one was cancelled, and its canceller still waits for it.                *)
Waits(c, g) == pc[c] \in Waiting /\ target[c] = g

Backs(c) ==
  \/ pc[c] \in Waiting \cup {"x_compact", "x_barrier", "x_end", "s_from", "d_check", "d_pause"}
  \/ pc[c] = "s_append" /\ from[c] # "completed"

CancelAnswered ==
  \A g \in cancelled : lp[g] # "none" /\ (Alive(g) => \E c \in Calls : Waits(c, g))

ExitAnswered ==
  \A g \in Calls : lp[g] = "exit" => state # "running" \/ \E c \in Calls : Waits(c, g)

EndAnswered ==
  \A g \in Calls : lp[g] = "end_append" /\ lfrom[g] # "running" => state # "running"

Answered == up /\ state = "running" /\ cur = NoCall => \E c \in Calls : Backs(c)

BackedInv == LateInv /\ CancelAnswered /\ ExitAnswered /\ EndAnswered /\ Answered

LEMMA BackedInvInit == Init => BackedInv
  BY LateInvInit
  DEF Init, BackedInv, CancelAnswered, ExitAnswered, EndAnswered, Answered

(* Nobody stops waiting for a loop that is still there.                    *)
LEMMA WaitsLast ==
  ASSUME TypeOK, [Next]_vars, ~ProcessEnds,
         NEW c \in Calls, NEW g \in Calls, Waits(c, g), Alive(g)
  PROVE  Waits(c, g)'
<1> USE DEF TypeOK, Waits, Waiting, Goto
<1>1. ASSUME NEW d \in Calls, Begin(d) PROVE Waits(c, g)'
  BY <1>1 DEF Begin
<1>2. ASSUME NEW d \in Calls, CallStep(d), d = c PROVE Waits(c, g)'
  BY <1>2 DEF CallStep, PromptLock, PromptAppend, GoalLock, GoalCheck, ResumeCheck, ResumeBudget,
     ResumeLock, StartLoop, StopRunning, AwaitLoop, CancelCompaction, AwaitCompaction, InterruptEnd,
     StopCheck, StopFrom, StopAppend, CompactLock, CompactBegin, CompactEnd, ShutdownBegin,
     ShutdownStop, ShutdownAwaitLoop, ShutdownCheck, ShutdownPause, ShutdownDrain
<1>3. ASSUME NEW d \in Calls, CallStep(d), d # c PROVE Waits(c, g)'
  <2>1. pc'[c] = pc[c] /\ target'[c] = target[c]
    BY <1>3 DEF CallStep, PromptLock, PromptAppend, GoalLock, GoalCheck, ResumeCheck, ResumeBudget,
       ResumeLock, StartLoop, StopRunning, CancelLoop, AwaitLoop, CancelCompaction, AwaitCompaction,
       InterruptEnd, StopCheck, StopFrom, StopAppend, CompactLock, CompactBegin, CompactEnd,
       ShutdownBegin, ShutdownStop, ShutdownAwaitLoop, ShutdownCheck, ShutdownPause, ShutdownDrain
  <2>q. QED BY <2>1
<1>4. ASSUME NEW d \in Calls, LoopStep(d) PROVE Waits(c, g)'
  BY <1>4 DEF LoopStep, LoopTop, LoopBuild, LoopReply, LoopNoReply, LoopTools, LoopAfterTurn,
     LoopSummaryBegin, LoopSummaryEnd, LoopCheck, LoopStopGate, LoopEndFrom, LoopEndAppend, LoopExit
<1>5. CASE Boot \/ AtRest \/ UNCHANGED vars
  BY <1>5 DEF Boot, AtRest, vars
<1> HIDE DEF TypeOK, Waits, Waiting, Goto
<1>q. QED BY <1>1, <1>2, <1>3, <1>4, <1>5 DEF Next, Crash, Exit

LEMMA BackedInvStep == BackedInv /\ [Next]_vars => BackedInv'
<1> SUFFICES ASSUME BackedInv, [Next]_vars PROVE BackedInv' OBVIOUS
<1>1. /\ TypeOK /\ LateInv /\ LateInv'
      /\ OneLoop /\ StartsOnce /\ TargetStarted /\ NoLateResult
      /\ CancelAnswered /\ ExitAnswered /\ EndAnswered /\ Answered
  BY LateInvStep DEF BackedInv, LateInv, LoopInv
<1>2. ASSUME ~ProcessEnds, NEW g \in Calls, Alive(g), \E c \in Calls : Waits(c, g)
      PROVE  \E c \in Calls : Waits(c, g)'
  BY <1>1, <1>2, WaitsLast
<1>3. ASSUME NEW c \in Calls, NEW g \in Calls, Waits(c, g) PROVE Backs(c)
  BY <1>3 DEF Waits, Backs
<1> DEFINE Goal == CancelAnswered' /\ ExitAnswered' /\ EndAnswered' /\ Answered'
<1>4. ASSUME NEW c \in Calls, Begin(c) PROVE Goal
  <2>1. /\ UNCHANGED <<up, state, cur, cancelled, lp, lfrom, target, from>>
        /\ ~ProcessEnds /\ pc[c] = "new"
        /\ \A d \in Calls \ {c} : pc'[d] = pc[d]
    BY <1>4, <1>1 DEF Begin, ProcessEnds, TypeOK, Goto
  <2>2. \A d \in Calls : Backs(d) => Backs(d)'
    BY <2>1 DEF Backs, Waiting
  <2>q. QED
    BY <1>1, <1>2, <2>1, <2>2 DEF TypeOK, CancelAnswered, ExitAnswered, EndAnswered, Answered, Alive
<1>5. ASSUME NEW c \in Calls, StartLoop(c) PROVE Goal
  <2>1. /\ UNCHANGED <<up, cancelled, lfrom, target, from>> /\ ~ProcessEnds
        /\ pc[c] \in {"p_ensure", "g_ensure", "r_ensure"}
        /\ \A d \in Calls \ {c} : pc'[d] = pc[d]
    BY <1>5, <1>1 DEF StartLoop, ProcessEnds, TypeOK, Goto
  <2>2. \A d \in Calls : Backs(d) => Backs(d)'
    BY <2>1 DEF Backs, Waiting
  <2>3. CASE closed \/ cur # NoCall
    <3>1. UNCHANGED <<state, cur, lp>> BY <1>5, <2>3 DEF StartLoop, EnsureRunning
    <3>q. QED
      BY <1>1, <1>2, <2>1, <2>2, <3>1
      DEF TypeOK, CancelAnswered, ExitAnswered, EndAnswered, Answered, Alive
  <2>4. CASE ~closed /\ cur = NoCall
    <3>1. cur' = c /\ \A g \in Calls : lp'[g] = IF g = c THEN "top" ELSE lp[g]
      BY <1>1, <1>5, <2>4 DEF StartLoop, EnsureRunning, TypeOK
    <3>2. c \notin cancelled /\ \A g \in Calls : ~Alive(g)
      BY <1>1, <2>1, <2>4, NoCallAssumption DEF OneLoop, StartsOnce, CancelAnswered
    <3>q. QED
      BY <1>1, <2>1, <3>1, <3>2, NoCallAssumption
      DEF TypeOK, CancelAnswered, ExitAnswered, EndAnswered, Answered, Alive
  <2>q. QED BY <2>3, <2>4
<1>6. ASSUME NEW c \in Calls, StopRunning(c) \/ ShutdownStop(c) PROVE Goal
  <2>1. /\ UNCHANGED <<up, state, cur, lp, lfrom, from>> /\ ~ProcessEnds
        /\ pc[c] \in {"x_stop", "d_stop"}
        /\ \A d \in Calls \ {c} : pc'[d] = pc[d] /\ target'[d] = target[d]
    BY <1>6, <1>1 DEF StopRunning, ShutdownStop, CancelLoop, ProcessEnds, TypeOK, Goto
  <2>2. \A d \in Calls : Backs(d) => Backs(d)'
    BY <2>1 DEF Backs, Waiting
  <2>3. \A g \in cancelled' : g \in cancelled \/ (g = cur /\ Waits(c, g)')
    BY <1>6, <1>1 DEF StopRunning, ShutdownStop, CancelLoop, Waits, Waiting, TypeOK, Goto
  <2>4. cur \in Calls => lp[cur] # "none" BY <1>1 DEF OneLoop, Alive
  <2>5. cancelled' \subseteq Calls BY <1>1 DEF LateInv, LoopInv, TypeOK
  <2>q. QED
    BY <1>1, <1>2, <2>1, <2>2, <2>3, <2>4, <2>5
    DEF CancelAnswered, ExitAnswered, EndAnswered, Answered, Alive
<1>7. ASSUME NEW c \in Calls, CallStep(c), ~(StartLoop(c) \/ StopRunning(c) \/ ShutdownStop(c))
      PROVE  Goal
  <2>1. UNCHANGED <<up, cur, cancelled, lp, lfrom, target>> /\ ~ProcessEnds
    BY <1>1, <1>7 DEF TypeOK, ProcessEnds, CallStep, PromptLock, PromptAppend, GoalLock, GoalCheck,
       ResumeCheck, ResumeBudget, ResumeLock, AwaitLoop, CancelCompaction, AwaitCompaction,
       InterruptEnd, StopCheck, StopFrom, StopAppend, CompactLock, CompactBegin, CompactEnd,
       ShutdownBegin, ShutdownAwaitLoop, ShutdownCheck, ShutdownPause, ShutdownDrain
  <2>2. state' = "running" => state = "running"
    BY <1>7 DEF CallStep, PromptLock, PromptAppend, GoalLock, GoalCheck, ResumeCheck, ResumeBudget,
       ResumeLock, AwaitLoop, CancelCompaction, AwaitCompaction, InterruptEnd, StopCheck, StopFrom,
       StopAppend, CompactLock, CompactBegin, CompactEnd, ShutdownBegin, ShutdownAwaitLoop,
       ShutdownCheck, ShutdownPause, ShutdownDrain
  <2>3. \A d \in Calls \ {c} : pc'[d] = pc[d] /\ from'[d] = from[d]
    BY <1>1, <1>7 DEF Goto, TypeOK, CallStep, PromptLock, PromptAppend, GoalLock, GoalCheck,
       ResumeCheck, ResumeBudget, ResumeLock, AwaitLoop, CancelCompaction, AwaitCompaction,
       InterruptEnd, StopCheck, StopFrom, StopAppend, CompactLock, CompactBegin, CompactEnd,
       ShutdownBegin, ShutdownAwaitLoop, ShutdownCheck, ShutdownPause, ShutdownDrain
  <2>4. Backs(c) => Backs(c)' \/ state' # "running"
    BY <1>1, <1>7 DEF Backs, Waiting, Goto, TypeOK, CallStep, PromptLock, PromptAppend, GoalLock,
       GoalCheck, ResumeCheck, ResumeBudget, ResumeLock, AwaitLoop, CancelCompaction,
       AwaitCompaction, InterruptEnd, StopCheck, StopFrom, StopAppend, CompactLock, CompactBegin,
       CompactEnd, ShutdownBegin, ShutdownAwaitLoop, ShutdownCheck, ShutdownPause, ShutdownDrain,
       Ended
  <2>5. \A d \in Calls : Backs(d) => Backs(d)' \/ state' # "running"
    BY <2>3, <2>4 DEF Backs
  <2>q. QED
    BY <1>1, <1>2, <2>1, <2>2, <2>5
    DEF TypeOK, CancelAnswered, ExitAnswered, EndAnswered, Answered, Alive
<1>8. ASSUME NEW g \in Calls, LoopStep(g) PROVE Goal
  <2>1. UNCHANGED <<up, cancelled, pc, target, from>>
    BY <1>8 DEF LoopStep, LoopTop, LoopBuild, LoopReply, LoopNoReply, LoopTools, LoopAfterTurn,
       LoopSummaryBegin, LoopSummaryEnd, LoopCheck, LoopStopGate, LoopEndFrom, LoopEndAppend, LoopExit
  <2>2. Alive(g) /\ \E l \in LoopPoints \ {"none"} : lp' = [lp EXCEPT ![g] = l]
    BY <1>8 DEF Alive, Move, Finish, LoopPoints, LoopStep, LoopTop, LoopBuild, LoopReply,
       LoopNoReply, LoopTools, LoopAfterTurn, LoopSummaryBegin, LoopSummaryEnd, LoopCheck,
       LoopStopGate, LoopEndFrom, LoopEndAppend, LoopExit
  <2>3. cur = g /\ cur # NoCall BY <1>1, <2>2, NoCallAssumption DEF OneLoop
  <2>4. state' = "running" => state = "running"
    BY <1>1, <1>8 DEF TypeOK, LoopStep, LoopTop, LoopBuild, LoopReply, LoopNoReply, LoopTools,
       LoopAfterTurn, LoopSummaryBegin, LoopSummaryEnd, LoopCheck, LoopStopGate, LoopEndFrom,
       LoopEndAppend, LoopExit
  <2>5. \A c, h \in Calls : /\ Waits(c, h) => Waits(c, h)'
                            /\ Backs(c) => Backs(c)'
    BY <2>1 DEF Waits, Backs
  <2>6. CancelAnswered'
    BY <1>1, <2>1, <2>2, <2>5 DEF TypeOK, CancelAnswered, Alive
  <2>7. EndAnswered'
    <3>1. lp'[g] = "end_append" => lfrom'[g] = state /\ state' = state
      BY <1>1, <1>8 DEF TypeOK, Move, Finish, LoopStep, LoopTop, LoopBuild, LoopReply, LoopNoReply,
         LoopTools, LoopAfterTurn, LoopSummaryBegin, LoopSummaryEnd, LoopCheck, LoopStopGate,
         LoopEndFrom, LoopEndAppend, LoopExit
    <3>2. \A h \in Calls \ {g} : lp[h] # "end_append" /\ lp'[h] = lp[h]
      BY <1>1, <2>2, <2>3 DEF OneLoop, Alive, TypeOK
    <3>q. QED BY <3>1, <3>2 DEF EndAnswered
  <2>8. ExitAnswered'
    <3>1. lp'[g] = "exit" => g \in cancelled \/ state' # "running"
      BY <1>1, <1>8 DEF TypeOK, EndAnswered, Move, Finish, LoopStep, LoopTop, LoopBuild, LoopReply,
         LoopNoReply, LoopTools, LoopAfterTurn, LoopSummaryBegin, LoopSummaryEnd, LoopCheck,
         LoopStopGate, LoopEndFrom, LoopEndAppend, LoopExit
    <3>2. \A h \in Calls \ {g} : lp[h] # "exit" /\ lp'[h] = lp[h]
      BY <1>1, <2>2, <2>3 DEF OneLoop, Alive, TypeOK
    <3>q. QED BY <1>1, <2>2, <2>5, <3>1, <3>2 DEF ExitAnswered, CancelAnswered
  <2>9. Answered'
    <3>1. CASE LoopExit(g)
      <4>1. lp[g] = "exit" /\ state' = state BY <3>1 DEF LoopExit
      <4>q. QED BY <1>1, <1>3, <2>5, <4>1 DEF ExitAnswered, Answered
    <3>2. CASE ~LoopExit(g)
      <4>1. cur' = cur
        BY <1>8, <3>2 DEF LoopStep, LoopTop, LoopBuild, LoopReply, LoopNoReply, LoopTools,
           LoopAfterTurn, LoopSummaryBegin, LoopSummaryEnd, LoopCheck, LoopStopGate, LoopEndFrom,
           LoopEndAppend
      <4>q. QED BY <2>3, <4>1 DEF Answered
    <3>q. QED BY <3>1, <3>2
  <2>q. QED BY <2>6, <2>7, <2>8, <2>9
<1>9. CASE ProcessEnds
  <2>1. \A g \in Calls : lp'[g] = IF Alive(g) THEN "gone" ELSE lp[g] BY <1>9 DEF ProcessEnds
  <2>2. up' = FALSE /\ UNCHANGED <<cancelled, lfrom, state>> BY <1>9 DEF ProcessEnds
  <2>3. Goal
    BY <1>1, <2>1, <2>2 DEF LateInv, LoopInv, TypeOK, CancelAnswered, ExitAnswered, EndAnswered,
       Answered, Alive
  <2>q. QED BY <1>1, <2>3 DEF BackedInv
<1>10. CASE Boot \/ AtRest \/ UNCHANGED vars
  <2>1. UNCHANGED <<cur, cancelled, lp, lfrom, pc, target, from>> BY <1>10 DEF Boot, AtRest, vars
  <2>2. \/ state' # "running"
        \/ UNCHANGED <<up, state>>
    BY <1>10 DEF Boot, AtRest, vars
  <2>3. Goal
    BY <1>1, <2>1, <2>2 DEF CancelAnswered, ExitAnswered, EndAnswered, Answered, Alive, Waits, Backs
  <2>q. QED BY <1>1, <2>3 DEF BackedInv
<1>q. QED
  BY <1>1, <1>4, <1>5, <1>6, <1>7, <1>8, <1>9, <1>10 DEF BackedInv, Next, Crash, Exit

(* A session whose log says running is being worked on, or a call is about *)
(* to write that it is not: no way out of the loop, and no race between    *)
(* the calls that end it, leaves it running with nothing behind it.        *)
THEOREM RunningIsAnswered == Spec => []RunningIsBacked
<1>1. BackedInv => RunningIsBacked
  BY DEF BackedInv, Answered, RunningIsBacked, Backs, Waiting
<1>q. QED BY BackedInvInit, BackedInvStep, <1>1, PTL DEF Spec

-----------------------------------------------------------------------------
(* The budget.  It is looked at when a turn begins, and a turn is counted  *)
(* when the model has answered; only the one loop there is counts any.     *)
InTurn(g) == lp[g] \in {"build", "call"}

LEMMA TurnsStep ==
  ASSUME LoopInv, [Next]_vars
  PROVE  \/ /\ UNCHANGED <<turns, budget>>
            /\ \A g \in Calls : InTurn(g)' => InTurn(g) \/ ~OverBudget
         \/ /\ turns' = turns /\ budget' \in Budgets
            /\ \A g \in Calls : InTurn(g)' => InTurn(g)
         \/ \E g \in Calls : /\ InTurn(g) /\ budget' = budget
                             /\ turns' = IF turns < TurnCap THEN turns + 1 ELSE turns
                             /\ \A h \in Calls : ~InTurn(h)'
<1> USE DEF LoopInv, TypeOK, InTurn, Goto
<1>1. ASSUME NEW c \in Calls, Begin(c)
      PROVE  UNCHANGED <<turns, budget, lp>>
  BY <1>1 DEF Begin
<1>2. ASSUME NEW c \in Calls, StartLoop(c)
      PROVE  /\ UNCHANGED <<turns, budget>>
             /\ \A g \in Calls : InTurn(g)' => InTurn(g)
  BY <1>2 DEF StartLoop, EnsureRunning
<1>3. ASSUME NEW c \in Calls, CallStep(c), ~StartLoop(c)
      PROVE  /\ turns' = turns /\ lp' = lp
             /\ budget' = budget \/ budget' \in Budgets
  BY <1>3
  DEF CallStep, PromptLock, PromptAppend, GoalLock, GoalCheck, ResumeCheck, ResumeBudget,
      ResumeLock, StopRunning, CancelLoop, AwaitLoop, CancelCompaction, AwaitCompaction,
      InterruptEnd, StopCheck, StopFrom, StopAppend, CompactLock, CompactBegin, CompactEnd,
      ShutdownBegin, ShutdownStop, ShutdownAwaitLoop, ShutdownCheck, ShutdownPause, ShutdownDrain
<1>4. ASSUME NEW g \in Calls, LoopReply(g)
      PROVE  /\ InTurn(g) /\ budget' = budget
             /\ turns' = IF turns < TurnCap THEN turns + 1 ELSE turns
             /\ \A h \in Calls : ~InTurn(h)'
  <2>1. \A h \in Calls : Alive(h) => h = g
    BY <1>4 DEF LoopReply, OneLoop, Alive
  <2>q. QED BY <1>4, <2>1 DEF LoopReply, Move, Finish, Alive
<1>5. ASSUME NEW g \in Calls, LoopTop(g)
      PROVE  /\ UNCHANGED <<turns, budget>>
             /\ \A h \in Calls : InTurn(h)' => InTurn(h) \/ ~OverBudget
  BY <1>5 DEF LoopTop, Move, Finish
<1>6. ASSUME NEW g \in Calls, LoopStep(g), ~LoopTop(g), ~LoopReply(g)
      PROVE  /\ UNCHANGED <<turns, budget>>
             /\ \A h \in Calls : InTurn(h)' => InTurn(h)
  BY <1>6
  DEF Move, Finish, LoopStep, LoopBuild, LoopNoReply, LoopTools, LoopAfterTurn,
      LoopSummaryBegin, LoopSummaryEnd, LoopCheck, LoopStopGate, LoopEndFrom, LoopEndAppend, LoopExit
<1>7. CASE ProcessEnds BY <1>7 DEF ProcessEnds
<1>8. CASE Boot \/ AtRest \/ UNCHANGED vars BY <1>8 DEF Boot, AtRest, vars
<1>q. QED
  BY <1>1, <1>2, <1>3, <1>4, <1>5, <1>6, <1>7, <1>8 DEF Next, Crash, Exit

(* While a turn is under way there was budget for it, provided that no     *)
(* resume gives the session less than it had.                              *)
BudgetRaised == budget' = 0 \/ (budget # 0 /\ budget' >= budget)
TurnIsPaid == \A g \in Calls : InTurn(g) => ~OverBudget
BudgetInv == LoopInv /\ TurnIsPaid

LEMMA BudgetInvInit == Init => BudgetInv
BY LoopInvInit DEF Init, BudgetInv, TurnIsPaid, InTurn

LEMMA BudgetInvStep == BudgetInv /\ [Next]_vars /\ [BudgetRaised]_budget => BudgetInv'
<1> SUFFICES ASSUME BudgetInv, [Next]_vars, [BudgetRaised]_budget PROVE TurnIsPaid'
  BY LoopInvStep DEF BudgetInv
<1>1. turns \in Nat /\ budget \in Nat BY BudgetAssumption DEF BudgetInv, LoopInv, TypeOK
<1>2. budget' \in Nat BY LoopInvStep DEF BudgetInv, LoopInv, TypeOK
<1>q. QED BY <1>1, <1>2, TurnsStep DEF BudgetInv, TurnIsPaid, OverBudget, BudgetRaised

(* A session takes a turn only within its budget, through crashes, resumes *)
(* and everything that may happen between the check at the top of the loop *)
(* and the answer of the model; as long as a resume raises the budget.     *)
(* Resume takes any budget, and one that overtakes the loop of another     *)
(* resume may take away what the turn under way was begun on.              *)
THEOREM TurnsArePaid == Spec /\ [][BudgetRaised]_budget => BudgetHolds
<1>1. BudgetInv /\ [Next]_vars => [turns' # turns => budget = 0 \/ turns < budget]_vars
  <2> SUFFICES ASSUME BudgetInv, [Next]_vars, turns' # turns
               PROVE  budget = 0 \/ turns < budget
    OBVIOUS
  <2>1. turns \in Nat /\ budget \in Nat BY BudgetAssumption DEF BudgetInv, LoopInv, TypeOK
  <2>q. QED BY <2>1, TurnsStep DEF BudgetInv, TurnIsPaid, OverBudget
<1>q. QED BY BudgetInvInit, BudgetInvStep, <1>1, PTL DEF Spec, BudgetHolds

(* Whatever a resume gives, the turns a session takes stay within the most *)
(* it was ever given.                                                      *)
THEOREM TurnsAreBounded ==
  ASSUME NEW most \in Nat, \A b \in Budgets \cup {FirstBudget} : b \in 1..most
  PROVE  Spec => [](turns <= most)
<1> DEFINE Within == budget \in 1..most /\ turns <= most /\ \A g \in Calls : InTurn(g) => turns < most
           Inv == LoopInv /\ Within
<1>1. Init => Inv BY LoopInvInit DEF Init, InTurn
<1>2. Inv /\ [Next]_vars => Inv'
  <2> SUFFICES ASSUME Inv, [Next]_vars PROVE Within' BY LoopInvStep
  <2>1. turns \in Nat BY DEF LoopInv, TypeOK
  <2>q. QED BY <2>1, TurnsStep DEF OverBudget
<1>q. QED BY <1>1, <1>2, PTL DEF Spec
=============================================================================
