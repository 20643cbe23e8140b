-------------------------- MODULE ToolRuntimeProofs --------------------------
(***************************************************************************)
(* Proofs about ToolRuntime, for any callers, tools and keys and any       *)
(* number of calls and restarts.                                           *)
(***************************************************************************)
EXTENDS ToolRuntime, SequenceTheorems, TLAPS

\* A running handler holds the lock, for a key without a result; a call that is
\* under way was made in this life.
CallsUnderWay ==
  \A n \in Numbers :
    /\ calls[n].pc = "running" => HoldsLock(n) /\ remembered[calls[n].key] = 0
    /\ calls[n].pc \in {"waiting", "running", "audit"} => calls[n].life = life

\* A remembered result is that of a run of this life, whose handler had its
\* effect under this key and whose audit may be under way.
ResultsRemembered ==
  \A k \in Keys :
    LET run == remembered[k]
    IN run # 0 =>
         /\ run \in effects
         /\ calls[run].key = k
         /\ calls[run].life = life
         /\ calls[run].pc \in {"audit", "answered", "failed"}
         /\ calls[run].pc # "failed" => calls[run].result = run

\* An effect is that of a call which has left the lock.
EffectsAreOver ==
  \A n \in effects :
    /\ calls[n].pc \in {"audit", "answered", "failed"}
    /\ calls[n].pc # "failed" => calls[n].result = n

\* What a call was answered in this life is remembered.
AnswersRemembered ==
  \A n \in Numbers :
    calls[n].pc \in {"audit", "answered"} =>
      /\ calls[n].result \in effects
      /\ calls[n].life = life => remembered[calls[n].key] = calls[n].result
      /\ calls[n].pc = "audit" => calls[n].result = n

LivesPast == \A n \in Numbers : calls[n].life <= life

Inv ==
  /\ TypeOK
  /\ LivesPast
  /\ CallsUnderWay
  /\ ResultsRemembered
  /\ EffectsAreOver
  /\ AnswersRemembered
  /\ OneResultPerKey
  /\ NoSilentRepetition
  /\ AnswersAreAudited

-----------------------------------------------------------------------------
(* Sequences of calls.                                                     *)

LEMMA CallFields ==
  ASSUME TypeOK, NEW n \in Numbers
  PROVE  /\ calls[n] \in Call /\ n \in Nat /\ n # 0
         /\ calls[n].key \in Keys /\ calls[n].life \in Nat /\ calls[n].result \in Nat
         /\ calls[n].pc \in PC
<1>1. calls \in Seq(Call) /\ n \in 1 .. Len(calls)
  BY DEF TypeOK, Numbers
<1>2. calls[n] \in Call
  BY <1>1, ElementOfSeq
<1> QED BY <1>1, <1>2 DEF Call

\* A step of call n that changes its pc and its result.
LEMMA CallChanges ==
  ASSUME TypeOK, NEW n \in Numbers, NEW pc \in PC, NEW result \in Nat,
         calls' = [calls EXCEPT ![n] = [calls[n] EXCEPT !.pc = pc, !.result = result]]
  PROVE  /\ calls' \in Seq(Call) /\ Len(calls') = Len(calls) /\ Numbers' = Numbers
         /\ calls'[n].pc = pc /\ calls'[n].result = result
         /\ calls'[n].key = calls[n].key /\ calls'[n].life = calls[n].life
         /\ \A m \in Numbers \ {n} : calls'[m] = calls[m]
<1> DEFINE new == [calls[n] EXCEPT !.pc = pc, !.result = result]
<1>1. calls \in Seq(Call) /\ n \in 1 .. Len(calls)
  BY DEF TypeOK, Numbers
<1>2. calls[n] \in Call
  BY CallFields
<1>3. /\ new \in Call /\ new.pc = pc /\ new.result = result
      /\ new.key = calls[n].key /\ new.life = calls[n].life
  BY <1>2 DEF Call
<1> HIDE DEF new
<1>4. calls' = [calls EXCEPT ![n] = new]
  BY DEF new
<1>5. /\ calls' \in Seq(Call) /\ Len(calls') = Len(calls) /\ calls'[n] = new
      /\ \A m \in 1 .. Len(calls) : m # n => calls'[m] = calls[m]
  <2>1. /\ [calls EXCEPT ![n] = new] \in Seq(Call)
        /\ Len([calls EXCEPT ![n] = new]) = Len(calls)
        /\ \A m \in 1 .. Len(calls) :
             [calls EXCEPT ![n] = new][m] = IF m = n THEN new ELSE calls[m]
    BY <1>1, <1>3, ExceptSeq
  <2> QED BY <1>1, <1>4, <2>1
<1> QED BY <1>3, <1>5 DEF Numbers

\* Whoever holds the lock is the only one whose handler runs.
LEMMA OneRuns ==
  ASSUME Inv, NEW n \in Numbers, HoldsLock(n) \/ calls[n].pc = "running"
  PROVE  /\ \A m \in Numbers : calls[m].pc = "running" => m = n
         /\ Tail(queue) \in Seq(1 .. Len(calls))
<1>1. HoldsLock(n)
  BY DEF Inv, CallsUnderWay
<1>2. \A m \in Numbers : calls[m].pc = "running" => HoldsLock(m)
  BY DEF Inv, CallsUnderWay
<1> QED BY <1>1, <1>2 DEF HoldsLock, Inv, TypeOK

LEMMA EffectsAreCalls ==
  ASSUME TypeOK
  PROVE  effects \subseteq Numbers
BY DEF TypeOK, Numbers

\* The run that a call was given the result of.
LEMMA ResultIsCall ==
  ASSUME Inv, NEW n \in Numbers, calls[n].pc \in {"audit", "answered"}
  PROVE  calls[n].result \in effects /\ calls[n].result \in Numbers
BY EffectsAreCalls DEF Inv, AnswersRemembered

LEMMA RememberedRun ==
  ASSUME Inv, NEW k \in Keys, remembered[k] # 0
  PROVE  /\ remembered[k] \in Numbers /\ remembered[k] \in effects
         /\ calls[remembered[k]].pc \in {"audit", "answered", "failed"}
         /\ calls[remembered[k]].key = k /\ calls[remembered[k]].life = life
         /\ calls[remembered[k]].pc # "failed" =>
              calls[remembered[k]].result = remembered[k]
BY DEF Inv, TypeOK, ResultsRemembered, Numbers

\* A step of call n that changes its pc alone.
LEMMA CallBecomes ==
  ASSUME TypeOK, NEW n \in Numbers, NEW pc \in PC, Becomes(n, pc)
  PROVE  /\ calls' \in Seq(Call) /\ Len(calls') = Len(calls) /\ Numbers' = Numbers
         /\ calls'[n].pc = pc /\ calls'[n].result = calls[n].result
         /\ calls'[n].key = calls[n].key /\ calls'[n].life = calls[n].life
         /\ \A m \in Numbers \ {n} : calls'[m] = calls[m]
<1>1. calls[n] \in Call /\ calls[n].result \in Nat
  BY CallFields
<1>2. [calls[n] EXCEPT !.pc = pc] = [calls[n] EXCEPT !.pc = pc, !.result = calls[n].result]
  BY <1>1 DEF Call
<1>3. calls' = [calls EXCEPT ![n] = [calls[n] EXCEPT !.pc = pc]]
  BY DEF Becomes
<1>4. calls' = [calls EXCEPT ![n] = [calls[n] EXCEPT !.pc = pc, !.result = calls[n].result]]
  BY <1>2, <1>3
<1> QED BY <1>1, <1>4, CallChanges

-----------------------------------------------------------------------------
(* The steps.                                                              *)

LEMMA StartHolds ==
  ASSUME Inv, NEW n \in Numbers, Start(n)
  PROVE  Inv'
<1>1. TypeOK
  BY DEF Inv
<1>2. /\ calls' \in Seq(Call) /\ Len(calls') = Len(calls) /\ Numbers' = Numbers
      /\ calls'[n].pc = "running" /\ calls'[n].result = calls[n].result
      /\ calls'[n].key = calls[n].key /\ calls'[n].life = calls[n].life
      /\ \A m \in Numbers \ {n} : calls'[m] = calls[m]
  <2>1. "running" \in PC /\ Becomes(n, "running")
    BY DEF PC, Start
  <2> QED BY <1>1, <2>1, CallBecomes
<1>3. /\ calls[n].pc = "waiting" /\ HoldsLock(n) /\ remembered[calls[n].key] = 0
      /\ UNCHANGED <<queue, remembered, effects, audited, life>>
      /\ effects \subseteq Numbers
  BY <1>1, EffectsAreCalls DEF Start, MayStart
<1>4. TypeOK'
  BY <1>1, <1>2, <1>3 DEF TypeOK
<1>5. LivesPast' /\ CallsUnderWay'
  BY <1>2, <1>3 DEF Inv, LivesPast, CallsUnderWay, HoldsLock
<1>6. ResultsRemembered'
  BY <1>2, <1>3, RememberedRun DEF ResultsRemembered
<1>7. EffectsAreOver' /\ n \notin effects
  BY <1>2, <1>3 DEF Inv, EffectsAreOver
<1>8. AnswersRemembered'
  BY <1>2, <1>3 DEF Inv, AnswersRemembered
<1>9. OneResultPerKey'
  BY <1>2, <1>3 DEF Inv, OneResultPerKey
<1>10. NoSilentRepetition'
  BY <1>2, <1>3, <1>7 DEF Inv, NoSilentRepetition
<1>11. AnswersAreAudited'
  BY <1>2, <1>3, <1>7, ResultIsCall DEF Inv, AnswersAreAudited
<1> QED BY <1>4, <1>5, <1>6, <1>7, <1>8, <1>9, <1>10, <1>11 DEF Inv

LEMMA RepeatHolds ==
  ASSUME Inv, NEW n \in Numbers, Repeat(n)
  PROVE  Inv'
<1> DEFINE run == remembered[calls[n].key]
<1>1. TypeOK /\ calls[n].key \in Keys
  BY CallFields DEF Inv
<1>2. /\ run # 0 /\ run \in Numbers /\ run \in effects
      /\ calls[run].pc \in {"audit", "answered", "failed"}
      /\ calls[run].key = calls[n].key /\ calls[run].life = life
      /\ calls[run].pc # "failed" => calls[run].result = run
  BY <1>1, RememberedRun DEF Repeat
<1>3. /\ calls' \in Seq(Call) /\ Len(calls') = Len(calls) /\ Numbers' = Numbers
      /\ calls'[n].pc = "answered" /\ calls'[n].result = run
      /\ calls'[n].key = calls[n].key /\ calls'[n].life = calls[n].life
      /\ \A m \in Numbers \ {n} : calls'[m] = calls[m]
  <2>1. "answered" \in PC /\ run \in Nat
    BY <1>2 DEF PC, Numbers
  <2>2. calls' = [calls EXCEPT ![n] = [calls[n] EXCEPT !.pc = "answered", !.result = run]]
    BY DEF Repeat, Answered
  <2> HIDE DEF run
  <2> QED BY <1>1, <2>1, <2>2, CallChanges
<1>4. /\ calls[n].pc = "waiting" /\ HoldsLock(n) /\ queue' = Tail(queue)
      /\ UNCHANGED <<remembered, effects, audited, life>>
      /\ effects \subseteq Numbers
  BY <1>1, EffectsAreCalls DEF Repeat, Release
<1>5. /\ Tail(queue) \in Seq(1 .. Len(calls))
      /\ \A m \in Numbers : calls[m].pc # "running"
  BY <1>4, OneRuns
<1>6. n \notin effects /\ n # run /\ calls[n].life = life
  BY <1>2, <1>4 DEF Inv, EffectsAreOver, CallsUnderWay
<1> HIDE DEF run
<1>7. TypeOK'
  BY <1>1, <1>3, <1>4, <1>5 DEF TypeOK
<1>8. LivesPast' /\ CallsUnderWay'
  BY <1>3, <1>4, <1>5 DEF Inv, LivesPast, CallsUnderWay
<1>9. ResultsRemembered'
  BY <1>3, <1>4, RememberedRun DEF ResultsRemembered
<1>10. EffectsAreOver'
  BY <1>3, <1>4, <1>6 DEF Inv, EffectsAreOver
<1>11. AnswersRemembered'
  BY <1>2, <1>3, <1>4, <1>6 DEF Inv, AnswersRemembered, run
<1>12. OneResultPerKey'
  <2>1. \A m \in Numbers \ {n} :
          calls[m].pc = "answered" /\ calls[m].key = calls[n].key /\ calls[m].life = life
          => calls[m].result = run
    BY DEF Inv, AnswersRemembered, run
  <2> QED BY <1>3, <1>6, <2>1 DEF Inv, OneResultPerKey
<1>13. NoSilentRepetition'
  BY <1>3, <1>4, <1>6 DEF Inv, NoSilentRepetition
<1>14. AnswersAreAudited'
  <2>1. calls[run].pc = "answered" => run \in audited
    BY <1>2 DEF Inv, AnswersAreAudited
  <2>2. run \in audited \/ calls[run].pc \in {"audit", "failed"}
    BY <1>2, <2>1
  <2> QED BY <1>2, <1>3, <1>4, <1>6, <2>2, ResultIsCall DEF Inv, AnswersAreAudited
<1> QED BY <1>7, <1>8, <1>9, <1>10, <1>11, <1>12, <1>13, <1>14 DEF Inv

LEMMA SucceedHolds ==
  ASSUME Inv, NEW n \in Numbers, Succeed(n)
  PROVE  Inv'
<1>1. TypeOK /\ calls[n].key \in Keys /\ n \in Nat /\ n # 0
  BY CallFields DEF Inv
<1>2. /\ calls' \in Seq(Call) /\ Len(calls') = Len(calls) /\ Numbers' = Numbers
      /\ calls'[n].pc = "audit" /\ calls'[n].result = n
      /\ calls'[n].key = calls[n].key /\ calls'[n].life = calls[n].life
      /\ \A m \in Numbers \ {n} : calls'[m] = calls[m]
  <2>1. "audit" \in PC
    BY DEF PC
  <2>2. calls' = [calls EXCEPT ![n] = [calls[n] EXCEPT !.pc = "audit", !.result = n]]
    BY DEF Succeed, AfterSuccess
  <2> QED BY <1>1, <2>1, <2>2, CallChanges
<1>3. /\ calls[n].pc = "running" /\ queue' = Tail(queue)
      /\ effects' = effects \cup {n} /\ UNCHANGED <<audited, life>>
      /\ effects \subseteq Numbers
      /\ remembered' = [remembered EXCEPT ![calls[n].key] = n]
  BY <1>1, EffectsAreCalls DEF Succeed, Release, Remember
<1>4. /\ Tail(queue) \in Seq(1 .. Len(calls))
      /\ \A m \in Numbers : calls[m].pc = "running" => m = n
  BY <1>3, OneRuns
<1>5. n \notin effects /\ calls[n].life = life /\ remembered[calls[n].key] = 0
  BY <1>3 DEF Inv, EffectsAreOver, CallsUnderWay
<1>6. /\ remembered'[calls[n].key] = n
      /\ \A k \in Keys \ {calls[n].key} : remembered'[k] = remembered[k]
  BY <1>1, <1>3 DEF TypeOK
<1>7. \A m \in Numbers : calls[m].key \in Keys
  BY <1>1, CallFields
\* No call was answered under the key in this life.
<1>8. \A m \in Numbers :
        /\ calls[m].pc \in {"audit", "answered"}
        /\ calls[m].key = calls[n].key
        => calls[m].life # life
  <2>1. \A m \in Numbers : calls[m].pc \in {"audit", "answered"} => calls[m].result # 0
    BY <1>1, ResultIsCall DEF Numbers
  <2> QED BY <1>5, <2>1 DEF Inv, AnswersRemembered
<1>9. TypeOK'
  <2>1. remembered' \in [Keys -> 0 .. Len(calls)]
    BY <1>1, <1>3 DEF TypeOK, Numbers
  <2>2. effects' \subseteq 1 .. Len(calls) /\ audited' \subseteq effects'
    BY <1>1, <1>3 DEF TypeOK, Numbers
  <2> QED BY <1>1, <1>2, <1>3, <1>4, <2>1, <2>2 DEF TypeOK
<1>10. LivesPast' /\ CallsUnderWay'
  BY <1>2, <1>3, <1>4 DEF Inv, LivesPast, CallsUnderWay
<1>11. ResultsRemembered'
  <2> SUFFICES ASSUME NEW k \in Keys, remembered'[k] # 0
               PROVE  /\ remembered'[k] \in effects'
                      /\ calls'[remembered'[k]].key = k
                      /\ calls'[remembered'[k]].life = life
                      /\ calls'[remembered'[k]].pc \in {"audit", "answered", "failed"}
                      /\ calls'[remembered'[k]].pc # "failed" =>
                           calls'[remembered'[k]].result = remembered'[k]
    BY <1>3 DEF ResultsRemembered
  <2>1. CASE k = calls[n].key
    BY <1>2, <1>3, <1>5, <1>6, <2>1
  <2>2. CASE k # calls[n].key
    <3>1. remembered'[k] = remembered[k]
      BY <1>6, <2>2
    <3> QED BY <1>2, <1>3, <1>5, <3>1, RememberedRun
  <2> QED BY <2>1, <2>2
<1>12. EffectsAreOver'
  BY <1>2, <1>3 DEF Inv, EffectsAreOver
<1>13. AnswersRemembered'
  <2>1. \A m \in Numbers \ {n} :
          calls[m].pc \in {"audit", "answered"} /\ calls[m].life = life
          => remembered'[calls[m].key] = calls[m].result
    BY <1>6, <1>7, <1>8 DEF Inv, AnswersRemembered
  <2> QED BY <1>2, <1>3, <1>6, <2>1 DEF Inv, AnswersRemembered
<1>14. OneResultPerKey'
  BY <1>2, <1>3 DEF Inv, OneResultPerKey
<1>15. NoSilentRepetition'
  <2>1. \A m \in effects : m \in Numbers \ {n}
    BY <1>3, <1>5
  <2>2. \A m \in effects :
          calls[m].life = life /\ calls[m].pc # "failed" => calls[m].key # calls[n].key
    BY <1>8, <2>1 DEF Inv, EffectsAreOver
  <2>3. \A m \in effects :
          calls[m].life = life /\ calls[m].pc # "failed" => remembered'[calls[m].key] = m
    BY <1>6, <1>7, <2>1, <2>2 DEF Inv, NoSilentRepetition
  <2> QED BY <1>2, <1>3, <1>6, <2>1, <2>3 DEF NoSilentRepetition
<1>16. AnswersAreAudited'
  BY <1>2, <1>3, <1>5, ResultIsCall DEF Inv, AnswersAreAudited
<1> QED BY <1>9, <1>10, <1>11, <1>12, <1>13, <1>14, <1>15, <1>16 DEF Inv

LEMMA FailHolds ==
  ASSUME Inv, NEW n \in Numbers, Fail(n)
  PROVE  Inv'
<1>1. TypeOK /\ n \in Nat /\ n # 0
  BY CallFields DEF Inv
<1>2. /\ calls' \in Seq(Call) /\ Len(calls') = Len(calls) /\ Numbers' = Numbers
      /\ calls'[n].pc = "failed" /\ calls'[n].result = calls[n].result
      /\ calls'[n].key = calls[n].key /\ calls'[n].life = calls[n].life
      /\ \A m \in Numbers \ {n} : calls'[m] = calls[m]
  <2>1. "failed" \in PC /\ Becomes(n, "failed")
    BY DEF PC, Fail
  <2> QED BY <1>1, <2>1, CallBecomes
<1>3. /\ calls[n].pc = "running" /\ queue' = Tail(queue)
      /\ UNCHANGED <<remembered, audited, life>>
      /\ effects \subseteq Numbers
      /\ effects' = effects \cup {n} \/ effects' = effects
  BY <1>1, EffectsAreCalls DEF Fail, Release
<1>4. /\ Tail(queue) \in Seq(1 .. Len(calls))
      /\ \A m \in Numbers : calls[m].pc = "running" => m = n
  BY <1>3, OneRuns
<1>5. n \notin effects
  BY <1>3 DEF Inv, EffectsAreOver
<1>6. effects \subseteq effects' /\ effects' \subseteq effects \cup {n}
  BY <1>3
<1>7. TypeOK'
  <2>1. effects' \subseteq 1 .. Len(calls) /\ audited' \subseteq effects'
    BY <1>1, <1>3, <1>6 DEF TypeOK, Numbers
  <2> QED BY <1>1, <1>2, <1>3, <1>4, <2>1 DEF TypeOK
<1>8. LivesPast' /\ CallsUnderWay'
  BY <1>2, <1>3, <1>4 DEF Inv, LivesPast, CallsUnderWay
<1>9. ResultsRemembered'
  BY <1>2, <1>3, <1>6, RememberedRun DEF ResultsRemembered
<1>10. EffectsAreOver'
  BY <1>2, <1>3, <1>6 DEF Inv, EffectsAreOver
<1>11. AnswersRemembered'
  BY <1>2, <1>3, <1>6 DEF Inv, AnswersRemembered
<1>12. OneResultPerKey'
  BY <1>2, <1>3 DEF Inv, OneResultPerKey
<1>13. NoSilentRepetition'
  BY <1>2, <1>3, <1>6 DEF Inv, NoSilentRepetition
<1>14. AnswersAreAudited'
  BY <1>2, <1>3, <1>5, <1>6, ResultIsCall DEF Inv, AnswersAreAudited
<1> QED BY <1>7, <1>8, <1>9, <1>10, <1>11, <1>12, <1>13, <1>14 DEF Inv

LEMMA AuditHolds ==
  ASSUME Inv, NEW n \in Numbers, Audit(n)
  PROVE  Inv'
<1>1. TypeOK /\ n \in Nat /\ n # 0
  BY CallFields DEF Inv
<1>2. /\ calls' \in Seq(Call) /\ Len(calls') = Len(calls) /\ Numbers' = Numbers
      /\ calls'[n].pc = "answered" /\ calls'[n].result = calls[n].result
      /\ calls'[n].key = calls[n].key /\ calls'[n].life = calls[n].life
      /\ \A m \in Numbers \ {n} : calls'[m] = calls[m]
  <2>1. "answered" \in PC /\ Becomes(n, "answered")
    BY DEF PC, Audit
  <2> QED BY <1>1, <2>1, CallBecomes
<1>3. /\ calls[n].pc = "audit" /\ audited' = audited \cup {n}
      /\ UNCHANGED <<queue, remembered, effects, life>>
      /\ effects \subseteq Numbers
  BY <1>1, EffectsAreCalls DEF Audit
<1>4. /\ calls[n].result = n /\ n \in effects /\ calls[n].life = life
      /\ remembered[calls[n].key] = n
  BY <1>3 DEF Inv, AnswersRemembered, CallsUnderWay
<1>5. TypeOK'
  BY <1>1, <1>2, <1>3, <1>4 DEF TypeOK
<1>6. LivesPast' /\ CallsUnderWay'
  BY <1>2, <1>3 DEF Inv, LivesPast, CallsUnderWay, HoldsLock
<1>7. ResultsRemembered'
  BY <1>2, <1>3, RememberedRun DEF ResultsRemembered
<1>8. EffectsAreOver'
  BY <1>2, <1>3, <1>4 DEF Inv, EffectsAreOver
<1>9. AnswersRemembered'
  BY <1>2, <1>3, <1>4 DEF Inv, AnswersRemembered
<1>10. OneResultPerKey'
  <2>1. \A m \in Numbers \ {n} :
          calls[m].pc = "answered" /\ calls[m].key = calls[n].key /\ calls[m].life = life
          => calls[m].result = n
    BY <1>4 DEF Inv, AnswersRemembered
  <2> QED BY <1>2, <1>4, <2>1 DEF Inv, OneResultPerKey
<1>11. NoSilentRepetition'
  BY <1>2, <1>3, <1>4 DEF Inv, NoSilentRepetition
<1>12. AnswersAreAudited'
  BY <1>2, <1>3, <1>4, ResultIsCall DEF Inv, AnswersAreAudited
<1> QED BY <1>5, <1>6, <1>7, <1>8, <1>9, <1>10, <1>11, <1>12 DEF Inv

LEMMA AuditFailsHolds ==
  ASSUME Inv, NEW n \in Numbers, AuditFails(n)
  PROVE  Inv'
<1>1. TypeOK /\ n \in Nat /\ n # 0
  BY CallFields DEF Inv
<1>2. /\ calls' \in Seq(Call) /\ Len(calls') = Len(calls) /\ Numbers' = Numbers
      /\ calls'[n].pc = "failed" /\ calls'[n].result = 0
      /\ calls'[n].key = calls[n].key /\ calls'[n].life = calls[n].life
      /\ \A m \in Numbers \ {n} : calls'[m] = calls[m]
  <2>1. "failed" \in PC /\ 0 \in Nat
    BY DEF PC
  <2>2. calls' = [calls EXCEPT ![n] = [calls[n] EXCEPT !.pc = "failed", !.result = 0]]
    BY DEF AuditFails
  <2> QED BY <1>1, <2>1, <2>2, CallChanges
<1>3. /\ calls[n].pc = "audit" /\ UNCHANGED <<queue, remembered, effects, audited, life>>
      /\ effects \subseteq Numbers
  BY <1>1, EffectsAreCalls DEF AuditFails
<1>4. TypeOK'
  BY <1>1, <1>2, <1>3 DEF TypeOK
<1>5. LivesPast' /\ CallsUnderWay'
  BY <1>2, <1>3 DEF Inv, LivesPast, CallsUnderWay, HoldsLock
<1>6. ResultsRemembered'
  BY <1>2, <1>3, RememberedRun DEF ResultsRemembered
<1>7. EffectsAreOver'
  BY <1>2, <1>3 DEF Inv, EffectsAreOver
<1>8. AnswersRemembered'
  BY <1>2, <1>3 DEF Inv, AnswersRemembered
<1>9. OneResultPerKey'
  BY <1>2, <1>3 DEF Inv, OneResultPerKey
<1>10. NoSilentRepetition'
  BY <1>2, <1>3 DEF Inv, NoSilentRepetition
<1>11. AnswersAreAudited'
  BY <1>2, <1>3, ResultIsCall DEF Inv, AnswersAreAudited
<1> QED BY <1>4, <1>5, <1>6, <1>7, <1>8, <1>9, <1>10, <1>11 DEF Inv

LEMMA ExecuteHolds ==
  ASSUME Inv, NEW s \in Subjects, NEW t \in Tools, NEW k \in Keys, Execute(s, t, k)
  PROVE  Inv'
<1> DEFINE this == Len(calls) + 1
           new == [subject |-> s, tool |-> t, key |-> k, life |-> life,
                   pc |-> "waiting", result |-> 0]
<1>1. /\ TypeOK /\ calls \in Seq(Call) /\ Len(calls) \in Nat
      /\ effects \subseteq Numbers /\ life \in Nat
  BY EffectsAreCalls DEF Inv, TypeOK
<1>2. new \in Call
  BY <1>1 DEF Call, PC
<1>3. /\ new.pc = "waiting" /\ new.life = life
      /\ calls' = Append(calls, new) /\ queue' = Append(queue, this)
      /\ this <= MaxCalls
      /\ UNCHANGED <<remembered, effects, audited, life>>
  BY <1>1, RuntimeAssumption DEF Execute
<1> HIDE DEF new
<1>4. /\ calls' \in Seq(Call) /\ Len(calls') = this /\ calls'[this] = new
      /\ \A m \in Numbers : calls'[m] = calls[m]
  <2>1. /\ Append(calls, new) \in Seq(Call)
        /\ Len(Append(calls, new)) = Len(calls) + 1
        /\ \A m \in 1 .. Len(calls) : Append(calls, new)[m] = calls[m]
        /\ Append(calls, new)[Len(calls) + 1] = new
    BY <1>1, <1>2, AppendProperties
  <2> QED BY <1>3, <2>1 DEF Numbers
<1>5. /\ Numbers' = Numbers \cup {this} /\ this \notin Numbers
      /\ calls'[this].pc = "waiting" /\ calls'[this].life = life
  BY <1>1, <1>3, <1>4 DEF Numbers
<1> HIDE DEF this
<1>6. /\ queue' \in Seq(1 .. Len(calls'))
      /\ \A m \in Numbers : HoldsLock(m) => HoldsLock(m)'
  <2>1. queue \in Seq(1 .. this) /\ this \in 1 .. this
    BY <1>1 DEF this, TypeOK
  <2>2. queue' \in Seq(1 .. this) /\ queue' # << >> /\ (queue # << >> => Head(queue') = Head(queue))
    BY <1>3, <2>1
  <2> QED BY <1>4, <2>2 DEF HoldsLock
<1>7. TypeOK'
  <2>1. remembered \in [Keys -> 0 .. Len(calls')]
    BY <1>1, <1>4 DEF TypeOK, this
  <2>2. effects \subseteq 1 .. Len(calls') /\ audited \subseteq effects
    BY <1>1, <1>4 DEF TypeOK, this
  <2> QED BY <1>1, <1>3, <1>4, <1>6, <2>1, <2>2 DEF TypeOK
\* The calls so far stay, and the new one has neither run nor been answered.
<1>8. /\ \A m \in Numbers' : m \in Numbers \/ m = this
      /\ \A m \in Numbers : calls'[m] = calls[m] /\ m # this /\ m \in Numbers'
      /\ calls'[this].pc = "waiting" /\ calls'[this].life = life
      /\ UNCHANGED <<remembered, effects, audited, life>>
      /\ effects \subseteq Numbers /\ life <= life
  <2>1. life <= life
    BY <1>1
  <2>2. UNCHANGED <<remembered, effects, audited, life>>
    BY <1>3
  <2>3. \A m \in Numbers : calls'[m] = calls[m]
    BY <1>4
  <2> QED BY <1>1, <1>5, <2>1, <2>2, <2>3
<1>9. LivesPast'
  BY <1>8 DEF Inv, LivesPast
<1>10. CallsUnderWay'
  BY <1>6, <1>8 DEF Inv, CallsUnderWay
<1>11. ResultsRemembered'
  BY <1>8, RememberedRun DEF ResultsRemembered
<1>12. EffectsAreOver'
  BY <1>8 DEF Inv, EffectsAreOver
<1>13. AnswersRemembered'
  BY <1>8 DEF Inv, AnswersRemembered
<1>14. OneResultPerKey'
  BY <1>8 DEF Inv, OneResultPerKey
<1>15. NoSilentRepetition'
  BY <1>8 DEF Inv, NoSilentRepetition
<1>16. AnswersAreAudited'
  BY <1>8, ResultIsCall DEF Inv, AnswersAreAudited
<1> QED BY <1>7, <1>9, <1>10, <1>11, <1>12, <1>13, <1>14, <1>15, <1>16 DEF Inv

\* The calls of the life that ended have their end, and nothing is remembered.
LEMMA RestartHolds ==
  ASSUME Inv, Restart
  PROVE  Inv'
<1> DEFINE ended(m) == IF calls[m].pc \in {"answered", "failed"} THEN calls[m]
                       ELSE [calls[m] EXCEPT !.pc = "failed", !.result = 0]
<1>1. /\ TypeOK /\ calls \in Seq(Call) /\ Len(calls) \in Nat
      /\ effects \subseteq Numbers /\ life \in Nat
  BY EffectsAreCalls DEF Inv, TypeOK
<1>2. ASSUME NEW m \in Numbers
      PROVE  /\ ended(m) \in Call /\ ended(m).pc \in {"answered", "failed"}
             /\ ended(m).key = calls[m].key /\ ended(m).life = calls[m].life
             /\ ended(m).pc = "answered" => calls[m].pc = "answered"
             /\ ended(m).pc = "answered" => ended(m).result = calls[m].result
             /\ calls[m].pc # "answered" => ended(m).pc = "failed"
  <2>1. calls[m] \in Call /\ calls[m].pc \in PC
    BY <1>1, CallFields
  <2>2. CASE calls[m].pc \in {"answered", "failed"}
    BY <2>1, <2>2 DEF Call
  <2>3. CASE calls[m].pc \notin {"answered", "failed"}
    BY <2>1, <2>3 DEF Call, PC
  <2> QED BY <2>2, <2>3
<1>3. /\ calls' = [m \in 1 .. Len(calls) |-> ended(m)] /\ life' = life + 1
      /\ queue' = << >> /\ remembered' = [k \in Keys |-> 0]
      /\ UNCHANGED <<effects, audited>>
  BY DEF Restart, NothingRemembered
<1> HIDE DEF ended
<1>4. /\ calls' \in Seq(Call) /\ Len(calls') = Len(calls) /\ Numbers' = Numbers
      /\ \A m \in Numbers : calls'[m] = ended(m)
  BY <1>1, <1>2, <1>3 DEF Numbers
<1>5. /\ \A m \in Numbers : calls'[m].life < life'
      /\ life' \in Nat
      /\ \A m \in Numbers : calls'[m].pc \in {"answered", "failed"}
  <2>1. \A m \in Numbers : calls[m].life \in Nat /\ calls[m].life <= life
    BY <1>1, CallFields DEF Inv, LivesPast
  <2>2. \A m \in Numbers : calls[m].life < life + 1
    BY <1>1, <2>1
  <2>3. \A m \in Numbers : calls'[m].life = calls[m].life
    BY <1>2, <1>4
  <2>4. \A m \in Numbers : calls'[m].pc \in {"answered", "failed"}
    BY <1>2, <1>4
  <2>5. life' = life + 1
    BY <1>3
  <2> QED BY <1>1, <2>2, <2>3, <2>4, <2>5
<1>6. TypeOK'
  BY <1>1, <1>3, <1>4, <1>5 DEF TypeOK
<1>7. LivesPast'
  <2>1. \A m \in Numbers : calls'[m].life \in Nat
    BY <1>1, <1>2, <1>4, CallFields
  <2> QED BY <1>4, <1>5, <2>1 DEF LivesPast
<1>8. CallsUnderWay' /\ ResultsRemembered'
  BY <1>3, <1>4, <1>5 DEF CallsUnderWay, ResultsRemembered
<1>9. EffectsAreOver'
  BY <1>1, <1>2, <1>3, <1>4, <1>5 DEF Inv, EffectsAreOver
<1>10. AnswersRemembered'
  <2>1. \A m \in Numbers : calls'[m].life # life'
    <3>1. \A m \in Numbers : calls'[m].life \in Nat
      BY <1>1, <1>2, <1>4, CallFields
    <3> QED BY <1>5, <3>1
  <2>2. \A m \in Numbers : calls'[m].pc = "answered" => calls'[m].result \in effects
    BY <1>2, <1>4, ResultIsCall
  <2> QED BY <1>3, <1>4, <1>5, <2>1, <2>2 DEF AnswersRemembered
<1>11. OneResultPerKey'
  BY <1>2, <1>4 DEF Inv, OneResultPerKey
<1>12. NoSilentRepetition'
  <2>1. \A m \in Numbers : calls'[m].life # life'
    <3>1. \A m \in Numbers : calls'[m].life \in Nat
      BY <1>1, <1>2, <1>4, CallFields
    <3> QED BY <1>5, <3>1
  <2> QED BY <1>1, <1>3, <2>1 DEF NoSilentRepetition
<1>13. AnswersAreAudited'
  <2> SUFFICES ASSUME NEW m \in Numbers, calls'[m].pc = "answered"
               PROVE  /\ calls'[m].result \in effects
                      /\ \/ calls'[m].result \in audited
                         \/ /\ calls'[m].result # m
                            /\ calls'[calls'[m].result].pc \in {"audit", "failed"}
    BY <1>3, <1>4 DEF AnswersAreAudited
  <2>1. calls[m].pc = "answered" /\ calls'[m].result = calls[m].result
    BY <1>2, <1>4
  <2>2. calls[m].result \in effects /\ calls[m].result \in Numbers
    BY <2>1, ResultIsCall
  <2>3. \/ calls[m].result \in audited
        \/ calls[m].result # m /\ calls[calls[m].result].pc \in {"audit", "failed"}
    BY <2>1 DEF Inv, AnswersAreAudited
  <2> QED BY <1>2, <1>4, <2>1, <2>2, <2>3
<1> QED BY <1>6, <1>7, <1>8, <1>9, <1>10, <1>11, <1>12, <1>13 DEF Inv

-----------------------------------------------------------------------------
(* The invariant.                                                          *)

LEMMA InitInv == Init => Inv
<1> SUFFICES ASSUME Init PROVE Inv
  OBVIOUS
<1>1. Numbers = {} /\ Len(calls) = 0 /\ effects = {}
  BY DEF Init, Numbers
<1>2. TypeOK
  BY <1>1, RuntimeAssumption DEF Init, TypeOK, NothingRemembered
<1> QED BY <1>1, <1>2 DEF Init, NothingRemembered, Inv, LivesPast, CallsUnderWay,
         ResultsRemembered, EffectsAreOver, AnswersRemembered, OneResultPerKey,
         NoSilentRepetition, AnswersAreAudited

LEMMA NextInv == Inv /\ [Next]_vars => Inv'
<1> SUFFICES ASSUME Inv, [Next]_vars PROVE Inv'
  OBVIOUS
<1>1. CASE \E s \in Subjects : \E t \in Tools : \E k \in Keys : Execute(s, t, k)
  BY <1>1, ExecuteHolds
<1>2. CASE \E n \in 1 .. Len(calls) : CallStep(n)
  <2> PICK n \in Numbers : CallStep(n)
    BY <1>2 DEF Numbers
  <2> QED BY RepeatHolds, StartHolds, SucceedHolds, FailHolds, AuditHolds, AuditFailsHolds
       DEF CallStep, LockStep
<1>3. CASE Restart
  BY <1>3, RestartHolds
<1>4. CASE UNCHANGED vars
  BY <1>4 DEF vars, Inv, TypeOK, LivesPast, CallsUnderWay, HoldsLock, ResultsRemembered,
     EffectsAreOver, AnswersRemembered, OneResultPerKey, NoSilentRepetition,
     AnswersAreAudited, Numbers
<1> QED BY <1>1, <1>2, <1>3, <1>4 DEF Next

LEMMA SpecInv == Spec => []Inv
BY InitInv, NextInv, PTL DEF Spec

-----------------------------------------------------------------------------
(* Results.                                                                *)

\* The calls, the lock and the results keep their types, and only a run whose
\* handler had its effect is in the audit trail (ToolRuntime.execute).
THEOREM TypeCorrect == Spec => []TypeOK
<1>1. Inv => TypeOK
  BY DEF Inv
<1> QED BY <1>1, SpecInv, PTL

\* However calls overlap, fail and are made again, and whichever tools they are
\* for: the answers given under one key in one life of the process are those of
\* one run (the lookup and the handler under _lock).
THEOREM OneResult == Spec => []OneResultPerKey
<1>1. Inv => OneResultPerKey
  BY DEF Inv
<1> QED BY <1>1, SpecInv, PTL

\* No handler has its effect a second time under a key in a life of the process
\* unless the caller of the first run saw it fail (_idempotency).
THEOREM EffectsAreNotRepeated == Spec => []NoSilentRepetition
<1>1. Inv => NoSilentRepetition
  BY DEF Inv
<1> QED BY <1>1, SpecInv, PTL

\* What a caller was given is audited, unless the run is another's whose audit
\* hook is at work or has failed (the hook after _lock is released).
THEOREM AnswersAudited == Spec => []AnswersAreAudited
<1>1. Inv => AnswersAreAudited
  BY DEF Inv
<1> QED BY <1>1, SpecInv, PTL
=============================================================================
