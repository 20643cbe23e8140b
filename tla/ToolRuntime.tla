----------------------------- MODULE ToolRuntime -----------------------------
(***************************************************************************)
(* ToolRuntime.execute (trust_infrastructure/tool_runtime.py): the one     *)
(* path from agents and models to the integration adapters.                *)
(*                                                                         *)
(* A call that passes the static checks waits for the lock, and under it   *)
(* gets the remembered result of its idempotency key, or runs the handler  *)
(* and remembers the result; the audit hook runs after the lock is         *)
(* released.  Calls are numbered in the order of their checks; the number  *)
(* also names the run of the handler and its result.  asyncio.Lock serves  *)
(* its waiters in turn: the head of the queue holds it.                    *)
(***************************************************************************)
EXTENDS Naturals, Sequences

CONSTANTS
  Subjects,   \* callers
  Models,     \* those whose caller_kind is "model"
  Tools,      \* registered tool versions
  Grants,     \* per subject: the tools its role, scopes and mandate permit
  Forbidden,  \* financial, legal and critical tools
  HumanOnly,  \* tools that require a separate human approval
  Keys,       \* idempotency keys
  MaxCalls,   \* bound: calls that pass the checks
  MaxLives    \* bound: runs of the process

ASSUME RuntimeAssumption ==
  /\ Models \subseteq Subjects
  /\ Grants \in [Subjects -> SUBSET Tools]
  /\ MaxCalls \in Nat
  /\ MaxLives \in Nat

VARIABLES
  calls,       \* the calls so far
  queue,       \* _lock: the numbers of the calls that hold it or wait for it
  remembered,  \* _idempotency: per key, the run whose result it holds, or 0
  effects,     \* history: the runs whose handler had its effect
  audited,     \* history: the runs the audit hook has recorded
  life         \* the number of the current run of the process

vars == <<calls, queue, remembered, effects, audited, life>>

PC == {"waiting", "running", "audit", "answered", "failed"}

\* result: the run whose result the caller was given, or 0.
Call ==
  [subject : Subjects, tool : Tools, key : Keys, life : Nat, pc : PC, result : Nat]

NothingRemembered == [k \in Keys |-> 0]

Init ==
  /\ calls = << >>
  /\ queue = << >>
  /\ remembered = NothingRemembered
  /\ effects = {}
  /\ audited = {}
  /\ life = 1

\* The checks before the lock; a call that fails one of them is no step.
Permitted(s, t) ==
  /\ t \in Grants[s]
  /\ s \in Models => t \notin Forbidden
  /\ t \notin HumanOnly

Execute(s, t, k) ==
  /\ Len(calls) < MaxCalls
  /\ Permitted(s, t)
  /\ calls' = Append(calls,
       [subject |-> s, tool |-> t, key |-> k, life |-> life, pc |-> "waiting", result |-> 0])
  /\ queue' = Append(queue, Len(calls) + 1)
  /\ UNCHANGED <<remembered, effects, audited, life>>

HoldsLock(n) == queue # << >> /\ Head(queue) = n

\* Bug: an exception leaves the lock taken.
ReleaseOnSuccess(pc) == queue' = IF pc = "failed" THEN queue ELSE Tail(queue)

\* The lock is released, whatever the call came to.
Release(pc) == queue' = Tail(queue)

Becomes(n, pc) == calls' = [calls EXCEPT ![n].pc = pc]

Answered(n, result) ==
  calls' = [calls EXCEPT ![n].pc = "answered", ![n].result = result]

\* The key has a result: it is returned, for whichever tool, version and
\* caller it was computed; the audit hook is not called.
Repeat(n) ==
  LET run == remembered[calls[n].key]
  IN /\ HoldsLock(n) /\ calls[n].pc = "waiting"
     /\ run # 0
     /\ Answered(n, run)
     /\ Release("answered")
     /\ UNCHANGED <<remembered, effects, audited, life>>

\* Bug: the key is looked up before the lock is taken.
MayStartUnlocked(n) == calls[n].pc = "waiting" /\ remembered[calls[n].key] = 0

\* The handler starts under the lock, for a key without a result.
MayStart(n) ==
  /\ HoldsLock(n)
  /\ calls[n].pc = "waiting"
  /\ remembered[calls[n].key] = 0

Start(n) ==
  /\ MayStart(n)
  /\ Becomes(n, "running")
  /\ UNCHANGED <<queue, remembered, effects, audited, life>>

\* Bug: the result of a tool that models may call is not remembered.
RememberCritical(n) ==
  remembered' = [remembered EXCEPT ![calls[n].key] =
    IF calls[n].tool \in Forbidden THEN n ELSE @]

Remember(n) == remembered' = [remembered EXCEPT ![calls[n].key] = n]

\* Bug: the hook is not waited for.
AfterSuccessUnaudited == "answered"

AfterSuccess == "audit"

\* The handler has returned in time what its output schema admits.
Succeed(n) ==
  /\ calls[n].pc = "running"
  /\ calls' = [calls EXCEPT ![n].pc = AfterSuccess, ![n].result = n]
  /\ Remember(n)
  /\ effects' = effects \cup {n}
  /\ Release(AfterSuccess)
  /\ UNCHANGED <<audited, life>>

\* Bug: the audit hook records every run as a success.
FailAudited(n) ==
  /\ calls[n].pc = "running"
  /\ Becomes(n, "failed")
  /\ audited' = audited \cup {n}
  /\ Release("failed")
  /\ UNCHANGED <<remembered, effects, life>>

\* The handler raises or times out, before or after it had its effect, or its
\* result is not what the output schema admits: nothing is remembered.
Fail(n) ==
  /\ calls[n].pc = "running"
  /\ Becomes(n, "failed")
  /\ \/ effects' = effects \cup {n}
     \/ UNCHANGED effects
  /\ Release("failed")
  /\ UNCHANGED <<remembered, audited, life>>

\* The audit hook has recorded the run, and the caller gets its result.
Audit(n) ==
  /\ calls[n].pc = "audit"
  /\ Becomes(n, "answered")
  /\ audited' = audited \cup {n}
  /\ UNCHANGED <<queue, remembered, effects, life>>

\* The hook raises: the caller gets the exception, the result stays.
AuditFails(n) ==
  /\ calls[n].pc = "audit"
  /\ calls' = [calls EXCEPT ![n].pc = "failed", ![n].result = 0]
  /\ UNCHANGED <<queue, remembered, effects, audited, life>>

LockStep(n) ==
  \/ Repeat(n)
  \/ Start(n)
  \/ Succeed(n)
  \/ Fail(n)

CallStep(n) == LockStep(n) \/ Audit(n) \/ AuditFails(n)

\* The process ends and starts again: calls, lock and results are gone.
Restart ==
  /\ life < MaxLives
  /\ life' = life + 1
  /\ calls' = [n \in 1 .. Len(calls) |->
       IF calls[n].pc \in {"answered", "failed"} THEN calls[n]
       ELSE [calls[n] EXCEPT !.pc = "failed", !.result = 0]]
  /\ queue' = << >>
  /\ remembered' = NothingRemembered
  /\ UNCHANGED <<effects, audited>>

Next ==
  \/ \E s \in Subjects : \E t \in Tools : \E k \in Keys : Execute(s, t, k)
  \/ \E n \in 1 .. Len(calls) : CallStep(n)
  \/ Restart

Spec == Init /\ [][Next]_vars

\* The event loop runs the calls; asyncio.timeout ends a handler that hangs.
\* Nothing ends an audit hook that does.
Fairness == \A n \in 1 .. MaxCalls : WF_vars(n \in 1 .. Len(calls) /\ LockStep(n))

FairSpec == Spec /\ Fairness

-----------------------------------------------------------------------------
TypeOK ==
  /\ calls \in Seq(Call)
  /\ Len(calls) <= MaxCalls
  /\ queue \in Seq(1 .. Len(calls))
  /\ remembered \in [Keys -> 0 .. Len(calls)]
  /\ effects \subseteq 1 .. Len(calls)
  /\ audited \subseteq effects
  /\ life \in Nat

Numbers == 1 .. Len(calls)

\* Whoever calls with a key while the process lives, for whatever tool, and
\* however the calls overlap, gets the result of one and the same run.
OneResultPerKey ==
  \A m, n \in Numbers :
    (/\ calls[m].pc = "answered" /\ calls[n].pc = "answered"
     /\ calls[m].key = calls[n].key /\ calls[m].life = calls[n].life)
    => calls[m].result = calls[n].result

\* An effect is repeated under its key only if the caller was told that the
\* call failed: for every key the runs of this life that had their effect and
\* did not fail are one, the run a retry gets the result of.
NoSilentRepetition ==
  \A n \in effects :
    (calls[n].life = life /\ calls[n].pc # "failed") => remembered[calls[n].key] = n

\* A result that was given to anybody is in the audit trail, except that the
\* hook may be at work on it yet, or have failed; then a retry and every other
\* call with the key get it all the same.
AnswersAreAudited ==
  \A n \in Numbers :
    LET run == calls[n].result
    IN calls[n].pc = "answered" =>
         /\ run \in effects
         /\ \/ run \in audited
            \/ run # n /\ calls[run].pc \in {"audit", "failed"}

\* A call that waits for the lock, which all tools share, gets through: with a
\* result or an error, or to its audit hook, and never behind another's hook.
CallsEnd ==
  \A n \in 1 .. MaxCalls :
    (n \in Numbers /\ calls[n].pc = "waiting")
      ~> (n \in Numbers /\ calls[n].pc \in {"audit", "answered", "failed"})
=============================================================================
