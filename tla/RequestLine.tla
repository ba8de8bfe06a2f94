----------------------------- MODULE RequestLine -----------------------------
(***************************************************************************)
(* What the driver promises the threads that make requests: they are       *)
(* served one at a time and in order, each returns once, after an answer   *)
(* or after it gave up, and one that shares its event with nobody never    *)
(* gives up.  The card goes on with a request given up while it is served; *)
(* its answer is for nobody.                                               *)
(***************************************************************************)
EXTENDS Sequences, SequencesExt

CONSTANTS Threads,
          Nobody     \* in the place of a request given up while served

VARIABLES phase,     \* of each thread's request: "none", "asked", "givenUp"
                     \* or "done"
          line,      \* the requests that wait, oldest first
          serving,   \* the set of the request that is served, if one is
          event      \* the event each thread waits for

vars == <<phase, line, serving, event>>

Init ==
  /\ phase = [t \in Threads |-> "none"]
  /\ line = <<>> /\ serving = {}
  /\ event \in [Threads -> Threads]

Ask(t) ==
  /\ phase[t] = "none"
  /\ phase' = [phase EXCEPT ![t] = "asked"]
  /\ line' = Append(line, t)
  /\ UNCHANGED <<serving, event>>

Serve ==
  /\ serving = {}
  /\ line # <<>>
  /\ serving' = {Head(line)}
  /\ line' = Tail(line)
  /\ UNCHANGED <<phase, event>>

Answer(t) ==
  /\ serving = {t}
  /\ phase[t] = "asked"
  /\ serving' = {}
  /\ phase' = [phase EXCEPT ![t] = "done"]
  /\ UNCHANGED <<line, event>>

AnswerNobody ==
  /\ serving = {Nobody}
  /\ serving' = {}
  /\ UNCHANGED <<phase, line, event>>

GiveUp(t) ==
  /\ phase[t] = "asked"
  /\ \E u \in Threads \ {t} : event[u] = event[t]
  /\ phase' = [phase EXCEPT ![t] = "givenUp"]
  /\ \/ serving = {t} /\ serving' = {Nobody} /\ UNCHANGED line
     \/ /\ \E i \in DOMAIN line : line[i] = t /\ line' = RemoveAt(line, i)
        /\ UNCHANGED serving
  /\ UNCHANGED event

Finish(t) ==
  /\ phase[t] = "givenUp"
  /\ phase' = [phase EXCEPT ![t] = "done"]
  /\ UNCHANGED <<line, serving, event>>

Return(t) ==
  /\ phase[t] = "done"
  /\ phase' = [phase EXCEPT ![t] = "none"]
  /\ UNCHANGED <<line, serving, event>>

Next ==
  \/ \E t \in Threads : Ask(t) \/ Answer(t) \/ GiveUp(t) \/ Finish(t)
                          \/ Return(t)
  \/ Serve \/ AnswerNobody

Spec == Init /\ [][Next]_vars
=============================================================================
