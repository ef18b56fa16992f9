----------------------------- MODULE SetupProofs -----------------------------
(***************************************************************************)
(* Proofs about Setup, for any number of runs at once, any number of       *)
(* executables and whatever is on the disk before.  The core is that no    *)
(* step of any run takes away what another one may have seen: an           *)
(* executable that works goes on working (Stays), because all that is ever *)
(* put in its place is a finished download.                                *)
(***************************************************************************)
EXTENDS Setup, TLAPS

Installing == {"downloading", "writing", "chmod", "replacing"}

\* The temporary file of a step is there while the step may be killed at it, and
\* is complete, and of the version the run wants, from chmod on.
TempAt(r, i) ==
  /\ step[r] = i /\ phase[r] \in {"chmod", "replacing"} => temp[r][i] = Wanted(r)
  /\ step[r] = i /\ phase[r] = "writing" => temp[r][i] = "incomplete"
  /\ temp[r][i] # "none" =>
       \/ verdict[r][i] = "error" /\ temp[r][i] = "incomplete"
       \/ /\ verdict[r][i] = "none" /\ step[r] = i
          /\ \/ phase[r] \in {"writing", "chmod", "replacing", "killed"}
             \/ phase[r] = "interrupted" /\ temp[r][i] = "incomplete"

TempInv == \A r \in Runs, i \in Indices : TempAt(r, i)

\* Which steps a run has taken.  One that was interrupted or killed, or that raised,
\* has no code.
PhaseAt(r) ==
  /\ phase[r] \in {"reporting", "done"} => \A i \in Steps : verdict[r][i] # "none"
  /\ phase[r] \notin {"reporting"} \union Ended =>
       \A i \in Steps : verdict[r][i] # "none" <=> i < step[r]
  /\ phase[r] \in {"resolving"} \union Installing => step[r] \in Indices
  /\ phase[r] \in {"updating", "packaging"} => step[r] = Last
  /\ code[r] # "none" => phase[r] = "done"

PhaseInv == \A r \in Runs : PhaseAt(r)

\* What was printed is true, and the report has missed only what has a cause.
Excused(r, i) ==
  \/ verdict[r][i] \in {"skipped", "error"}
  \/ i \in Indices /\ shadows[i] /\ verdict[r][i] = "installed"

TruthAt(r) ==
  /\ \A i \in Indices : verdict[r][i] = "ok" => Usable(i)
  /\ \A i \in Indices : verdict[r][i] = "installed" /\ ~shadows[i] => Usable(i)
  /\ verdict[r][Last] \in {"ok", "installed"} => library
  /\ \A i \in seen[r] : Available(i)
  /\ phase[r] = "reporting" => \A i \in Steps : i < step[r] => i \in seen[r] \/ Excused(r, i)
  /\ code[r] = "0" => seen[r] = Steps
  /\ code[r] = "1" => \E i \in Steps : Excused(r, i)

TruthInv == \A r \in Runs : TruthAt(r)

Inv == TypeOK /\ TempInv /\ PhaseInv /\ TruthInv
-----------------------------------------------------------------------------
(* Steps and what they have in common.                                     *)

\* A step of run r.
Acts(r) ==
  \/ LookTool(r) \/ LookLibrary(r) \/ Resolve(r) \/ Confirm(r) \/ Decline(r)
  \/ Download(r) \/ Write(r) \/ Chmod(r) \/ Replace(r) \/ StepFails(r)
  \/ Update(r) \/ Package(r) \/ Check(r) \/ Interrupted(r) \/ Raises(r) \/ Kill(r)

LEMMA LastTool == Last \in Nat /\ Indices = 1 .. (Last - 1) /\ Steps = 1 .. Last /\ Last >= 1
BY ToolsAssumption DEF Last, Indices, Steps

\* What a step changes outside of the run's own variables: one executable for a
\* finished download, or the library for the better.
LEMMA Improves ==
  ASSUME NEW r \in Runs, Acts(r), TempInv, TypeOK, PhaseInv
  PROVE  /\ UNCHANGED givenVars
         /\ target' \in [Indices -> Executables]
         /\ \A i \in Indices : target'[i] = target[i] \/ target'[i] \in {"pinned", "latest"}
         /\ library' \in BOOLEAN
         /\ library => library'
<1>1. CASE Replace(r)
  <2>1. step[r] \in Indices /\ temp[r][step[r]] \in {"pinned", "latest"}
    BY <1>1 DEF Replace, At, TempInv, TempAt, PhaseInv, PhaseAt, Installing, Wanted
  <2> QED
    BY <1>1, <2>1 DEF Replace, TypeOK, Executables, Versioned
<1>2. CASE Package(r)
  BY <1>2 DEF Package, TypeOK
<1>3. CASE ~Replace(r) /\ ~Package(r)
  BY <1>3 DEF Acts, LookTool, LookLibrary, Resolve, Confirm, Decline, Download, Write, Chmod,
              StepFails, Update, Check, Interrupted, Raises, Kill, TypeOK
<1> QED
  BY <1>1, <1>2, <1>3

\* What works goes on working.
LEMMA Stays ==
  ASSUME NEW r \in Runs, Acts(r), TempInv, TypeOK, PhaseInv
  PROVE  /\ \A i \in Indices : Usable(i) => Usable(i)'
         /\ \A i \in Steps : Available(i) => Available(i)'
<1>1. \A i \in Indices : Found(i)' = Found(i) \/ Found(i)' \in {"pinned", "latest"}
  BY Improves DEF Found, givenVars
<1>2. \A i \in Steps : i # Last => i \in Indices
  BY LastTool
<1> QED
  BY <1>1, <1>2, Improves DEF Usable, Available, Versioned

-----------------------------------------------------------------------------
(* The three shapes of a step: the run goes on within its step, the step   *)
(* ends, or the report checks one dependency.                              *)

Between == {"reporting"} \union Ended

GoesOn(r, p) ==
  /\ Turns(r, p)
  /\ p \in {"resolving", "asking", "updating", "packaging", "interrupted", "raised", "killed"}
            \union Installing
  /\ phase[r] \notin Ended
  /\ phase[r] = "reporting" => p \in Ended
  /\ p \in {"resolving"} \union Installing => step[r] \in Indices
  /\ p \in {"updating", "packaging"} => step[r] = Last

EndsWith(r, v) ==
  /\ StepEnds(r, v)
  /\ v \in {"ok", "skipped", "error", "installed"}
  /\ phase[r] \notin Between
  /\ step[r] = Last /\ v \in {"ok", "installed"} => library'
  /\ step[r] # Last /\ v = "ok" => Usable(step[r])
  /\ step[r] # Last /\ v = "installed" => target'[step[r]] \in {"pinned", "latest"}

LEMMA Shapes ==
  ASSUME NEW r \in Runs, Acts(r), TypeOK, TempInv, PhaseInv
  PROVE  \/ \E p : GoesOn(r, p)
         \/ \E v : EndsWith(r, v)
         \/ Check(r)
<1> USE LastTool DEF TypeOK, PhaseInv, PhaseAt, Installing, Ended, Between, At, AtTool, AtLibrary
<1>0. step[r] \in Steps /\ (step[r] # Last <=> step[r] \in Indices)
  OBVIOUS
<1>1. CASE LookTool(r)
  <2>1. CASE Settled(r)
    <3>1. EndsWith(r, "ok")
      BY <1>0, <1>1, <2>1 DEF LookTool, EndsWith, Settled
    <3> QED
      BY <3>1
  <2>2. CASE ~Settled(r)
    <3>1. GoesOn(r, "resolving")
      BY <1>0, <1>1, <2>2 DEF LookTool, GoesOn
    <3> QED
      BY <3>1
  <2> QED
    BY <2>1, <2>2
<1>2. CASE LookLibrary(r)
  <2>1. CASE library
    <3>1. EndsWith(r, "ok")
      BY <1>0, <1>2, <2>1 DEF LookLibrary, EndsWith
    <3> QED
      BY <3>1
  <2>2. CASE ~library /\ ~root
    <3>1. EndsWith(r, "skipped")
      BY <1>0, <1>2, <2>2 DEF LookLibrary, EndsWith
    <3> QED
      BY <3>1
  <2>3. CASE ~library /\ root
    <3>1. GoesOn(r, "asking")
      BY <1>0, <1>2, <2>3 DEF LookLibrary, GoesOn
    <3> QED
      BY <3>1
  <2> QED
    BY <2>1, <2>2, <2>3
<1>3. CASE Resolve(r)
  <2>1. GoesOn(r, "asking")
    BY <1>0, <1>3 DEF Resolve, GoesOn
  <2> QED
    BY <2>1
<1>4. CASE Confirm(r)
  <2>1. GoesOn(r, IF step[r] = Last THEN "updating" ELSE "downloading")
    BY <1>0, <1>4 DEF Confirm, GoesOn
  <2> QED
    BY <2>1
<1>5. CASE Decline(r)
  <2>1. EndsWith(r, "skipped")
    BY <1>0, <1>5 DEF Decline, EndsWith
  <2> QED
    BY <2>1
<1>6. CASE Download(r)
  <2>1. GoesOn(r, "writing")
    BY <1>0, <1>6 DEF Download, GoesOn
  <2> QED
    BY <2>1
<1>7. CASE Write(r)
  <2>1. GoesOn(r, "chmod")
    BY <1>0, <1>7 DEF Write, GoesOn
  <2> QED
    BY <2>1
<1>8. CASE Chmod(r)
  <2>1. GoesOn(r, "replacing")
    BY <1>0, <1>8 DEF Chmod, GoesOn
  <2> QED
    BY <2>1
<1>9. CASE Replace(r)
  <2>1. EndsWith(r, "installed")
    BY <1>0, <1>9 DEF Replace, EndsWith, TempInv, TempAt, Wanted
  <2> QED
    BY <2>1
<1>10. CASE StepFails(r)
  <2>1. EndsWith(r, "error")
    BY <1>0, <1>10 DEF StepFails, EndsWith
  <2> QED
    BY <2>1
<1>11. CASE Update(r)
  <2>1. GoesOn(r, "packaging")
    BY <1>0, <1>11 DEF Update, GoesOn
  <2> QED
    BY <2>1
<1>12. CASE Package(r)
  <2>1. EndsWith(r, "installed")
    BY <1>0, <1>12 DEF Package, EndsWith
  <2> QED
    BY <2>1
<1>13. CASE Interrupted(r)
  <2>1. GoesOn(r, "interrupted")
    BY <1>0, <1>13 DEF Interrupted, GoesOn
  <2> QED
    BY <2>1
<1>14. CASE Kill(r)
  <2>1. GoesOn(r, "killed")
    BY <1>0, <1>14 DEF Kill, GoesOn
  <2> QED
    BY <2>1
<1>15. CASE Raises(r)
  <2>1. GoesOn(r, "raised")
    BY <1>0, <1>15 DEF Raises, GoesOn
  <2> QED
    BY <2>1
<1> QED
  BY <1>1, <1>2, <1>3, <1>4, <1>5, <1>6, <1>7, <1>8, <1>9, <1>10, <1>11, <1>12, <1>13, <1>14, <1>15
     DEF Acts

-----------------------------------------------------------------------------
(* Each part of the invariant is kept.                                     *)

Phases ==
  {"looking", "resolving", "asking", "downloading", "writing", "chmod", "replacing",
   "updating", "packaging", "reporting"} \union Ended
Verdicts == {"none", "ok", "skipped", "error", "installed"}

RunTypes ==
  /\ phase \in [Runs -> Phases]
  /\ step \in [Runs -> Steps]
  /\ verdict \in [Runs -> [Steps -> Verdicts]]
  /\ seen \in [Runs -> SUBSET Steps]
  /\ code \in [Runs -> {"none", "0", "1"}]

LEMMA RunTypesStep ==
  ASSUME NEW r \in Runs, Acts(r), TypeOK, TempInv, PhaseInv
  PROVE  RunTypes'
<1>0. RunTypes
  BY DEF TypeOK, RunTypes, Phases, Verdicts
<1>1. ASSUME NEW p, GoesOn(r, p) PROVE RunTypes'
  <2>1. p \in Phases
    BY <1>1 DEF GoesOn, Phases, Installing, Ended
  <2> QED
    BY <1>0, <1>1, <2>1 DEF GoesOn, Turns, RunTypes
<1>2. ASSUME NEW v, EndsWith(r, v) PROVE RunTypes'
  <2>1. v \in Verdicts /\ step[r] \in Steps
    BY <1>0, <1>2 DEF EndsWith, Verdicts, RunTypes
  <2>2. verdict' \in [Runs -> [Steps -> Verdicts]]
    BY <1>0, <1>2, <2>1 DEF EndsWith, StepEnds, RunTypes
  <2>3. step[r] # Last => step[r] + 1 \in Steps
    BY <2>1, LastTool
  <2>4. CASE step[r] = Last
    <3>1. phase' = [phase EXCEPT ![r] = "reporting"] /\ step' = [step EXCEPT ![r] = 1]
      BY <1>2, <2>4 DEF EndsWith, StepEnds
    <3>2. step' \in [Runs -> Steps] /\ phase' \in [Runs -> Phases]
      BY <1>0, <3>1, LastTool DEF RunTypes, Phases
    <3> QED
      BY <1>0, <1>2, <2>2, <3>2 DEF EndsWith, StepEnds, RunTypes
  <2>5. CASE step[r] # Last
    <3>1. phase' = [phase EXCEPT ![r] = "looking"] /\ step' = [step EXCEPT ![r] = @ + 1]
      BY <1>2, <2>5 DEF EndsWith, StepEnds
    <3>2. step' \in [Runs -> Steps] /\ phase' \in [Runs -> Phases]
      BY <1>0, <2>3, <2>5, <3>1 DEF RunTypes, Phases
    <3> QED
      BY <1>0, <1>2, <2>2, <3>2 DEF EndsWith, StepEnds, RunTypes
  <2> QED
    BY <2>4, <2>5
<1>3. CASE Check(r)
  <2>1. step[r] \in Steps
    BY <1>0 DEF RunTypes
  <2>2. step[r] # Last => step[r] + 1 \in Steps
    BY <2>1, LastTool
  <2>3. seen' \in [Runs -> SUBSET Steps]
    BY <1>0, <1>3, <2>1 DEF Check, RunTypes
  <2>4. step' \in [Runs -> Steps] /\ verdict' = verdict
    BY <1>0, <1>3, <2>1, <2>2 DEF Check, RunTypes
  <2>5. phase' \in [Runs -> Phases] /\ code' \in [Runs -> {"none", "0", "1"}]
    BY <1>0, <1>3 DEF Check, RunTypes, Phases, Ended
  <2> QED
    BY <1>0, <2>3, <2>4, <2>5 DEF RunTypes
<1> QED
  BY <1>1, <1>2, <1>3, Shapes

\* The temporary files: a step leaves them alone, or changes its own.
LEMMA TempShape ==
  ASSUME NEW r \in Runs, Acts(r), TypeOK, TempInv, PhaseInv
  PROVE  \/ temp' = temp
         \/ /\ phase[r] \in Installing /\ step[r] \in Indices
            /\ \E x \in {"none", "incomplete", "pinned", "latest"} :
                 temp' = [temp EXCEPT ![r][step[r]] = x]
<1> USE DEF PhaseInv, PhaseAt, Installing, At
<1>1. CASE Download(r)
  BY <1>1 DEF Download
<1>2. CASE Write(r)
  BY <1>2 DEF Write, Wanted
<1>3. CASE Replace(r)
  BY <1>3 DEF Replace
<1>4. CASE StepFails(r) \/ Interrupted(r)
  BY <1>4 DEF StepFails, Interrupted, Discarded
<1>5. CASE ~Download(r) /\ ~Write(r) /\ ~Replace(r) /\ ~StepFails(r) /\ ~Interrupted(r)
  BY <1>5 DEF Acts, LookTool, LookLibrary, Resolve, Confirm, Decline, Chmod, Update, Package,
              Check, Raises, Kill
<1> QED
  BY <1>1, <1>2, <1>3, <1>4, <1>5

LEMMA TypeStep ==
  ASSUME NEW r \in Runs, Acts(r), TypeOK, TempInv, PhaseInv
  PROVE  TypeOK'
<1>1. temp' \in [Runs -> [Indices -> {"none", "incomplete", "pinned", "latest"}]]
  <2> DEFINE Files == {"none", "incomplete", "pinned", "latest"}
  <2>0. temp \in [Runs -> [Indices -> Files]]
    BY DEF TypeOK
  <2>1. ASSUME NEW x \in Files, step[r] \in Indices, temp' = [temp EXCEPT ![r][step[r]] = x]
        PROVE  temp' \in [Runs -> [Indices -> Files]]
    <3> HIDE DEF Files
    <3>1. [temp[r] EXCEPT ![step[r]] = x] \in [Indices -> Files]
      BY <2>0, <2>1
    <3> QED
      BY <2>0, <2>1, <3>1
  <2> QED
    BY <2>0, <2>1, TempShape
<1> QED
  BY <1>1, RunTypesStep, Improves DEF TypeOK, RunTypes, Phases, Verdicts, givenVars

-----------------------------------------------------------------------------
(* The three shapes, variable by variable.                                 *)

Others(r) ==
  \A q \in Runs \ {r} :
    UNCHANGED <<phase[q], step[q], verdict[q], seen[q], code[q]>>

LEMMA GoesOnAt ==
  ASSUME NEW r \in Runs, NEW p, GoesOn(r, p), TypeOK
  PROVE  /\ Others(r)
         /\ phase'[r] = p
         /\ UNCHANGED <<step, verdict, seen, code>>
BY DEF GoesOn, Turns, TypeOK, Others

LEMMA EndsAt ==
  ASSUME NEW r \in Runs, NEW v, EndsWith(r, v), TypeOK
  PROVE  /\ Others(r)
         /\ UNCHANGED <<seen, code>>
         /\ verdict'[r][step[r]] = v
         /\ \A i \in Steps \ {step[r]} : verdict'[r][i] = verdict[r][i]
         /\ step[r] = Last => phase'[r] = "reporting" /\ step'[r] = 1
         /\ step[r] # Last => phase'[r] = "looking" /\ step'[r] = step[r] + 1
<1>0. step[r] \in Steps /\ UNCHANGED <<seen, code>>
  BY DEF EndsWith, StepEnds, TypeOK
<1>1. verdict' = [verdict EXCEPT ![r][step[r]] = v]
  BY DEF EndsWith, StepEnds
<1>2. /\ verdict'[r][step[r]] = v
      /\ \A i \in Steps \ {step[r]} : verdict'[r][i] = verdict[r][i]
      /\ \A q \in Runs \ {r} : verdict'[q] = verdict[q]
  BY <1>0, <1>1 DEF TypeOK
<1>3. /\ step[r] = Last => phase'[r] = "reporting" /\ step'[r] = 1
      /\ step[r] # Last => phase'[r] = "looking" /\ step'[r] = step[r] + 1
      /\ \A q \in Runs \ {r} : phase'[q] = phase[q] /\ step'[q] = step[q]
  <2>1. CASE step[r] = Last
    BY <2>1 DEF EndsWith, StepEnds, TypeOK
  <2>2. CASE step[r] # Last
    BY <2>2 DEF EndsWith, StepEnds, TypeOK
  <2> QED
    BY <2>1, <2>2
<1> QED
  BY <1>0, <1>2, <1>3 DEF Others

LEMMA CheckAt ==
  ASSUME NEW r \in Runs, Check(r), TypeOK
  PROVE  /\ Others(r)
         /\ phase[r] = "reporting"
         /\ verdict' = verdict
         /\ seen'[r] = IF Available(step[r]) THEN seen[r] \union {step[r]} ELSE seen[r]
         /\ step[r] = Last =>
              /\ phase'[r] = "done" /\ step'[r] = step[r]
              /\ code'[r] = IF seen'[r] = Steps THEN "0" ELSE "1"
         /\ step[r] # Last =>
              phase'[r] = phase[r] /\ code'[r] = code[r] /\ step'[r] = step[r] + 1
<1> DEFINE now == IF Available(step[r]) THEN seen[r] \union {step[r]} ELSE seen[r]
<1>1. seen' = [seen EXCEPT ![r] = now] /\ phase[r] = "reporting" /\ verdict' = verdict
  BY DEF Check, At
<1>2. seen'[r] = now /\ \A q \in Runs \ {r} : seen'[q] = seen[q]
  <2> HIDE DEF now
  <2> QED
    BY <1>1 DEF TypeOK
<1>3. CASE step[r] = Last
  <2>1. /\ phase' = [phase EXCEPT ![r] = "done"]
        /\ code' = [code EXCEPT ![r] = IF now = Steps THEN "0" ELSE "1"]
        /\ step' = step
    BY <1>3 DEF Check
  <2> HIDE DEF now
  <2>2. /\ phase'[r] = "done"
        /\ code'[r] = IF now = Steps THEN "0" ELSE "1"
        /\ \A q \in Runs \ {r} : phase'[q] = phase[q] /\ code'[q] = code[q]
    BY <2>1 DEF TypeOK
  <2> QED
    BY <1>1, <1>2, <1>3, <2>1, <2>2 DEF Others, now
<1>4. CASE step[r] # Last
  <2>1. step' = [step EXCEPT ![r] = @ + 1] /\ phase' = phase /\ code' = code
    BY <1>4 DEF Check
  <2>2. step'[r] = step[r] + 1 /\ \A q \in Runs \ {r} : step'[q] = step[q]
    BY <2>1 DEF TypeOK
  <2> QED
    BY <1>1, <1>2, <1>4, <2>1, <2>2 DEF Others
<1> QED
  BY <1>3, <1>4

-----------------------------------------------------------------------------
(* The other parts of the invariant.                                       *)

\* Whatever run r does, temporary files of others and of other steps stay.
LEMMA TempElse ==
  ASSUME NEW r \in Runs, Acts(r), TypeOK, TempInv, PhaseInv, NEW q \in Runs, NEW i \in Indices,
         q # r \/ step[r] # i
  PROVE  temp'[q][i] = temp[q][i]
<1>1. ASSUME NEW x, temp' = [temp EXCEPT ![r][step[r]] = x] PROVE temp'[q][i] = temp[q][i]
  BY <1>1 DEF TypeOK
<1> QED
  BY <1>1, TempShape

\* The file of the step itself.
LEMMA TempOwn ==
  ASSUME NEW r \in Runs, Acts(r), TypeOK, TempInv, PhaseInv, NEW i \in Indices, step[r] = i
  PROVE  TempAt(r, i)'
<1> DEFINE Files == {"none", "incomplete", "pinned", "latest"}
<1>0. TempAt(r, i) /\ step[r] # Last /\ i \in Steps
  BY LastTool DEF TempInv
<1>1. phase[r] \notin Between => verdict[r][i] = "none"
  BY <1>0, LastTool DEF PhaseInv, PhaseAt, Between
<1>2. ASSUME NEW x \in Files, temp' = [temp EXCEPT ![r][step[r]] = x] PROVE temp'[r][i] = x
  BY <1>2 DEF TypeOK
<1>3. CASE Download(r)
  <2>1. GoesOn(r, "writing") /\ phase[r] = "downloading"
    BY <1>0, <1>3, LastTool DEF Download, GoesOn, At, Installing, Ended
  <2>2. temp'[r][i] = "incomplete"
    BY <1>2, <1>3 DEF Download
  <2> QED
    BY <1>0, <1>1, <2>1, <2>2, GoesOnAt DEF TempAt, Between, Ended
<1>4. CASE Write(r)
  <2>1. GoesOn(r, "chmod") /\ phase[r] = "writing"
    BY <1>0, <1>4, LastTool DEF Write, GoesOn, At, Installing, Ended
  <2>2. temp'[r][i] = Wanted(r) /\ Wanted(r) # "none"
    BY <1>2, <1>4 DEF Write, Wanted
  <2>3. Wanted(r)' = Wanted(r)
    BY Improves DEF Wanted, givenVars
  <2> QED
    BY <1>0, <1>1, <2>1, <2>2, <2>3, GoesOnAt DEF TempAt, Between, Ended
<1>5. CASE Chmod(r)
  <2>1. GoesOn(r, "replacing") /\ phase[r] = "chmod" /\ temp' = temp
    BY <1>0, <1>5, LastTool DEF Chmod, GoesOn, At, Installing, Ended
  <2>2. Wanted(r)' = Wanted(r)
    BY Improves DEF Wanted, givenVars
  <2> QED
    BY <1>0, <1>1, <2>1, <2>2, GoesOnAt DEF TempAt, Between, Ended
<1>6. CASE Replace(r)
  <2>1. phase'[r] = "looking"
    BY <1>0, <1>6 DEF Replace, StepEnds, TypeOK
  <2>2. temp'[r][i] = "none"
    BY <1>2, <1>6 DEF Replace
  <2> QED
    BY <2>1, <2>2 DEF TempAt
<1>7. CASE StepFails(r)
  <2>1. EndsWith(r, "error")
    BY <1>0, <1>7 DEF StepFails, EndsWith, Between, Ended
  <2>2. phase'[r] = "looking" /\ verdict'[r][i] = "error" /\ phase[r] \notin Between
    BY <1>0, <2>1, EndsAt DEF EndsWith
  <2>3. temp'[r][i] \in {"none", "incomplete"}
    <3>1. CASE phase[r] \in {"chmod", "replacing"}
      BY <1>2, <1>7, <3>1 DEF StepFails, Discarded
    <3>2. CASE phase[r] \notin {"chmod", "replacing"}
      <4>1. temp' = temp
        BY <1>7, <3>2 DEF StepFails, Discarded
      <4>2. temp[r][i] \in Files
        BY DEF TypeOK
      <4> QED
        BY <1>0, <1>1, <2>2, <3>2, <4>1, <4>2 DEF TempAt, Between, Ended
    <3> QED
      BY <3>1, <3>2
  <2> QED
    BY <2>2, <2>3 DEF TempAt
<1>8. CASE Interrupted(r)
  <2>1. phase'[r] = "interrupted" /\ phase[r] \notin Ended /\ UNCHANGED <<step, verdict>>
    BY <1>8 DEF Interrupted, Turns, TypeOK
  <2>2. CASE phase[r] \in {"chmod", "replacing"}
    <3>1. temp'[r][i] = "none"
      BY <1>2, <1>8, <2>2 DEF Interrupted, Discarded
    <3> QED
      BY <2>1, <3>1 DEF TempAt
  <2>3. CASE phase[r] \notin {"chmod", "replacing"}
    <3>1. temp' = temp
      BY <1>8, <2>3 DEF Interrupted, Discarded
    <3> QED
      BY <1>0, <2>1, <2>3, <3>1 DEF TempAt, Ended
  <2> QED
    BY <2>2, <2>3
<1>9. CASE Kill(r)
  <2>1. phase'[r] = "killed" /\ phase[r] \notin Ended /\ UNCHANGED <<step, verdict, temp>>
    BY <1>9 DEF Kill, Turns, TypeOK
  <2> QED
    BY <1>0, <2>1 DEF TempAt, Ended
<1>10. CASE Check(r)
  <2>1. phase[r] = "reporting" /\ phase'[r] \in {"reporting", "done"} /\ UNCHANGED <<verdict, temp>>
    BY <1>0, <1>10, CheckAt DEF Check
  <2> QED
    BY <1>0, <2>1 DEF TempAt
<1>11. CASE \/ LookTool(r) \/ LookLibrary(r) \/ Resolve(r) \/ Confirm(r) \/ Decline(r)
            \/ Update(r) \/ Package(r)
  <2>1. /\ temp' = temp
        /\ phase[r] \in {"looking", "resolving", "asking", "updating", "packaging"}
    BY <1>11 DEF LookTool, LookLibrary, Resolve, Confirm, Decline, Update, Package,
                At, AtTool, AtLibrary
  <2>2. temp[r][i] = "none"
    BY <1>0, <1>1, <2>1 DEF TempAt, Between, Ended
  <2>3. phase'[r] \notin {"writing", "chmod", "replacing"}
    BY <1>11 DEF LookTool, LookLibrary, Resolve, Confirm, Decline, Update, Package,
                StepEnds, Turns, TypeOK
  <2> QED
    BY <2>1, <2>2, <2>3 DEF TempAt
<1>12. CASE Raises(r)
  <2>1. /\ phase[r] \in {"looking", "resolving", "asking", "downloading", "reporting"}
        /\ phase'[r] = "raised" /\ UNCHANGED <<step, verdict, temp>>
    BY <1>12 DEF Raises, Turns, At, AtTool, TypeOK
  <2> QED
    BY <1>0, <2>1 DEF TempAt
<1> QED
  BY <1>3, <1>4, <1>5, <1>6, <1>7, <1>8, <1>9, <1>10, <1>11, <1>12 DEF Acts

LEMMA TempStep ==
  ASSUME NEW r \in Runs, Acts(r), TypeOK, TempInv, PhaseInv
  PROVE  TempInv'
<1> SUFFICES ASSUME NEW q \in Runs, NEW i \in Indices PROVE TempAt(q, i)'
  BY LastTool DEF TempInv, Indices
<1>0. TempAt(q, i) /\ i \in Steps
  BY LastTool DEF TempInv
<1>1. CASE q # r
  <2>1. Others(r)
    BY Shapes, GoesOnAt, EndsAt, CheckAt
  <2>2. Wanted(q)' = Wanted(q)
    BY Improves DEF Wanted, givenVars
  <2> QED
    BY <1>0, <1>1, <2>1, <2>2, TempElse DEF TempAt, Others
<1>2. CASE q = r /\ step[r] # i
  <2>1. verdict'[r][i] = verdict[r][i]
    BY <1>0, <1>2, Shapes, GoesOnAt, EndsAt, CheckAt
  <2>2. step'[r] = i => phase'[r] \in {"looking", "reporting", "done"}
    BY <1>2, Shapes, GoesOnAt, EndsAt, CheckAt
  <2> QED
    BY <1>0, <1>2, <2>1, <2>2, TempElse DEF TempAt
<1> QED
  BY <1>1, <1>2, TempOwn

LEMMA PhaseStep ==
  ASSUME NEW r \in Runs, Acts(r), TypeOK, TempInv, PhaseInv
  PROVE  PhaseInv'
<1> SUFFICES ASSUME NEW q \in Runs PROVE PhaseAt(q)'
  BY DEF PhaseInv
<1>0. PhaseAt(q) /\ step[q] \in Steps
  BY DEF PhaseInv, TypeOK
<1>1. CASE q # r
  <2>1. Others(r)
    BY Shapes, GoesOnAt, EndsAt, CheckAt
  <2> QED
    BY <1>0, <1>1, <2>1, LastTool DEF PhaseAt, Others, Steps, Indices
<1>2. CASE q = r
  <2>1. ASSUME NEW p, GoesOn(r, p) PROVE PhaseAt(r)'
    <3>1. phase'[r] = p /\ UNCHANGED <<step, verdict, seen, code>>
      BY <2>1, GoesOnAt
    <3> QED
      BY <1>0, <1>2, <2>1, <3>1 DEF GoesOn, PhaseAt, Installing, Ended
  <2>2. ASSUME NEW v, EndsWith(r, v) PROVE PhaseAt(r)'
    <3>1. v # "none" /\ phase[r] \notin Between
      BY <2>2 DEF EndsWith
    <3>2. \A i \in Steps : verdict[r][i] # "none" <=> i < step[r]
      BY <1>0, <1>2, <3>1 DEF PhaseAt, Between
    <3>3. code'[r] = "none"
      BY <1>0, <1>2, <2>2, <3>1, EndsAt DEF PhaseAt, Between, Ended
    <3>4. CASE step[r] = Last
      BY <1>0, <1>2, <2>2, <3>1, <3>2, <3>3, <3>4, EndsAt, LastTool DEF PhaseAt, Installing, Ended
    <3>5. CASE step[r] # Last
      BY <1>0, <1>2, <2>2, <3>1, <3>2, <3>3, <3>5, EndsAt, LastTool DEF PhaseAt, Installing, Ended
    <3> QED
      BY <3>4, <3>5
  <2>3. CASE Check(r)
    <3>1. CASE step[r] = Last
      BY <1>0, <1>2, <2>3, <3>1, CheckAt DEF PhaseAt, Installing, Ended
    <3>2. CASE step[r] # Last
      BY <1>0, <1>2, <2>3, <3>2, CheckAt DEF PhaseAt, Installing, Ended
    <3> QED
      BY <3>1, <3>2
  <2> QED
    BY <1>2, <2>1, <2>2, <2>3, Shapes
<1> QED
  BY <1>1, <1>2

\* In the report, what is not available has its excuse.
LEMMA Excuse ==
  ASSUME NEW r \in Runs, TypeOK, PhaseAt(r), TruthAt(r), phase[r] = "reporting",
         NEW i \in Steps, ~Available(i)
  PROVE  Excused(r, i)
<1>1. verdict[r][i] \in {"ok", "skipped", "error", "installed"}
  BY DEF PhaseAt, TypeOK
<1>2. CASE i = Last
  BY <1>1, <1>2 DEF TruthAt, Excused, Available
<1>3. CASE i # Last
  BY <1>1, <1>3, LastTool DEF TruthAt, Excused, Available, Usable
<1> QED
  BY <1>2, <1>3

LEMMA TruthStep ==
  ASSUME NEW r \in Runs, Acts(r), TypeOK, TempInv, PhaseInv, TruthInv
  PROVE  TruthInv'
<1> SUFFICES ASSUME NEW q \in Runs PROVE TruthAt(q)'
  BY DEF TruthInv
<1>0. PhaseAt(q) /\ TruthAt(q) /\ step[q] \in Steps /\ seen[q] \subseteq Steps
  BY DEF PhaseInv, TruthInv, TypeOK
<1>1. shadows' = shadows /\ (library => library')
  BY Improves DEF givenVars
<1>2. \A i \in Indices : i \in Steps /\ i # Last
  BY LastTool
<1>3. CASE q # r
  <2>1. UNCHANGED <<phase[q], step[q], verdict[q], seen[q], code[q]>>
    <3>1. Others(r)
      BY Shapes, GoesOnAt, EndsAt, CheckAt
    <3> QED
      BY <1>3, <3>1 DEF Others
  <2>2. \A i \in Steps : Excused(q, i)' <=> Excused(q, i)
    BY <1>1, <2>1 DEF Excused
  <2> QED
    BY <1>0, <1>1, <2>1, <2>2, Stays DEF TruthAt
<1>4. CASE q = r
  <2>1. ASSUME NEW p, GoesOn(r, p) PROVE TruthAt(r)'
    <3>1. UNCHANGED <<step, verdict, seen, code>> /\ phase'[r] # "reporting"
      BY <2>1, GoesOnAt DEF GoesOn, Installing
    <3>2. \A i \in Steps : Excused(r, i)' <=> Excused(r, i)
      BY <1>1, <3>1 DEF Excused
    <3> QED
      BY <1>0, <1>1, <1>4, <3>1, <3>2, Stays DEF TruthAt
  <2>2. ASSUME NEW v, EndsWith(r, v) PROVE TruthAt(r)'
    <3>1. /\ seen' = seen
          /\ code'[r] = "none"
          /\ phase'[r] = "reporting" => step'[r] = 1
      BY <1>0, <1>4, <2>2, EndsAt DEF PhaseAt, EndsWith, Between, Ended
    <3>2. ASSUME NEW i \in Indices, verdict'[r][i] = "ok" PROVE Usable(i)'
      <4>1. Usable(i)
        BY <1>0, <1>2, <1>4, <2>2, <3>2, EndsAt DEF TruthAt, EndsWith
      <4> QED
        BY <4>1, Stays
    <3>3. ASSUME NEW i \in Indices, verdict'[r][i] = "installed", ~shadows'[i] PROVE Usable(i)'
      <4>1. CASE i = step[r]
        <5>1. target'[i] \in {"pinned", "latest"}
          BY <1>2, <2>2, <3>3, <4>1, EndsAt DEF EndsWith
        <5> QED
          BY <3>3, <5>1 DEF Usable, Found, Versioned
      <4>2. CASE i # step[r]
        <5>1. Usable(i)
          BY <1>0, <1>1, <1>2, <1>4, <2>2, <3>3, <4>2, EndsAt DEF TruthAt
        <5> QED
          BY <5>1, Stays
      <4> QED
        BY <4>1, <4>2
    <3>4. verdict'[r][Last] \in {"ok", "installed"} => library'
      BY <1>0, <1>1, <1>4, <2>2, EndsAt, LastTool DEF TruthAt, EndsWith
    <3>5. \A i \in seen'[r] : Available(i)'
      BY <1>0, <1>4, <3>1, Stays DEF TruthAt
    <3>6. phase'[r] = "reporting" => \A i \in Steps : ~(i < step'[r])
      BY <3>1, LastTool
    <3> QED
      BY <3>1, <3>2, <3>3, <3>4, <3>5, <3>6 DEF TruthAt
  <2>3. CASE Check(r)
    <3>1. phase[r] = "reporting" /\ verdict' = verdict
      BY <2>3, CheckAt
    <3>2. \A i \in Steps : Excused(r, i)' <=> Excused(r, i)
      BY <1>1, <3>1 DEF Excused
    <3>3. /\ seen[r] \subseteq seen'[r] /\ seen'[r] \subseteq Steps
          /\ Available(step[r]) => step[r] \in seen'[r]
          /\ \A i \in seen'[r] : Available(i)'
      BY <1>0, <1>4, <2>3, CheckAt, Stays DEF TruthAt
    <3>4. \A i \in Steps : i <= step[r] => i \in seen'[r] \/ Excused(r, i)
      BY <1>0, <1>4, <3>1, <3>3, Excuse, LastTool DEF TruthAt
    <3>5. code[r] = "none"
      BY <1>0, <1>4, <3>1 DEF PhaseAt, TypeOK
    <3>6. /\ (\A i \in Indices : verdict[r][i] = "ok" => Usable(i))'
          /\ (\A i \in Indices : verdict[r][i] = "installed" /\ ~shadows[i] => Usable(i))'
          /\ (verdict[r][Last] \in {"ok", "installed"} => library)'
      <4>1. /\ \A i \in Indices : verdict[r][i] = "ok" => Usable(i)'
            /\ \A i \in Indices : verdict[r][i] = "installed" /\ ~shadows[i] => Usable(i)'
            /\ verdict[r][Last] \in {"ok", "installed"} => library'
        BY <1>0, <1>1, <1>4, Stays DEF TruthAt
      <4> QED
        BY <1>1, <3>1, <4>1 DEF Indices, Last
    <3>7. CASE step[r] = Last
      <4>1. phase'[r] = "done" /\ code'[r] = IF seen'[r] = Steps THEN "0" ELSE "1"
        BY <2>3, <3>7, CheckAt
      <4>2. \A i \in Steps : i \in seen'[r] \/ Excused(r, i)
        BY <3>4, <3>7, LastTool
      <4>3. code'[r] = "1" => \E i \in Steps : Excused(r, i)
        BY <3>3, <4>1, <4>2
      <4>4. (code[r] = "0" => seen[r] = Steps)'
        BY <4>1 DEF Steps, Last
      <4>5. (code[r] = "1" => \E i \in Steps : Excused(r, i))'
        BY <3>2, <4>3 DEF Steps, Last
      <4>6. (phase[r] # "reporting")'
        BY <4>1
      <4>7. (\A i \in seen[r] : Available(i))'
        BY <3>3
      <4> QED
        BY <1>4, <3>6, <4>4, <4>5, <4>6, <4>7 DEF TruthAt
    <3>8. CASE step[r] # Last
      <4>1. phase'[r] = "reporting" /\ code'[r] = "none" /\ step'[r] = step[r] + 1
        BY <2>3, <3>1, <3>5, <3>8, CheckAt
      <4>2. \A i \in Steps : i < step[r] + 1 => i \in seen'[r] \/ Excused(r, i)'
        BY <1>0, <1>4, <3>2, <3>4, LastTool
      <4>3. (code[r] = "none")'
        BY <4>1
      <4>4. (\A i \in Steps : i < step[r] => i \in seen[r] \/ Excused(r, i))'
        BY <4>1, <4>2 DEF Steps, Last
      <4>5. (\A i \in seen[r] : Available(i))'
        BY <3>3
      <4> QED
        BY <1>4, <3>6, <4>3, <4>4, <4>5 DEF TruthAt
    <3> QED
      BY <3>7, <3>8
  <2> QED
    BY <1>4, <2>1, <2>2, <2>3, Shapes
<1> QED
  BY <1>3, <1>4

-----------------------------------------------------------------------------
(* The theorems.                                                           *)

LEMMA InvInit == Init => Inv
<1> SUFFICES ASSUME Init PROVE Inv
  OBVIOUS
<1>1. TypeOK
  BY LastTool, BeforeAssumption DEF Init, TypeOK, Steps
<1>2. TempInv /\ PhaseInv /\ TruthInv
  BY LastTool DEF Init, TempInv, TempAt, PhaseInv, PhaseAt, TruthInv, TruthAt, Excused, Ended,
                  Installing
<1> QED
  BY <1>1, <1>2 DEF Inv

LEMMA InvStep == Inv /\ [Next]_vars => Inv'
<1> SUFFICES ASSUME Inv, [Next]_vars PROVE Inv'
  OBVIOUS
<1>1. ASSUME NEW r \in Runs, Acts(r) PROVE Inv'
  BY <1>1, TypeStep, TempStep, PhaseStep, TruthStep DEF Inv
<1>2. CASE UNCHANGED vars
  BY <1>2 DEF vars, givenVars, runVars, Inv, TypeOK, TempInv, TempAt, PhaseInv, PhaseAt,
              TruthInv, TruthAt, Excused, Usable, Available, Found, Wanted
<1> QED
  BY <1>1, <1>2 DEF Next, Acts

LEMMA Invariant == Spec => []Inv
BY InvInit, InvStep, PTL DEF Spec

\* Whatever other runs do and wherever they are killed, what a run of setup has
\* called installed or available stays usable, and exit code 0 keeps its meaning
\* (installer.py:208-220, 285-291).
THEOREM ReportsStay == Spec => []ReportStays
<1>1. Inv => ReportStays
  <2> SUFFICES ASSUME Inv, NEW r \in Runs
               PROVE  /\ \A i \in Indices : verdict[r][i] = "ok" => Usable(i)
                      /\ \A i \in Indices : verdict[r][i] = "installed" /\ ~shadows[i] => Usable(i)
                      /\ \A i \in seen[r] : Available(i)
                      /\ code[r] = "0" => \A i \in Steps : Available(i)
                      /\ code[r] = "1" =>
                           \/ \E i \in Steps : verdict[r][i] \in {"skipped", "error"}
                           \/ \E i \in Indices : shadows[i] /\ verdict[r][i] = "installed"
    BY DEF ReportStays
  <2>1. TruthAt(r)
    BY DEF Inv, TruthInv
  <2> QED
    BY <2>1 DEF TruthAt, Excused
<1> QED
  BY Invariant, <1>1, PTL

\* Temporary files are left by failed writes and killed runs only.
THEOREM TempsAreRemoved == Spec => []TempsRemoved
<1>1. Inv => TempsRemoved
  BY DEF Inv, TempInv, TempAt, TempsRemoved
<1> QED
  BY Invariant, <1>1, PTL

\* Only finished and checked downloads are put in place of an executable.
THEOREM TargetsAreWhole == Spec => TargetsWhole
<1>1. Inv /\ [Next]_vars =>
        [\A i \in Indices : target'[i] # target[i] => target'[i] \in {"pinned", "latest"}]_vars
  BY Improves DEF Inv, Next, Acts
<1> QED
  BY Invariant, <1>1, PTL DEF Spec, TargetsWhole

-----------------------------------------------------------------------------
(* What is replaced, and who has been asked.                               *)

\* From its look at an executable to its os.replace, a run without --pin finds that
\* it works by now only if another run has put it there; and it has been allowed to
\* install when it begins to.
MissingAt(r) ==
  /\ phase[r] \in {"updating", "packaging"} \union Installing => options[r].consent # "none"
  /\ /\ phase[r] \in {"resolving", "asking"} \union Installing
     /\ step[r] \in Indices
     /\ Usable(step[r])
     => options[r].pin \/ \E q \in Runs \ {r} : verdict[q][step[r]] = "installed"

MissingInv == \A r \in Runs : MissingAt(r)

\* A run prints what it did once for each dependency.
LEMMA VerdictStays ==
  ASSUME NEW r \in Runs, Acts(r), Inv, NEW q \in Runs, NEW i \in Steps, verdict[q][i] # "none"
  PROVE  verdict'[q][i] = verdict[q][i]
<1> USE DEF Inv
<1>1. CASE q # r
  <2>1. Others(r)
    BY Shapes, GoesOnAt, EndsAt, CheckAt
  <2> QED
    BY <1>1, <2>1 DEF Others
<1>2. CASE q = r
  <2>1. ASSUME NEW v, EndsWith(r, v) PROVE step[r] # i
    BY <1>2, <2>1, LastTool DEF EndsWith, PhaseInv, PhaseAt, Between, TypeOK
  <2> QED
    BY <1>2, <2>1, Shapes, GoesOnAt, EndsAt, CheckAt
<1> QED
  BY <1>1, <1>2

\* An executable changes only in a step that prints "installed".
LEMMA ChangeIsPrinted ==
  ASSUME NEW r \in Runs, Acts(r), Inv, NEW i \in Indices, Usable(i)', ~Usable(i)
  PROVE  step[r] = i /\ verdict'[r][i] = "installed"
<1> USE DEF Inv
<1>1. target'[i] # target[i]
  BY Improves DEF Usable, Found, givenVars
<1>2. Replace(r)
  BY <1>1 DEF Acts, LookTool, LookLibrary, Resolve, Confirm, Decline, Download, Write, Chmod,
              StepFails, Update, Package, Check, Interrupted, Raises, Kill
<1>3. step[r] = i
  BY <1>1, <1>2 DEF Replace, TypeOK
<1>4. i \in Steps
  BY LastTool
<1>5. verdict' = [verdict EXCEPT ![r][step[r]] = "installed"]
  BY <1>2 DEF Replace, StepEnds
<1> QED
  BY <1>3, <1>4, <1>5 DEF TypeOK

LEMMA MissingStep ==
  ASSUME NEW r \in Runs, Acts(r), Inv, MissingInv
  PROVE  MissingInv'
<1> SUFFICES ASSUME NEW q \in Runs PROVE MissingAt(q)'
  BY DEF MissingInv
<1>0. MissingAt(q) /\ TypeOK /\ TempInv /\ PhaseInv
  BY DEF MissingInv, Inv
<1>1. UNCHANGED options /\ Indices' = Indices /\ Indices \subseteq Steps
  BY <1>0, Improves, LastTool DEF givenVars, Indices
<1>2. CASE q # r
  <2>1. UNCHANGED <<phase[q], step[q], verdict[q]>>
    <3>1. Others(r)
      BY <1>0, Shapes, GoesOnAt, EndsAt, CheckAt
    <3> QED
      BY <1>2, <3>1 DEF Others
  <2>2. ASSUME NEW p \in Runs \ {q}, step[q] \in Indices, verdict[p][step[q]] = "installed"
        PROVE  verdict'[p][step[q]] = "installed"
    BY <1>1, <2>2, VerdictStays
  <2>3. ASSUME step[q] \in Indices, Usable(step[q])', ~Usable(step[q])
        PROVE  verdict'[r][step[q]] = "installed"
    <3>1. PICK i \in Indices : i = step[q]
      BY <2>3
    <3>2. Usable(i)' /\ ~Usable(i)
      BY <2>1, <2>3, <3>1 DEF Usable, Found
    <3> QED
      BY <3>1, <3>2, ChangeIsPrinted
  <2>4. ASSUME phase[q] \in {"resolving", "asking"} \union Installing,
               step[q] \in Indices, Usable(step[q])'
        PROVE  options[q].pin \/ \E p \in Runs \ {q} : verdict'[p][step[q]] = "installed"
    <3>1. CASE Usable(step[q])
      BY <1>0, <2>2, <2>4, <3>1 DEF MissingAt
    <3>2. CASE ~Usable(step[q])
      BY <1>2, <2>3, <2>4, <3>2
    <3> QED
      BY <3>1, <3>2
  <2> QED
    BY <1>0, <1>1, <2>1, <2>4 DEF MissingAt, Usable, Found
<1>3. CASE q = r
  <2>1. CASE LookTool(r)
    <3>1. CASE Settled(r)
      BY <1>0, <1>3, <2>1, <3>1 DEF LookTool, StepEnds, TypeOK, MissingAt, Installing
    <3>2. CASE ~Settled(r)
      <4>1. phase'[r] = "resolving" /\ UNCHANGED <<step, verdict, target, elsewhere, shadows>>
        BY <1>0, <2>1, <3>2 DEF LookTool, Turns, TypeOK, givenVars
      <4>2. Usable(step[r]) => options[r].pin
        BY <3>2 DEF Settled
      <4> QED
        BY <1>1, <1>3, <4>1, <4>2 DEF MissingAt, Usable, Found, Installing
    <3> QED
      BY <3>1, <3>2
  <2>2. CASE Resolve(r) \/ Confirm(r) \/ Download(r) \/ Write(r) \/ Chmod(r) \/ Update(r)
    <3>1. /\ phase[r] \in {"resolving", "asking", "updating"} \union Installing
          /\ UNCHANGED <<step, verdict, target, elsewhere, shadows>>
          /\ phase'[r] \in {"updating", "packaging"} \union Installing =>
               options[r].consent # "none"
          /\ phase[r] = "updating" => phase'[r] = "packaging"
      BY <1>0, <1>3, <2>2 DEF Resolve, Confirm, Download, Write, Chmod, Update, At, Turns, TypeOK,
                         givenVars, MissingAt, Installing
    <3> QED
      BY <1>0, <1>1, <1>3, <3>1 DEF MissingAt, Usable, Found, Installing
  <2>3. CASE \/ LookLibrary(r) \/ Decline(r) \/ Replace(r) \/ StepFails(r)
             \/ Package(r) \/ Check(r) \/ Interrupted(r) \/ Raises(r) \/ Kill(r)
    <3>1. \/ phase'[r] \notin {"resolving", "asking", "updating", "packaging"} \union Installing
          \/ phase'[r] = "asking" /\ step'[r] \notin Indices
      <4>1. CASE LookLibrary(r)
        <5>1. step[r] = Last /\ Last \notin Indices
          BY <4>1, LastTool DEF LookLibrary, AtLibrary
        <5>2. CASE library \/ ~root
          BY <1>0, <4>1, <5>1, <5>2 DEF LookLibrary, StepEnds, TypeOK, Installing
        <5>3. CASE ~library /\ root
          BY <1>0, <1>1, <4>1, <5>1, <5>3 DEF LookLibrary, Turns, TypeOK
        <5> QED
          BY <5>2, <5>3 DEF TypeOK
      <4>2. CASE Decline(r) \/ Replace(r) \/ StepFails(r) \/ Package(r)
        BY <1>0, <4>2 DEF Decline, Replace, StepFails, Package, StepEnds, TypeOK, Installing
      <4>3. CASE Check(r)
        BY <1>0, <4>3 DEF Check, At, TypeOK, Installing
      <4>4. CASE Interrupted(r) \/ Raises(r) \/ Kill(r)
        BY <1>0, <4>4 DEF Interrupted, Raises, Kill, Turns, TypeOK, Installing
      <4> QED
        BY <2>3, <4>1, <4>2, <4>3, <4>4
    <3> QED
      BY <1>1, <1>3, <3>1 DEF MissingAt, Installing
  <2> QED
    BY <2>1, <2>2, <2>3 DEF Acts
<1> QED
  BY <1>2, <1>3

\* Only os.replace and apt make a dependency "installed".
LEMMA InstalledBy ==
  ASSUME NEW q \in Runs, Acts(q), Inv, NEW r \in Runs, NEW i \in Steps,
         verdict[r][i] = "none", verdict'[r][i] = "installed"
  PROVE  /\ r = q /\ i = step[r]
         /\ phase[r] \in {"replacing", "packaging"}
<1> USE DEF Inv
<1>1. r = q
  <2>1. Others(q)
    BY Shapes, GoesOnAt, EndsAt, CheckAt
  <2> QED
    BY <2>1 DEF Others
<1>2. i = step[r]
  BY <1>1, Shapes, GoesOnAt, EndsAt, CheckAt
<1>3. ASSUME NEW v, StepEnds(r, v) PROVE v = "installed"
  BY <1>2, <1>3 DEF StepEnds, TypeOK
<1>4. verdict' # verdict
  OBVIOUS
<1>5. Replace(r) \/ Package(r)
  BY <1>1, <1>3, <1>4
     DEF Acts, LookTool, LookLibrary, Resolve, Confirm, Decline, Download, Write, Chmod, StepFails,
         Update, Check, Interrupted, Raises, Kill, Turns
<1> QED
  BY <1>1, <1>2, <1>5 DEF Replace, Package, At

\* What works is replaced only with --pin or because another setup was faster, and
\* nothing is installed that nobody allowed (README.md:32, installer.py:56-63, 232).
THEOREM OnlyMissingIsReplaced == Spec => OnlyMissingReplaced
<1>1. Init => MissingInv
  BY DEF Init, MissingInv, MissingAt, Installing
<1>2. Inv /\ MissingInv /\ [Next]_vars => MissingInv'
  <2>1. ASSUME Inv, MissingInv, UNCHANGED vars PROVE MissingInv'
    BY <2>1 DEF vars, givenVars, runVars, MissingInv, MissingAt, Usable, Found
  <2> QED
    BY <2>1, MissingStep DEF Next, Acts
<1>3. Inv /\ MissingInv /\ [Next]_vars =>
        [\A r \in Runs, i \in Steps :
           verdict[r][i] = "none" /\ verdict'[r][i] = "installed" =>
             /\ options[r].consent # "none"
             /\ i # Last /\ Usable(i) =>
                  options[r].pin \/ \E q \in Runs \ {r} : verdict[q][i] = "installed"]_vars
  <2> SUFFICES ASSUME Inv, MissingInv, NEW q \in Runs, Acts(q), NEW r \in Runs, NEW i \in Steps,
                      verdict[r][i] = "none", verdict'[r][i] = "installed"
               PROVE  /\ options[r].consent # "none"
                      /\ i # Last /\ Usable(i) =>
                           options[r].pin \/ \E p \in Runs \ {r} : verdict[p][i] = "installed"
    BY DEF Next, Acts
  <2>1. i = step[r] /\ phase[r] \in {"replacing", "packaging"} /\ MissingAt(r) /\ PhaseAt(r)
    BY InstalledBy DEF MissingInv, Inv, PhaseInv
  <2>2. i # Last => i \in Indices /\ phase[r] = "replacing"
    BY <2>1, LastTool DEF PhaseAt
  <2> QED
    BY <2>1, <2>2 DEF MissingAt, Installing
<1> QED
  BY Invariant, <1>1, <1>2, <1>3, PTL DEF Spec, OnlyMissingReplaced

-----------------------------------------------------------------------------
(* Which version stays.                                                    *)

\* Only the step of a run itself makes an executable "ok" or "installed", with --pin
\* because it found the pinned one, or because its own download is in place.
LEMMA NewVersion ==
  ASSUME NEW r \in Runs, Acts(r), Inv, NEW i \in Indices, verdict'[r][i] # verdict[r][i]
  PROVE  /\ verdict'[r][i] = "ok" /\ options[r].pin => Found(i) = "pinned" /\ UNCHANGED target
         /\ verdict'[r][i] = "installed" => target'[i] = Wanted(r)
<1> USE DEF Inv
<1>1. i \in Steps /\ i # Last
  BY LastTool
<1>2. step[r] = i
  BY <1>1, Shapes, GoesOnAt, EndsAt, CheckAt
<1>3. ASSUME NEW v, StepEnds(r, v) PROVE verdict'[r][i] = v
  BY <1>1, <1>2, <1>3 DEF StepEnds, TypeOK
<1>4. CASE LookTool(r)
  BY <1>2, <1>3, <1>4 DEF LookTool, Settled, Turns
<1>5. CASE Replace(r)
  <2>1. temp[r][i] = Wanted(r) /\ target' = [target EXCEPT ![step[r]] = temp[r][step[r]]]
    BY <1>2, <1>5 DEF Replace, At, TempInv, TempAt
  <2>2. target'[i] = Wanted(r)
    BY <1>2, <2>1 DEF TypeOK
  <2> QED
    BY <1>3, <1>5, <2>2 DEF Replace
<1>6. CASE Decline(r) \/ StepFails(r)
  BY <1>3, <1>6 DEF Decline, StepFails
<1>7. CASE ~LookTool(r) /\ ~Replace(r) /\ ~Decline(r) /\ ~StepFails(r)
  BY <1>1, <1>2, <1>7
     DEF Acts, LookLibrary, AtLibrary, Resolve, Confirm, Download, Write, Chmod, Update, Package,
         Check, Interrupted, Raises, Kill, Turns, At, PhaseInv, PhaseAt
<1> QED
  BY <1>4, <1>5, <1>6, <1>7

\* What is found changes only for what the run that steps wants and has printed.
LEMMA NewFound ==
  ASSUME NEW r \in Runs, Acts(r), Inv, NEW i \in Indices, Found(i)' # Found(i)
  PROVE  Found(i)' = Wanted(r) /\ verdict'[r][i] = "installed"
<1> USE DEF Inv
<1>1. target'[i] # target[i] /\ UNCHANGED <<elsewhere, shadows>>
  BY Improves DEF Found, givenVars
<1>2. Replace(r)
  BY <1>1 DEF Acts, LookTool, LookLibrary, Resolve, Confirm, Decline, Download, Write, Chmod,
              StepFails, Update, Package, Check, Interrupted, Raises, Kill
<1>3. step[r] = i
  BY <1>1, <1>2 DEF Replace, TypeOK
<1>4. i \in Steps /\ verdict' = [verdict EXCEPT ![r][step[r]] = "installed"]
  BY <1>2, LastTool DEF Replace, StepEnds
<1>5. target' = [target EXCEPT ![step[r]] = temp[r][step[r]]] /\ temp[r][i] = Wanted(r)
  BY <1>2, <1>3 DEF Replace, At, TempInv, TempAt
<1>6. target'[i] = Wanted(r) /\ Wanted(r) # "absent"
  BY <1>3, <1>5 DEF TypeOK, Wanted
<1>7. ~shadows[i]
  BY <1>1 DEF Found
<1>8. Found(i)' = Wanted(r)
  BY <1>1, <1>6, <1>7 DEF Found
<1> QED
  BY <1>3, <1>4, <1>8 DEF TypeOK

LEMMA VersionStep ==
  ASSUME NEW r \in Runs, Acts(r), Inv, VersionStays
  PROVE  VersionStays'
<1> SUFFICES ASSUME NEW q \in Runs, NEW i \in Indices PROVE VersionAt(q, i)'
  BY LastTool DEF VersionStays, Indices
<1> USE DEF Inv
<1>1. /\ VersionAt(q, i) /\ i \in Steps
      /\ \A p \in Runs : Wanted(p)' = Wanted(p)
      /\ UNCHANGED <<options, shadows>>
  BY LastTool, Improves DEF VersionStays, Wanted, givenVars
<1>2. CASE Found(i)' # Found(i)
  BY <1>1, <1>2, NewFound DEF VersionAt
<1>3. CASE Found(i)' = Found(i) /\ verdict'[q][i] = verdict[q][i]
  <2>1. ASSUME NEW p \in Runs, verdict[p][i] = "installed" PROVE verdict'[p][i] = "installed"
    BY <1>1, <2>1, VerdictStays
  <2> QED
    BY <1>1, <1>3, <2>1 DEF VersionAt
<1>4. CASE Found(i)' = Found(i) /\ verdict'[q][i] # verdict[q][i]
  <2>1. q = r
    <3>1. Others(r)
      BY Shapes, GoesOnAt, EndsAt, CheckAt
    <3> QED
      BY <1>4, <3>1 DEF Others
  <2>2. CASE verdict'[q][i] = "ok" /\ options[q].pin
    BY <1>1, <1>4, <2>1, <2>2, NewVersion DEF VersionAt, Wanted
  <2>3. CASE verdict'[q][i] = "installed" /\ ~shadows[i]
    <3>1. target'[i] = Wanted(q) /\ Wanted(q) # "absent"
      BY <1>4, <2>1, <2>3, NewVersion DEF Wanted
    <3>2. Found(i)' = Wanted(q)
      BY <1>1, <2>3, <3>1 DEF Found
    <3> QED
      BY <1>1, <3>2 DEF VersionAt
  <2> QED
    BY <1>1, <2>2, <2>3 DEF VersionAt
<1> QED
  BY <1>2, <1>3, <1>4

\* An installed version, and with --pin one found in place, is replaced only by a run
\* that wants the other one (README.md:35-37, installer.py:224-238).
THEOREM VersionDoesStay == Spec => []VersionStays
<1>1. Init => VersionStays
  BY LastTool DEF Init, VersionStays, VersionAt
<1>2. Inv /\ VersionStays /\ [Next]_vars => VersionStays'
  <2>1. ASSUME VersionStays, UNCHANGED vars PROVE VersionStays'
    BY <2>1 DEF vars, givenVars, runVars, VersionStays, VersionAt, Wanted, Found
  <2> QED
    BY <2>1, VersionStep DEF Next, Acts
<1> QED
  BY Invariant, <1>1, <1>2, PTL DEF Spec
=============================================================================
