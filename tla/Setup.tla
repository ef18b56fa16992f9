-------------------------------- MODULE Setup --------------------------------
(***************************************************************************)
(* installer.py: run_setup, the command "vpnprobe setup", and the report   *)
(* of diagnostics.py it ends with.  Several runs of one user may be under  *)
(* way at once; they share the directory they install into, the rest of    *)
(* PATH and the TDLib package, and nothing else.  Any of them can fail at  *)
(* every step, be interrupted or be killed.                                *)
(*                                                                         *)
(* An executable is told apart by what its version command does.  The      *)
(* network, the package manager and the user are external: each may fail.  *)
(***************************************************************************)
EXTENDS Naturals, Sequences

CONSTANTS
  Runs,         \* the processes
  Tools,        \* the executables, in the order of _tools()
  Before        \* bound: what the executables may be before the first run

VARIABLES
  root,         \* are the runs the superuser's?
  options,      \* of each run: --pin, and --yes, a terminal or neither of them
  elsewhere,    \* the executables found in another directory of PATH
  shadows,      \* ... and is that directory searched before the target?
  target,       \* the executables in the target directory
  library,      \* is TDLib there?
  phase,        \* what each run is doing, or how it ended
  step,         \* with which dependency
  temp,         \* its temporary files, beside the targets
  verdict,      \* what it printed for each dependency
  seen,         \* the dependencies its report called available so far
  code          \* its exit code, "none" yet

givenVars == <<root, options, elsewhere, shadows>>
runVars == <<phase, step, verdict, seen, code>>
vars == <<givenVars, target, library, runVars, temp>>

Indices == 1 .. Len(Tools)
Last == Len(Tools) + 1        \* TDLib comes last
Steps == 1 .. Last

\* "absent"; its version command fails or prints what is no text; prints no version
\* number; prints one.
Versioned == {"old", "pinned", "latest"}
Executables == {"absent", "broken", "unversioned"} \union Versioned

ASSUME ToolsAssumption == Len(Tools) \in Nat
ASSUME BeforeAssumption == Before \subseteq Executables

Options == [pin : BOOLEAN, consent : {"yes", "terminal", "none"}]

Ended == {"done", "interrupted", "raised", "killed"}

TypeOK ==
  /\ root \in BOOLEAN
  /\ options \in [Runs -> Options]
  /\ elsewhere \in [Indices -> Executables]
  /\ shadows \in [Indices -> BOOLEAN]
  /\ target \in [Indices -> Executables]
  /\ library \in BOOLEAN
  /\ phase \in [Runs -> {"looking", "resolving", "asking", "downloading", "writing", "chmod",
                         "replacing", "updating", "packaging", "reporting"} \union Ended]
  /\ step \in [Runs -> Steps]
  /\ temp \in [Runs -> [Indices -> {"none", "incomplete", "pinned", "latest"}]]
  /\ verdict \in [Runs -> [Steps -> {"none", "ok", "skipped", "error", "installed"}]]
  /\ seen \in [Runs -> SUBSET Steps]
  /\ code \in [Runs -> {"none", "0", "1"}]

Init ==
  /\ root \in BOOLEAN
  /\ options \in [Runs -> Options]
  /\ elsewhere \in [Indices -> Before]
  /\ shadows \in [Indices -> BOOLEAN]
  /\ \A i \in Indices : shadows[i] => elsewhere[i] # "absent"
  /\ target \in [Indices -> Before]
  /\ library \in BOOLEAN
  /\ phase = [r \in Runs |-> "looking"]
  /\ step = [r \in Runs |-> 1]
  /\ temp = [r \in Runs |-> [i \in Indices |-> "none"]]
  /\ verdict = [r \in Runs |-> [i \in Steps |-> "none"]]
  /\ seen = [r \in Runs |-> {}]
  /\ code = [r \in Runs |-> "none"]

\* shutil.which.  The target directory is on PATH at least in the run itself,
\* as its last directory then.
Found(i) == IF shadows[i] \/ target[i] = "absent" THEN elsewhere[i] ELSE target[i]

\* installed_version is not None, and: the report calls it available.
Usable(i) == Found(i) \in Versioned
Available(i) ==
  IF i = Last THEN library ELSE Found(i) \in Versioned \union {"unversioned"}

At(r, p) == phase[r] = p
AtTool(r, p) == phase[r] = p /\ step[r] # Last
AtLibrary(r, p) == phase[r] = p /\ step[r] = Last

Turns(r, p) ==
  /\ phase' = [phase EXCEPT ![r] = p]
  /\ UNCHANGED <<step, verdict, seen, code>>

-----------------------------------------------------------------------------
(* The loop of run_setup.                                                  *)

\* A step is over, with an exception run_setup prints or without one; after the
\* last one the report begins.
StepEnds(r, v) ==
  /\ verdict' = [verdict EXCEPT ![r][step[r]] = v]
  /\ IF step[r] = Last
     THEN phase' = [phase EXCEPT ![r] = "reporting"] /\ step' = [step EXCEPT ![r] = 1]
     ELSE phase' = [phase EXCEPT ![r] = "looking"] /\ step' = [step EXCEPT ![r] = @ + 1]
  /\ UNCHANGED <<seen, code>>

\* What a run installs.
Wanted(r) == IF options[r].pin THEN "pinned" ELSE "latest"

\* Faulty: with --pin too, any version will do.
SettledAnyVersion(r) == Usable(step[r])

\* An executable is left alone when it reports a version, with --pin that one.
Settled(r) == Usable(step[r]) /\ (options[r].pin => Found(step[r]) = "pinned")

LookTool(r) ==
  /\ AtTool(r, "looking")
  /\ IF Settled(r) THEN StepEnds(r, "ok") ELSE Turns(r, "resolving")
  /\ UNCHANGED <<givenVars, target, library, temp>>

LookLibrary(r) ==
  /\ AtLibrary(r, "looking")
  /\ CASE library            -> StepEnds(r, "ok")
       [] ~library /\ ~root  -> StepEnds(r, "skipped")
       [] ~library /\ root   -> Turns(r, "asking")
  /\ UNCHANGED <<givenVars, target, library, temp>>

\* The latest version's number; with --pin it is known.
Resolve(r) ==
  /\ At(r, "resolving")
  /\ Turns(r, "asking")
  /\ UNCHANGED <<givenVars, target, library, temp>>

\* Faulty: without a terminal the answer is yes.
ConfirmAnyway(r) ==
  /\ At(r, "asking")
  /\ Turns(r, IF step[r] = Last THEN "updating" ELSE "downloading")
  /\ UNCHANGED <<givenVars, target, library, temp>>

Confirm(r) ==
  /\ At(r, "asking")
  /\ options[r].consent # "none"
  /\ Turns(r, IF step[r] = Last THEN "updating" ELSE "downloading")
  /\ UNCHANGED <<givenVars, target, library, temp>>

\* The user says no, or cannot be asked.
Decline(r) ==
  /\ At(r, "asking")
  /\ options[r].consent # "yes"
  /\ StepEnds(r, "skipped")
  /\ UNCHANGED <<givenVars, target, library, temp>>

-----------------------------------------------------------------------------
(* _install_executable, of a download whose checksum is the published one. *)

\* mkdir and NamedTemporaryFile.
Download(r) ==
  /\ At(r, "downloading")
  /\ temp' = [temp EXCEPT ![r][step[r]] = "incomplete"]
  /\ Turns(r, "writing")
  /\ UNCHANGED <<givenVars, target, library>>

\* Faulty: the target is opened and written in place.
WriteInPlace(r) ==
  /\ At(r, "writing")
  /\ target' = [target EXCEPT ![step[r]] = "broken"]
  /\ temp' = [temp EXCEPT ![r][step[r]] = Wanted(r)]
  /\ Turns(r, "chmod")
  /\ UNCHANGED <<givenVars, library>>

Write(r) ==
  /\ At(r, "writing")
  /\ temp' = [temp EXCEPT ![r][step[r]] = Wanted(r)]
  /\ Turns(r, "chmod")
  /\ UNCHANGED <<givenVars, target, library>>

Chmod(r) ==
  /\ At(r, "chmod")
  /\ Turns(r, "replacing")
  /\ UNCHANGED <<givenVars, target, library, temp>>

\* os.replace.
Replace(r) ==
  /\ At(r, "replacing")
  /\ target' = [target EXCEPT ![step[r]] = temp[r][step[r]]]
  /\ temp' = [temp EXCEPT ![r][step[r]] = "none"]
  /\ StepEnds(r, "installed")
  /\ UNCHANGED <<givenVars, library>>

\* ProbeError or OSError: no architecture, no answer, a wrong checksum, a full
\* disk, no permission, apt.  Only after the write is the file removed again.
Discarded(r) ==
  IF phase[r] \in {"chmod", "replacing"}
  THEN [temp EXCEPT ![r][step[r]] = "none"] ELSE temp

\* Faulty: an exception in chmod or in replace leaves the file.
StepFailsUntidy(r) ==
  /\ phase[r] \in {"resolving", "downloading", "writing", "chmod", "replacing",
                   "updating", "packaging"}
  /\ StepEnds(r, "error")
  /\ UNCHANGED <<givenVars, target, library, temp>>

StepFails(r) ==
  /\ phase[r] \in {"resolving", "downloading", "writing", "chmod", "replacing",
                   "updating", "packaging"}
  /\ temp' = Discarded(r)
  /\ StepEnds(r, "error")
  /\ UNCHANGED <<givenVars, target, library>>

-----------------------------------------------------------------------------
(* TDLib, with apt.                                                        *)

Update(r) ==
  /\ At(r, "updating")
  /\ Turns(r, "packaging")
  /\ UNCHANGED <<givenVars, target, library, temp>>

Package(r) ==
  /\ At(r, "packaging")
  /\ library' = TRUE
  /\ StepEnds(r, "installed")
  /\ UNCHANGED <<givenVars, target, temp>>

-----------------------------------------------------------------------------
(* The report, one dependency after the other, and the ends of a run.      *)

Check(r) ==
  /\ At(r, "reporting")
  /\ LET now == IF Available(step[r]) THEN seen[r] \union {step[r]} ELSE seen[r]
     IN /\ seen' = [seen EXCEPT ![r] = now]
        /\ IF step[r] = Last
           THEN /\ phase' = [phase EXCEPT ![r] = "done"]
                /\ code' = [code EXCEPT ![r] = IF now = Steps THEN "0" ELSE "1"]
                /\ UNCHANGED step
           ELSE step' = [step EXCEPT ![r] = @ + 1] /\ UNCHANGED <<phase, code>>
  /\ UNCHANGED <<givenVars, target, library, temp, verdict>>

\* Ctrl-C.
Interrupted(r) ==
  /\ phase[r] \notin Ended
  /\ temp' = Discarded(r)
  /\ Turns(r, "interrupted")
  /\ UNCHANGED <<givenVars, target, library>>

\* Exceptions that run_setup does not name: UnicodeDecodeError of a version command
\* or a checksum file, one of http.client, EOFError of input, BadZipFile.
Raises(r) ==
  /\ \/ (AtTool(r, "looking") \/ AtTool(r, "reporting")) /\ Found(step[r]) = "broken"
     \/ At(r, "resolving") /\ ~options[r].pin
     \/ At(r, "asking") /\ options[r].consent = "terminal"
     \/ At(r, "downloading")
  /\ Turns(r, "raised")
  /\ UNCHANGED <<givenVars, target, library, temp>>

Kill(r) ==
  /\ phase[r] \notin Ended
  /\ Turns(r, "killed")
  /\ UNCHANGED <<givenVars, target, library, temp>>

Next ==
  \E r \in Runs :
    \/ LookTool(r) \/ LookLibrary(r) \/ Resolve(r) \/ Confirm(r) \/ Decline(r)
    \/ Download(r) \/ Write(r) \/ Chmod(r) \/ Replace(r) \/ StepFails(r)
    \/ Update(r) \/ Package(r) \/ Check(r) \/ Interrupted(r) \/ Raises(r) \/ Kill(r)

Spec == Init /\ [][Next]_vars

-----------------------------------------------------------------------------
(* Properties.                                                             *)

\* What one run found usable or has put in place stays usable, in whatever version,
\* whatever the others do and wherever they are killed (installer.py:208-220), and so
\* does what its report called available and what its exit code 0 stands for.  An
\* exit code 1 has its cause: a step that failed or was not allowed, or an executable
\* that comes before the installed one on PATH (installer.py:236-238).
ReportStays ==
  \A r \in Runs :
    /\ \A i \in Indices : verdict[r][i] = "ok" => Usable(i)
    /\ \A i \in Indices : verdict[r][i] = "installed" /\ ~shadows[i] => Usable(i)
    /\ \A i \in seen[r] : Available(i)
    /\ code[r] = "0" => \A i \in Steps : Available(i)
    /\ code[r] = "1" =>
         \/ \E i \in Steps : verdict[r][i] \in {"skipped", "error"}
         \/ \E i \in Indices : shadows[i] /\ verdict[r][i] = "installed"

\* The version goes on being the one a run printed INSTALLED for, and with --pin the
\* one it found in place, unless a run that wants the other version has installed
\* that one since it looked (README.md:35-37, installer.py:224-238).
VersionAt(r, i) ==
  \/ verdict[r][i] = "installed" /\ ~shadows[i]
  \/ verdict[r][i] = "ok" /\ options[r].pin
  =>
    \/ Found(i) = Wanted(r)
    \/ \E q \in Runs : Found(i) = Wanted(q) /\ verdict[q][i] = "installed"

VersionStays == \A r \in Runs, i \in Indices : VersionAt(r, i)

\* Nothing is ever at the place of an executable but what was there before the
\* runs, and a whole download whose checksum was right.
TargetsWhole ==
  [][\A i \in Indices : target'[i] # target[i] => target'[i] \in {"pinned", "latest"}]_vars

\* A step that is over has left no temporary file, unless it failed while that
\* was written (installer.py:211-213); a killed run may leave any.
TempsRemoved ==
  \A r \in Runs, i \in Indices :
    temp[r][i] # "none" /\ (verdict[r][i] # "none" \/ phase[r] \in {"interrupted", "raised"}) =>
      /\ temp[r][i] = "incomplete"
      /\ verdict[r][i] \in {"none", "error"}

\* An executable that works is replaced only by a run with --pin, or when another
\* run put it there between this one's look and its os.replace; and nothing is
\* installed that the user neither allowed with --yes nor could be asked about
\* (README.md:32).
OnlyMissingReplaced ==
  [][\A r \in Runs, i \in Steps :
       verdict[r][i] = "none" /\ verdict'[r][i] = "installed" =>
         /\ options[r].consent # "none"
         /\ i # Last /\ Usable(i) =>
              options[r].pin \/ \E q \in Runs \ {r} : verdict[q][i] = "installed"]_vars
=============================================================================
