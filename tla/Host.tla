-------------------------------- MODULE Host --------------------------------
(***************************************************************************)
(* The build on the host: xtask, cargo below it, and below cargo the build *)
(* script of the dtb crate.                                                *)
(*                                                                         *)
(* cargo runs the script before it builds or tests a package that needs    *)
(* the crate, once per kind of build; whatever ends the script badly ends  *)
(* cargo and, by its status, xtask.  The test it_works reads the blob.     *)
(***************************************************************************)
EXTENDS Xtask, DtbBuild

(* The script may end badly, a test may fail.                              *)
ASSUME CargoMayFail == "cargo" \in Faults

hostVars == <<source, target, elf, image, job, since, tested, made,
              dir, dts, dtb, step, build, recorded, hurt>>

(* build() gives cargo the target of the board, test() the host's own.     *)
Kind(command, profile) ==
  <<IF command = "test" THEN "host" ELSE "aarch64", profile>>

Kinds == {Kind(c, p) : c \in {"build", "run", "test"}, p \in Profiles}

ASSUME BuildsAreKinds == Builds = Kinds

Package == Head(job.rest)
Current == Kind(job.command, job.profile)

CargoRuns == job.phase \in {"build", "test"} /\ job.rest # <<>>

(* The packages that need the crate: itself, and the kernel by its         *)
(* manifest.                                                               *)
ScriptDone == /\ step = "idle"
              /\ Package \in {"dtb", Kernel} => Current \in recorded

RunScript == /\ CargoRuns /\ ~ScriptDone
             /\ Cargo(Current)
             /\ UNCHANGED vars

ScriptWorks == (Work \/ CloneFails) /\ UNCHANGED vars

ScriptDies == (NoTools \/ Interrupt \/ Kill) /\ CargoFails

Build == CargoBuild /\ ScriptDone /\ UNCHANGED scriptVars

Readable == Package = "dtb" => dtb = "whole"

(* it_works passes with the blob and cannot without it.                    *)
Test == \/ CargoTest /\ ScriptDone /\ Readable /\ UNCHANGED scriptVars
        \/ Doing("test") /\ CargoFails /\ ScriptDone /\ ~Readable
           /\ UNCHANGED scriptVars

GoesOn(m) == CargoRuns /\ Package = m /\ (Build \/ Test)

Fails == CargoFails /\ step = "idle" /\ UNCHANGED scriptVars

(* The steps of xtask itself.                                              *)
Own == (Move \/ Objcopy \/ ObjcopyFails \/ TestsEnd) /\ UNCHANGED scriptVars

Stopped == Killed /\ step = "idle" /\ UNCHANGED scriptVars

User == \/ /\ \E c \in {"build", "run", "test"}, p \in Profiles : Invoke(c, p)
           /\ UNCHANGED scriptVars
        \/ Edit /\ (Forget \/ UNCHANGED scriptVars)

Tools == RunScript \/ ScriptWorks \/ Build \/ Test \/ Own

HostInit == Init /\ ScriptInit

HostNext == User \/ Tools \/ Fails \/ ScriptDies \/ Stopped

HostSpec == HostInit /\ [][HostNext]_hostVars

(* A tool that is run ends.  The user tries again, and what may go wrong   *)
(* does not go wrong at one place every time.                              *)
HostFairness ==
  /\ WF_hostVars(Tools)
  /\ WF_hostVars(\E c \in {"build", "run", "test"}, p \in Profiles :
                   Invoke(c, p) /\ UNCHANGED scriptVars)
  /\ \A m \in MemberNames : SF_hostVars(GoesOn(m))
  /\ SF_hostVars(RunScript)
  /\ SF_hostVars(Begin /\ UNCHANGED vars)
  /\ SF_hostVars(Clone /\ UNCHANGED vars)
  /\ SF_hostVars(Cloned /\ UNCHANGED vars)
  /\ SF_hostVars(Compile /\ UNCHANGED vars)
  /\ SF_hostVars(Compiled /\ UNCHANGED vars)

HostLiveSpec == HostSpec /\ HostFairness
=============================================================================
