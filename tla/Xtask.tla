------------------------------- MODULE Xtask -------------------------------
(***************************************************************************)
(* The build driver of xtask/src/main.rs: cargo xbuild, xrun and xtest,    *)
(* one invocation after the other, while the sources are edited.           *)
(*                                                                         *)
(* A file is the version of the sources it was made from, 0 if it is not   *)
(* there and -1 if it was only written in part.  cargo and objcopy are     *)
(* single steps here; they may fail, and an interrupt may come before or   *)
(* in any step.                                                            *)
(***************************************************************************)
EXTENDS Integers, Sequences

CONSTANTS
  Members,     \* get_workspace_members, the order cargo metadata gives
  Kernel,      \* the member rpi5_baremetal_hello, whose binary is wanted
  Faults,      \* what may go wrong: subset of {"cargo", "objcopy", "kill"}
  Profiles,    \* what the arguments ask for: "debug", "release" (--release)
  MaxVersion   \* bound on the edits

(* cargo refuses a workspace with two members of one name.                 *)
ASSUME KernelOnce ==
  /\ Members \in Seq(STRING)
  /\ \E i \in DOMAIN Members :
       \A j \in DOMAIN Members : Members[j] = Kernel <=> j = i
ASSUME ProfilesAreTwo == Profiles \subseteq {"debug", "release"}
ASSUME VersionsAreNat == MaxVersion \in Nat \ {0}

VARIABLES
  source,   \* the version of the sources
  target,   \* target/aarch64-unknown-none/<profile>/rpi5_baremetal_hello
  elf,      \* build/rpi5_baremetal_hello
  image,    \* build/kernel8.img
  job,      \* the invocation: command, profile, packages still to do, phase
  since,    \* source when the invocation began
  tested,   \* packages whose tests have passed in the invocation
  made      \* the invocation has written the image

files == <<target, elf, image>>
vars  == <<source, target, elf, image, job, since, tested, made>>

(* test() leaves out the crate that cannot be tested: retain() takes the   *)
(* one entry of that name away and keeps the order of the others.          *)
KernelAt == CHOOSE i \in DOMAIN Members : Members[i] = Kernel
Testable == SubSeq(Members, 1, KernelAt - 1)
              \o SubSeq(Members, KernelAt + 1, Len(Members))

None  == 0
Part  == -1

Doing(phase) == job.phase = phase
To(phase)    == job' = [job EXCEPT !.phase = phase]

(* main: the command and its other arguments.                              *)
Invoke(command, profile) ==
  /\ job.phase \in {"ok", "failed"}
  /\ job' = [command |-> command, profile |-> profile,
             rest |-> IF command = "test" THEN Testable ELSE Members,
             phase |-> IF command = "test" THEN "test" ELSE "build"]
  /\ since' = source /\ tested' = {} /\ made' = FALSE
  /\ UNCHANGED <<source, files>>

(* cargo build -p <name>: the status is looked at.  (X_Y is X with the     *)
(* plausible mistake Y in it, as everywhere here.)                         *)
CargoBuild ==
  /\ Doing("build") /\ job.rest # <<>>
  /\ target' = IF Head(job.rest) = Kernel
                 THEN [target EXCEPT ![job.profile] = source] ELSE target
  /\ job' = [job EXCEPT !.rest = Tail(@)]
  /\ UNCHANGED <<source, elf, image, since, tested, made>>

CargoFails ==
  /\ "cargo" \in Faults
  /\ job.phase \in {"build", "test"} /\ job.rest # <<>>
  /\ To("failed")
  /\ UNCHANGED <<source, files, since, tested, made>>

Move_Copy ==
  /\ Doing("build") /\ job.rest = <<>>
  /\ IF elf # None
       THEN To("objcopy") /\ UNCHANGED <<target, elf>>
       ELSE /\ target["debug"] # None
            /\ To(IF job.command = "run" THEN "objcopy" ELSE "ok")
            /\ elf' = target["debug"]
            /\ UNCHANGED target
  /\ UNCHANGED <<source, image, since, tested, made>>

(* The end of build(): the binary is moved, always out of debug.           *)
Move ==
  /\ Doing("build") /\ job.rest = <<>>
  /\ IF target["debug"] = None
       THEN To("failed") /\ UNCHANGED <<target, elf>>
       ELSE /\ To(IF job.command = "run" THEN "objcopy" ELSE "ok")
            /\ elf' = target["debug"]
            /\ target' = [target EXCEPT !["debug"] = None]
  /\ UNCHANGED <<source, image, since, tested, made>>

(* run(): the result of objcopy is waited for and dropped.                 *)
Objcopy ==
  /\ Doing("objcopy")
  /\ image' = elf /\ made' = TRUE
  /\ To("ok")
  /\ UNCHANGED <<source, target, elf, since, tested>>

ObjcopyFails ==
  /\ "objcopy" \in Faults /\ Doing("objcopy")
  /\ \/ image' = Part /\ To("ok")          \* a status, something written
     \/ UNCHANGED image /\ To("ok")        \* a status
     \/ UNCHANGED image /\ To("failed")    \* not installed
  /\ UNCHANGED <<source, target, elf, since, tested, made>>

CargoTest_FailureGoesOn ==
  /\ Doing("test") /\ job.rest # <<>>
  /\ \E pass \in BOOLEAN :
       tested' = IF pass THEN tested \cup {Head(job.rest)} ELSE tested
  /\ job' = [job EXCEPT !.rest = Tail(@)]
  /\ UNCHANGED <<source, files, since, made>>

CargoTest ==
  /\ Doing("test") /\ job.rest # <<>>
  /\ tested' = tested \cup {Head(job.rest)}
  /\ job' = [job EXCEPT !.rest = Tail(@)]
  /\ UNCHANGED <<source, files, since, made>>

TestsEnd == /\ Doing("test") /\ job.rest = <<>>
            /\ To("ok")
            /\ UNCHANGED <<source, files, since, tested, made>>

(* Ctrl-C ends xtask and the tool it waits for.                            *)
Killed == /\ "kill" \in Faults
          /\ job.phase \notin {"ok", "failed"}
          /\ image' \in IF Doing("objcopy") THEN {image, Part} ELSE {image}
          /\ To("failed")
          /\ UNCHANGED <<source, target, elf, since, tested, made>>

Edit == /\ source < MaxVersion
        /\ source' = source + 1
        /\ UNCHANGED <<files, job, since, tested, made>>

Init == /\ source = 1
        /\ target = [p \in {"debug", "release"} |-> None]
        /\ elf = None /\ image = None
        /\ job = [command |-> "build", profile |-> "debug", rest |-> <<>>,
                  phase |-> "ok"]
        /\ since = 0 /\ tested = {} /\ made = FALSE

Run == \/ CargoBuild \/ CargoFails \/ Move \/ Objcopy \/ ObjcopyFails
       \/ CargoTest \/ TestsEnd \/ Killed

Next == \/ \E c \in {"build", "run", "test"}, p \in Profiles : Invoke(c, p)
        \/ Run \/ Edit

Spec == Init /\ [][Next]_vars

-----------------------------------------------------------------------------
MemberNames == {Members[i] : i \in DOMAIN Members}

(* What a debug build hands on (build() to its caller, run() to the image) *)
(* is made from sources at least as new as those it was called on, however *)
(* many earlier invocations failed or were interrupted in between.         *)
BuiltIsNew == job.profile = "debug" =>
  /\ job.phase = "ok" /\ job.command = "build" /\ since # 0 => elf >= since
  /\ made => image >= since

(* "All workspace tests passed!": each of them, in this invocation.        *)
PassedMeansAll == job.phase = "ok" /\ job.command = "test" =>
  tested = MemberNames \ {Kernel}
=============================================================================
