----------------------------- MODULE DtbBuild -----------------------------
(***************************************************************************)
(* The build script of the dtb crate, dtb/build.rs, which fetches and      *)
(* compiles the device tree that the crate's test reads, run by cargo.     *)
(*                                                                         *)
(* A file is "none", "part" or "whole"; test/ is "none", "empty" or        *)
(* "used" (what git wants to clone into must not be).  git and dtc take    *)
(* two steps, a kill may come between any two.  Their behaviour is         *)
(* modelled as far as the script depends on it.                            *)
(*                                                                         *)
(* cargo keeps a record of the script for each kind of build, and all of   *)
(* them share test/.  It runs one build at a time.                         *)
(***************************************************************************)
CONSTANTS
  Builds,       \* the kinds of build: target and profile
  ScriptFaults  \* subset of {"network", "tools", "interrupt", "kill"}

VARIABLES
  dir, dts, dtb,  \* test/, test/test.dts, test/test.dtb
  step,           \* what the script does next; "idle" when it is not running
  build,          \* the build it runs for, or ran for last
  recorded,       \* builds it succeeded in: cargo does not run it again there
  hurt            \* what was broken off: "network" (it failed under git),
                  \* "git" (it was killed at work), "dtc" (stopped at work)

scriptVars == <<dir, dts, dtb, step, build, recorded, hurt>>
test == <<dir, dts, dtb>>

End(how) == /\ step' = "idle"
            /\ recorded' = IF how = "ok" THEN recorded \cup {build} ELSE recorded
            /\ UNCHANGED build

(* cargo, in a build or a test of the crate.  Only build.rs is watched.    *)
Cargo(b) == /\ step = "idle" /\ b \notin recorded
            /\ step' = "begin" /\ build' = b
            /\ UNCHANGED <<test, recorded, hurt>>

(* X_Y is X with the plausible mistake Y in it, as everywhere here.        *)
Begin_DirEnough ==
  /\ step = "begin"
  /\ IF dir = "none"
       THEN /\ dir' = "empty" /\ step' = "clone"
            /\ UNCHANGED <<dts, dtb, build, recorded, hurt>>
       ELSE End("ok") /\ UNCHANGED <<test, hurt>>

Begin_NoCheck == /\ step = "begin"
                 /\ dir' = IF dir = "none" THEN "empty" ELSE dir
                 /\ step' = "clone"
                 /\ UNCHANGED <<dts, dtb, build, recorded, hurt>>

(* git and dtc are asked for first.                                        *)
NoTools == /\ "tools" \in ScriptFaults /\ step = "begin"
           /\ End("panic")
           /\ UNCHANGED <<test, hurt>>

(* create_dir fails if test/ is there; only then is test.dtb looked for.   *)
Begin ==
  /\ step = "begin"
  /\ \/ /\ dir = "none"
        /\ dir' = "empty" /\ step' = "clone"
        /\ UNCHANGED <<dts, dtb, build, recorded, hurt>>
     \/ /\ dir # "none" /\ dtb # "none"
        /\ End("ok")
        /\ UNCHANGED <<test, hurt>>
     \/ /\ dir # "none" /\ dtb = "none"
        /\ step' = "clone"
        /\ UNCHANGED <<test, build, recorded, hurt>>

Clone_Spawned ==
  /\ step = "clone"
  /\ step' = "compile"
  /\ IF dir = "used" THEN UNCHANGED <<dir, dts>>
                     ELSE dir' = "used" /\ dts' = "part"
  /\ UNCHANGED <<dtb, build, recorded, hurt>>

(* git clone <url> test.  A failed spawn is looked at, a status is not.    *)
Clone ==
  /\ step = "clone"
  /\ IF dir = "used" THEN step' = "compile" /\ UNCHANGED <<dir, dts>>
                     ELSE step' = "cloning" /\ dir' = "used" /\ dts' = "part"
  /\ UNCHANGED <<dtb, build, recorded, hurt>>

Cloned == /\ step = "cloning"
          /\ dts' = "whole" /\ step' = "compile"
          /\ UNCHANGED <<dir, dtb, build, recorded, hurt>>

(* git removes what it has fetched and leaves a directory it was given.    *)
CloneFails == /\ "network" \in ScriptFaults
              /\ \/ step = "cloning"
                 \/ step = "clone" /\ dir # "used"
              /\ dir' = "empty" /\ dts' = "none"
              /\ step' = "compile" /\ hurt' = hurt \cup {"network"}
              /\ UNCHANGED <<dtb, build, recorded>>

(* dtc: nothing is written for an input that is missing or broken.         *)
Compile ==
  /\ step = "compile"
  /\ IF dts = "whole" THEN /\ dtb' = "part" /\ step' = "compiling"
                           /\ UNCHANGED <<build, recorded>>
                      ELSE End("ok") /\ UNCHANGED dtb
  /\ UNCHANGED <<dir, dts, hurt>>

Compiled == /\ step = "compiling"
            /\ dtb' = "whole" /\ End("ok")
            /\ UNCHANGED <<dir, dts, hurt>>

(* The tool that is stopped at work, and leaves what it has written.       *)
Broken(tool, at) == IF step = at THEN {tool} ELSE {}

(* Ctrl-C: git cleans up after itself, dtc does not.                       *)
Interrupt == /\ "interrupt" \in ScriptFaults /\ step # "idle"
             /\ IF step = "cloning" THEN dir' = "empty" /\ dts' = "none"
                                    ELSE UNCHANGED <<dir, dts>>
             /\ End("panic") /\ hurt' = hurt \cup Broken("dtc", "compiling")
             /\ UNCHANGED dtb

(* kill -9, a full disk, a power cut: everything stays as it is.           *)
Kill == /\ "kill" \in ScriptFaults /\ step # "idle"
        /\ End("panic")
        /\ hurt' = hurt \cup Broken("git", "cloning") \cup Broken("dtc", "compiling")
        /\ UNCHANGED test

(* An edit of build.rs.                                                    *)
Forget == /\ step = "idle" /\ recorded # {}
          /\ recorded' = {}
          /\ UNCHANGED <<test, step, build, hurt>>

ScriptInit == /\ dir = "none" /\ dts = "none" /\ dtb = "none"
              /\ step = "idle" /\ build \in Builds
              /\ recorded = {} /\ hurt = {}

Work == Begin \/ Clone \/ Cloned \/ Compile \/ Compiled

ScriptNext == \/ \E b \in Builds : Cargo(b)
              \/ Forget
              \/ Work \/ NoTools \/ CloneFails \/ Interrupt \/ Kill

ScriptSpec == ScriptInit /\ [][ScriptNext]_scriptVars

-----------------------------------------------------------------------------
ScriptTypeOK ==
  /\ dir \in {"none", "empty", "used"}
  /\ dts \in {"none", "part", "whole"}
  /\ dtb \in {"none", "part", "whole"}
  /\ step \in {"idle", "begin", "clone", "cloning", "compile", "compiling"}
  /\ build \in Builds
  /\ dts # "none" => dir = "used"
  /\ step = "cloning" => dts = "part"
  /\ step = "compiling" => dts = "whole" /\ dtb = "part"
  /\ recorded \subseteq Builds
  /\ hurt \subseteq {"network", "git", "dtc"}

(* A blob that is there in full stays: no later run of the script, whole,  *)
(* failed or interrupted, touches what the tests can already read.         *)
WholeStays == [][dtb = "whole" => dtb' = "whole"]_scriptVars

(* Where cargo trusts the script the blob is there in full, unless git or  *)
(* its network, or dtc, was broken off at its work; and a part of a blob   *)
(* has the last of these as its cause.  Missing tools, interrupts of git,  *)
(* interrupts and kills between the tools do no harm, however often.       *)
OkIsWhole ==
  /\ recorded # {} /\ dtb = "none" => hurt \cap {"network", "git"} # {}
  /\ dtb = "part" => step = "compiling" \/ "dtc" \in hurt

(* And what does no harm is mended: the blob is there in the end.          *)
Heals == <>(hurt # {}) \/ <>[](dtb = "whole")
=============================================================================
