----------------------------- MODULE HostProofs -----------------------------
(***************************************************************************)
(* Proofs about the build on the host: about xtask, for every workspace    *)
(* that has the kernel in it, every set of faults and any number of edits, *)
(* about the build script, for every set of builds, and about the two      *)
(* running together.                                                       *)
(***************************************************************************)
EXTENDS Host, SequenceTheorems, TLAPS

(* As much of the types as the proof needs; the packages to be tested are  *)
(* no part of it.                                                          *)
Versions == /\ source \in Nat \ {0} /\ since \in Nat /\ elf \in Nat /\ image \in Int
            /\ target \in [{"debug", "release"} -> Nat]

Job == /\ job = [command |-> job.command, profile |-> job.profile,
                 rest |-> job.rest, phase |-> job.phase]
       /\ job.profile \in {"debug", "release"}
       /\ Doing("build") => job.rest \in Seq(MemberNames)
       /\ Doing("test") => job.command = "test"

(* In a debug build the binary is either still to be built or as new as    *)
(* the invocation; between the move and objcopy it is build/'s.            *)
KernelToDo == \E i \in 1 .. Len(job.rest) : job.rest[i] = Kernel

Fresh == job.profile = "debug" =>
  /\ Doing("build") => KernelToDo \/ target["debug"] >= since
  /\ Doing("objcopy") => elf >= since

(* since is the source of an earlier moment, and an image that is made     *)
(* ends the invocation.                                                    *)
Times == since <= source /\ (made => job.phase = "ok")

IInv == Versions /\ Job /\ Fresh /\ Times /\ BuiltIsNew

(* A fresh checkout satisfies the invariant.                               *)
LEMMA InitInv == Init => IInv
<1> SUFFICES ASSUME Init PROVE IInv
  OBVIOUS
<1>1. /\ job = [command |-> "build", profile |-> "debug", rest |-> <<>>, phase |-> "ok"]
      /\ job.phase = "ok" /\ job.profile = "debug"
  BY DEF Init
<1>2. Versions
  BY DEF Init, Versions, None
<1>3. Job
  BY <1>1 DEF Job, Doing
<1>4. Fresh /\ Times /\ BuiltIsNew
  BY <1>1 DEF Init, Fresh, Times, BuiltIsNew, Doing
<1> QED
  BY <1>2, <1>3, <1>4 DEF IInv

(* An invocation begins with the kernel to do.                             *)
LEMMA InvokeInv ==
  ASSUME IInv, NEW c, NEW p \in Profiles, Invoke(c, p)
  PROVE  IInv'
<1>1. /\ job' = [command |-> c, profile |-> p, rest |-> job'.rest, phase |-> job'.phase]
      /\ c # "test" => job'.rest = Members /\ job'.phase = "build"
      /\ c = "test" => job'.phase = "test"
      /\ since' = source /\ made' = FALSE
      /\ UNCHANGED <<source, target, elf, image>>
  BY DEF Invoke, files
<1>2. job'.command = c /\ job'.profile = p
  BY <1>1
<1>3. Members \in Seq(MemberNames) /\ \E i \in 1 .. Len(Members) : Members[i] = Kernel
  BY KernelOnce DEF MemberNames
<1>4. Versions' /\ Times'
  BY <1>1 DEF IInv, Versions, Times
<1>5. Job'
  BY <1>1, <1>2, <1>3, ProfilesAreTwo DEF Job, Doing
<1>6. Fresh'
  BY <1>1, <1>3 DEF Fresh, Doing, KernelToDo
<1>7. BuiltIsNew'
  BY <1>1 DEF BuiltIsNew
<1> QED
  BY <1>4, <1>5, <1>6, <1>7 DEF IInv

(* The builds, one package after the other.                                *)
LEMMA CargoBuildInv ==
  ASSUME IInv, CargoBuild
  PROVE  IInv'
<1>1. /\ job.phase = "build" /\ job.rest # <<>> /\ job.rest \in Seq(MemberNames)
      /\ job' = [job EXCEPT !.rest = Tail(@)]
      /\ target' = IF Head(job.rest) = Kernel
                     THEN [target EXCEPT ![job.profile] = source] ELSE target
      /\ UNCHANGED <<source, elf, image, since, made>>
  BY DEF CargoBuild, Doing, IInv, Job
<1>2. /\ job'.rest = Tail(job.rest) /\ job'.phase = "build"
      /\ job'.profile = job.profile /\ job'.command = job.command
      /\ job' = [command |-> job'.command, profile |-> job'.profile,
                 rest |-> job'.rest, phase |-> job'.phase]
      /\ job.profile \in {"debug", "release"}
  BY <1>1 DEF IInv, Job
<1>3. /\ Len(Tail(job.rest)) = Len(job.rest) - 1 /\ Len(job.rest) \in Nat
      /\ Tail(job.rest) \in Seq(MemberNames) /\ Head(job.rest) = job.rest[1]
      /\ \A i \in 1 .. Len(job.rest) - 1 : Tail(job.rest)[i] = job.rest[i + 1]
  BY <1>1
<1>4. Versions' /\ Times'
  BY <1>1, <1>2 DEF IInv, Versions, Times
<1>5. Job'
  BY <1>2, <1>3 DEF Job, Doing
<1>6. Fresh'
  <2> SUFFICES ASSUME job.profile = "debug"
               PROVE  KernelToDo' \/ target'["debug"] >= since
    BY <1>1, <1>2 DEF Fresh, Doing
  <2>1. CASE Head(job.rest) = Kernel
    BY <1>1, <2>1 DEF IInv, Versions, Times
  <2>2. CASE Head(job.rest) # Kernel /\ KernelToDo
    <3>1. PICK i \in 1 .. Len(job.rest) : job.rest[i] = Kernel
      BY <2>2 DEF KernelToDo
    <3>2. i # 1 /\ i - 1 \in 1 .. Len(job.rest) - 1 /\ (i - 1) + 1 = i
      BY <1>3, <2>2, <3>1
    <3>3. i - 1 \in 1 .. Len(job'.rest) /\ job'.rest[i - 1] = Kernel
      BY <1>2, <1>3, <3>1, <3>2
    <3> QED
      BY <3>3 DEF KernelToDo
  <2>3. CASE Head(job.rest) # Kernel /\ ~KernelToDo
    BY <1>1, <2>3 DEF IInv, Fresh, Doing
  <2> QED
    BY <2>1, <2>2, <2>3
<1>7. BuiltIsNew'
  BY <1>1, <1>2 DEF IInv, BuiltIsNew, Times
<1> QED
  BY <1>4, <1>5, <1>6, <1>7 DEF IInv

(* The move, when nothing is left to build.                                *)
LEMMA MoveInv ==
  ASSUME IInv, Move
  PROVE  IInv'
<1>1. /\ job.phase = "build" /\ job.rest = <<>>
      /\ UNCHANGED <<source, image, since, made>>
      /\ \/ job' = [job EXCEPT !.phase = "failed"] /\ UNCHANGED <<target, elf>>
         \/ /\ \E f \in {"objcopy", "ok"} : job' = [job EXCEPT !.phase = f]
            /\ elf' = target["debug"]
            /\ target' = [target EXCEPT !["debug"] = 0]
  BY DEF Move, Doing, To, None
<1>2. /\ job'.rest = job.rest /\ job'.phase \in {"failed", "objcopy", "ok"}
      /\ job'.profile = job.profile /\ job'.command = job.command
      /\ job' = [command |-> job'.command, profile |-> job'.profile,
                 rest |-> job'.rest, phase |-> job'.phase]
      /\ job'.phase # "failed" => elf' = target["debug"]
  BY <1>1 DEF IInv, Job
<1>3. ~KernelToDo
  BY <1>1 DEF KernelToDo
<1>4. job.profile = "debug" => target["debug"] >= since
  BY <1>1, <1>3 DEF IInv, Fresh, Doing
<1>5. Versions'
  BY <1>1 DEF IInv, Versions
<1>6. Times' /\ ~made
  BY <1>1 DEF IInv, Times
<1>7. Job'
  BY <1>2 DEF IInv, Job, Doing
<1>8. Fresh'
  BY <1>1, <1>2, <1>4 DEF Fresh, Doing
<1>9. BuiltIsNew'
  BY <1>1, <1>2, <1>4, <1>6 DEF BuiltIsNew
<1> QED
  BY <1>5, <1>6, <1>7, <1>8, <1>9 DEF IInv

(* objcopy, well or badly.                                                 *)
LEMMA ObjcopyInv ==
  ASSUME IInv, Objcopy \/ ObjcopyFails
  PROVE  IInv'
<1>1. /\ job.phase = "objcopy"
      /\ UNCHANGED <<source, target, elf, since>>
      /\ image' \in {elf, image, -1}
      /\ \E f \in {"ok", "failed"} : job' = [job EXCEPT !.phase = f]
      /\ \/ made' = TRUE /\ image' = elf /\ job' = [job EXCEPT !.phase = "ok"]
         \/ made' = made
  BY DEF Objcopy, ObjcopyFails, Doing, To, Part
<1>2. /\ job'.rest = job.rest /\ job'.phase \in {"failed", "ok"}
      /\ job'.profile = job.profile /\ job'.command = job.command
      /\ job' = [command |-> job'.command, profile |-> job'.profile,
                 rest |-> job'.rest, phase |-> job'.phase]
      /\ made' => job'.phase = "ok" /\ image' = elf
  BY <1>1 DEF IInv, Job, Times
<1>3. Versions'
  BY <1>1 DEF IInv, Versions
<1>4. Times' /\ Fresh'
  BY <1>1, <1>2 DEF IInv, Times, Fresh, Doing
<1>5. Job'
  BY <1>2 DEF IInv, Job, Doing
<1>6. BuiltIsNew'
  BY <1>1, <1>2 DEF IInv, Fresh, BuiltIsNew, Doing
<1> QED
  BY <1>3, <1>4, <1>5, <1>6 DEF IInv

(* The rest: a tool fails or is interrupted, a test, an edit.              *)
LEMMA OtherInv ==
  ASSUME IInv, CargoFails \/ CargoTest \/ TestsEnd \/ Killed \/ Edit \/ UNCHANGED vars
  PROVE  IInv'
<1>1. /\ UNCHANGED <<target, elf, since, made>>
      /\ source' \in {source, source + 1}
      /\ image' \in {image, -1} /\ (image' # image => job.phase # "ok")
      /\ \/ job' = job
         \/ job' = [job EXCEPT !.phase = "failed"] /\ job.phase # "ok"
         \/ job' = [job EXCEPT !.phase = "ok"] /\ job.phase = "test"
         \/ job' = [job EXCEPT !.rest = Tail(@)] /\ job.phase = "test"
  BY DEF CargoFails, CargoTest, TestsEnd, Killed, Edit, vars, files, Doing, To, Part
<1>2. /\ job'.profile = job.profile /\ job'.command = job.command
      /\ job' = [command |-> job'.command, profile |-> job'.profile,
                 rest |-> job'.rest, phase |-> job'.phase]
      /\ \/ job'.phase = job.phase /\ (job.phase = "test" \/ job'.rest = job.rest)
         \/ job'.phase = "failed" /\ job.phase # "ok"
         \/ job'.phase = "ok" /\ job.phase = "test"
  BY <1>1 DEF IInv, Job
<1>3. Versions'
  BY <1>1 DEF IInv, Versions
<1>4. Times'
  BY <1>1, <1>2 DEF IInv, Versions, Times
<1>5. Job'
  BY <1>2 DEF IInv, Job, Doing
<1>6. Fresh'
  BY <1>1, <1>2 DEF IInv, Fresh, Doing, KernelToDo
<1>7. BuiltIsNew'
  BY <1>1, <1>2 DEF IInv, BuiltIsNew, Times, Job, Doing
<1> QED
  BY <1>3, <1>4, <1>5, <1>6, <1>7 DEF IInv

(* Every invocation, tool, fault and edit keeps it.                        *)
LEMMA StepInv == IInv /\ [Next]_vars => IInv'
  BY InvokeInv, CargoBuildInv, MoveInv, ObjcopyInv, OtherInv DEF Next, Run

(* What a debug build hands on is as new as the sources it was called on,  *)
(* whatever failed or was interrupted before.                              *)
THEOREM NothingStale == Spec => []BuiltIsNew
<1>1. IInv => BuiltIsNew
  BY DEF IInv
<1> QED
  BY <1>1, InitInv, StepInv, PTL DEF Spec

-----------------------------------------------------------------------------
(* test(): what has passed and what is still to do are together all there  *)
(* is to test, and what a test run has to do it only does in its loop.     *)
ToDo == {job.rest[i] : i \in 1 .. Len(job.rest)}

TestsAhead ==
  /\ Doing("test") => /\ job.rest \in Seq(MemberNames)
                      /\ tested \cup ToDo = MemberNames \ {Kernel}
  /\ job.command = "test" => job.phase \in {"test", "ok", "failed"}

TestInv == TestsAhead /\ PassedMeansAll

(* A sequence without its element k.                                       *)
LEMMA LeftOut ==
  ASSUME NEW S, NEW s \in Seq(S), NEW k \in 1 .. Len(s)
  PROVE  LET r == SubSeq(s, 1, k - 1) \o SubSeq(s, k + 1, Len(s))
         IN  /\ r \in Seq(S) /\ Len(r) = Len(s) - 1
             /\ \A i \in 1 .. Len(s) - 1 :
                  r[i] = IF i < k THEN s[i] ELSE s[i + 1]
<1> DEFINE before == SubSeq(s, 1, k - 1)
           after  == SubSeq(s, k + 1, Len(s))
           r == before \o after
<1>1. /\ before \in Seq(S) /\ Len(before) = k - 1
      /\ \A i \in 1 .. k - 1 : before[i] = s[i]
  BY SubSeqProperties
<1>2. /\ k + 1 \in 1 .. Len(s) + 1 /\ Len(s) \in (k + 1) - 1 .. Len(s)
      /\ Len(s) \in Nat
  OBVIOUS
<1>3. after \in Seq(S)
      /\ Len(after) = IF k + 1 <= Len(s) THEN Len(s) - (k + 1) + 1 ELSE 0
  BY <1>2, SubSeqProperties
<1>4. ASSUME NEW i \in 1 .. Len(s) - k PROVE after[i] = s[k + i]
  BY <1>2, <1>4, SubSeqProperties
<1>5. Len(after) = Len(s) - k
  BY <1>2, <1>3
<1> HIDE DEF before, after
<1>6. /\ r \in Seq(S) /\ Len(r) = Len(before) + Len(after)
      /\ \A i \in 1 .. Len(before) + Len(after) :
           r[i] = IF i <= Len(before) THEN before[i] ELSE after[i - Len(before)]
  <2>1. before \in Seq(S) /\ after \in Seq(S)
    BY <1>1, <1>3
  <2> QED
    BY <2>1, ConcatProperties, Zenon
<1> HIDE DEF r
<1>7. Len(r) = Len(s) - 1
  BY <1>1, <1>2, <1>5, <1>6
<1>8. ASSUME NEW i \in 1 .. Len(s) - 1
      PROVE  r[i] = IF i < k THEN s[i] ELSE s[i + 1]
  <2>1. r[i] = IF i <= k - 1 THEN before[i] ELSE after[i - (k - 1)]
    <3>1. Len(before) = k - 1
      BY <1>1
    <3>2. k - 1 + (Len(s) - k) = Len(s) - 1
      BY <1>2
    <3>3. i \in 1 .. Len(before) + Len(after)
      BY <1>5, <3>1, <3>2, <1>8, Zenon
    <3>4. r[i] = IF i <= Len(before) THEN before[i]
                 ELSE after[i - Len(before)]
      BY <1>6, <3>3, Zenon
    <3> QED
      BY <3>1, <3>4, Zenon
  <2>2. CASE i < k
    BY <1>1, <1>2, <2>1, <2>2
  <2>3. CASE ~(i < k)
    <3>1. i - (k - 1) \in 1 .. Len(s) - k /\ k + (i - (k - 1)) = i + 1
      BY <1>2, <2>3
    <3>2. r[i] = after[i - (k - 1)]
      BY <1>2, <2>1, <2>3
    <3>3. after[i - (k - 1)] = s[k + (i - (k - 1))]
      BY <1>4, <3>1
    <3> QED
      BY <2>3, <3>1, <3>2, <3>3
  <2> QED
    BY <2>2, <2>3
<1> QED
  BY <1>6, <1>7, <1>8 DEF r, before, after

(* What retain() leaves is every member but the kernel.                    *)
LEMMA TestableNames ==
  /\ Testable \in Seq(MemberNames)
  /\ {Testable[i] : i \in 1 .. Len(Testable)} = MemberNames \ {Kernel}
<1> DEFINE k == KernelAt
           L == Len(Members)
<1>1. Members \in Seq(MemberNames) /\ L \in Nat /\ DOMAIN Members = 1 .. L
  BY KernelOnce DEF MemberNames
<1>2. k \in 1 .. L /\ \A j \in 1 .. L : Members[j] = Kernel <=> j = k
  <2>1. \E i \in DOMAIN Members : Members[i] = Kernel
    BY KernelOnce
  <2>2. k \in DOMAIN Members /\ Members[k] = Kernel
    BY <2>1 DEF KernelAt
  <2> QED
    BY <1>1, <2>2, KernelOnce
<1> HIDE DEF k
<1>3. /\ Testable \in Seq(MemberNames) /\ Len(Testable) = L - 1
      /\ \A i \in 1 .. L - 1 :
           Testable[i] = IF i < k THEN Members[i] ELSE Members[i + 1]
  <2>1. Testable = SubSeq(Members, 1, k - 1) \o SubSeq(Members, k + 1, Len(Members))
    BY DEF Testable, k
  <2> QED
    BY <1>1, <1>2, <2>1, LeftOut
<1> HIDE DEF L
<1>4. ASSUME NEW i \in 1 .. Len(Testable) PROVE Testable[i] \in MemberNames \ {Kernel}
  <2>1. CASE i < k
    BY <1>1, <1>2, <1>3, <2>1 DEF MemberNames
  <2>2. CASE ~(i < k)
    <3>1. i + 1 \in 1 .. L /\ i + 1 # k /\ Testable[i] = Members[i + 1]
      BY <1>1, <1>2, <1>3, <2>2
    <3> QED
      BY <1>1, <1>2, <3>1 DEF MemberNames
  <2> QED
    BY <2>1, <2>2
<1>5. ASSUME NEW m \in MemberNames \ {Kernel}
      PROVE  \E i \in 1 .. Len(Testable) : Testable[i] = m
  <2>1. PICK j \in 1 .. L : Members[j] = m
    BY <1>1 DEF MemberNames
  <2>2. j # k
    BY <1>2, <2>1
  <2>3. CASE j < k
    BY <1>1, <1>2, <1>3, <2>1, <2>3
  <2>4. CASE j > k
    <3>1. j - 1 \in 1 .. Len(Testable) /\ (j - 1) + 1 = j /\ ~(j - 1 < k)
      BY <1>1, <1>2, <1>3, <2>4
    <3> QED
      BY <1>3, <2>1, <3>1
  <2> QED
    BY <1>1, <1>2, <2>2, <2>3, <2>4
<1> QED
  BY <1>3, <1>4, <1>5

(* A package that has passed leaves the list.                              *)
LEMMA OnePassed ==
  ASSUME TestInv, CargoTest, job = [command |-> job.command,
           profile |-> job.profile, rest |-> job.rest, phase |-> job.phase]
  PROVE  TestInv'
<1>1. /\ Doing("test") /\ job.rest # <<>> /\ job.rest \in Seq(MemberNames)
      /\ job' = [job EXCEPT !.rest = Tail(@)]
      /\ tested' = tested \cup {Head(job.rest)}
  BY DEF CargoTest, TestInv, TestsAhead
<1>2. job'.rest = Tail(job.rest) /\ job'.phase = "test"
      /\ job'.command = job.command
  BY <1>1 DEF Doing
<1>3. /\ Len(Tail(job.rest)) = Len(job.rest) - 1 /\ Len(job.rest) \in Nat
      /\ Tail(job.rest) \in Seq(MemberNames) /\ Head(job.rest) = job.rest[1]
      /\ \A i \in 1 .. Len(job.rest) - 1 : Tail(job.rest)[i] = job.rest[i + 1]
      /\ Len(job.rest) > 0
  BY <1>1
<1>4. ToDo = {Head(job.rest)} \cup ToDo'
  <2>1. ASSUME NEW i \in 1 .. Len(job.rest)
        PROVE  job.rest[i] \in {Head(job.rest)} \cup ToDo'
    <3>1. CASE i = 1
      BY <1>3, <3>1
    <3>2. CASE i # 1
      <4>1. i - 1 \in 1 .. Len(job.rest) - 1 /\ (i - 1) + 1 = i
        BY <1>3, <3>2
      <4> QED
        BY <1>2, <1>3, <4>1 DEF ToDo
    <3> QED
      BY <3>1, <3>2
  <2>2. ASSUME NEW i \in 1 .. Len(job'.rest)
        PROVE  job'.rest[i] \in ToDo
    <3>1. i + 1 \in 1 .. Len(job.rest) /\ job'.rest[i] = job.rest[i + 1]
      BY <1>2, <1>3
    <3> QED
      BY <3>1 DEF ToDo
  <2>3. Head(job.rest) \in ToDo
    BY <1>3 DEF ToDo
  <2> QED
    BY <2>1, <2>2, <2>3 DEF ToDo
<1>5. tested' \cup ToDo' = tested \cup ToDo
  BY <1>1, <1>4
<1> QED
  BY <1>1, <1>2, <1>3, <1>5 DEF TestInv, TestsAhead, PassedMeansAll, Doing

(* The other steps leave what a test run has done and has to do, or begin  *)
(* one, or end it: well only with nothing left.                            *)
LEMMA TestStep == IInv /\ TestInv /\ [Next]_vars => TestInv'
<1> SUFFICES ASSUME IInv, TestInv, [Next]_vars PROVE TestInv'
  OBVIOUS
<1>1. job = [command |-> job.command, profile |-> job.profile,
             rest |-> job.rest, phase |-> job.phase]
  BY DEF IInv, Job
<1>2. ASSUME NEW c, NEW p \in Profiles, Invoke(c, p) PROVE TestInv'
  <2>1. /\ job'.rest = IF c = "test" THEN Testable ELSE Members
        /\ job'.phase = IF c = "test" THEN "test" ELSE "build"
        /\ job'.command = c /\ tested' = {}
    BY <1>2 DEF Invoke
  <2> QED
    BY <2>1, TestableNames DEF TestInv, TestsAhead, ToDo, PassedMeansAll, Doing
<1>3. CASE CargoTest
  BY <1>1, <1>3, OnePassed
<1>4. CASE TestsEnd
  <2>1. job' = [job EXCEPT !.phase = "ok"] /\ tested' = tested
        /\ Doing("test") /\ ToDo = {}
    BY <1>4 DEF TestsEnd, To, ToDo
  <2> QED
    BY <1>1, <2>1 DEF TestInv, TestsAhead, PassedMeansAll, Doing
<1>5. CASE CargoFails \/ Killed
  <2>1. job' = [job EXCEPT !.phase = "failed"] /\ tested' = tested
    BY <1>5 DEF CargoFails, Killed, To
  <2> QED
    BY <1>1, <2>1 DEF TestInv, TestsAhead, PassedMeansAll, Doing
<1>6. CASE CargoBuild \/ Move \/ Objcopy \/ ObjcopyFails
  <2>1. job.command # "test"
    BY <1>6 DEF CargoBuild, Move, Objcopy, ObjcopyFails, Doing, TestInv, TestsAhead
  <2>2. \/ job' = [job EXCEPT !.rest = Tail(@)] /\ job.phase = "build"
        \/ \E f \in {"failed", "objcopy", "ok"} : job' = [job EXCEPT !.phase = f]
    BY <1>6 DEF CargoBuild, Move, Objcopy, ObjcopyFails, Doing, To
  <2> QED
    BY <1>1, <2>1, <2>2 DEF TestInv, TestsAhead, PassedMeansAll, Doing
<1>7. CASE Edit \/ UNCHANGED vars
  BY <1>7 DEF Edit, vars, TestInv, TestsAhead, ToDo, PassedMeansAll, Doing
<1> QED
  BY <1>2, <1>3, <1>4, <1>5, <1>6, <1>7 DEF Next, Run

(* "All workspace tests passed!" is said when every member but the kernel  *)
(* has passed in this invocation.                                          *)
THEOREM AllPassed == Spec => []PassedMeansAll
<1>1. Init => TestInv
  BY DEF Init, TestInv, TestsAhead, PassedMeansAll, Doing
<1>2. TestInv => PassedMeansAll
  BY DEF TestInv
<1> QED
  BY <1>1, <1>2, InitInv, StepInv, TestStep, PTL DEF Spec

-----------------------------------------------------------------------------
(* The build script of the dtb crate.                                      *)

(* Where the files are not as the step of the script would have them, it   *)
(* is the fault of the tool that was broken off.                           *)
InStep ==
  /\ dts = "part" => step = "cloning" \/ "git" \in hurt
  /\ dts = "none" => dir # "used"
  /\ step = "compile" => dts = "whole" \/ hurt \cap {"network", "git"} # {}
  /\ OkIsWhole

NothingFromNothing == dir = "none" => dtb = "none"

(* The script goes to work only while there is no blob at all.             *)
WorksForOne == step \in {"clone", "cloning", "compile"} => dtb = "none"

(* What is written, and when, carries OkIsWhole.                           *)
ScriptInv == ScriptTypeOK /\ InStep /\ NothingFromNothing /\ WorksForOne

(* A fresh checkout satisfies the invariant.                               *)
LEMMA ScriptInitInv == ScriptInit => ScriptInv
  BY DEF ScriptInit, ScriptInv, ScriptTypeOK, InStep, OkIsWhole, NothingFromNothing,
     WorksForOne

(* Every step of cargo, of the script and of a fault.                      *)
LEMMA ScriptStepInv == ScriptInv /\ [ScriptNext]_scriptVars => ScriptInv'
<1> SUFFICES ASSUME ScriptInv, [ScriptNext]_scriptVars PROVE ScriptInv'
  OBVIOUS
<1> USE DEF ScriptInv, ScriptTypeOK, InStep, OkIsWhole, NothingFromNothing,
           WorksForOne, test
<1>1. ASSUME NEW b \in Builds, Cargo(b) PROVE ScriptInv'
  BY <1>1 DEF Cargo
<1>2. CASE Forget
  BY <1>2 DEF Forget
<1>3. CASE Begin
  BY <1>3 DEF Begin, End
<1>4. CASE Clone
  BY <1>4 DEF Clone
<1>5. CASE Cloned
  BY <1>5 DEF Cloned
<1>6. CASE Compile
  BY <1>6 DEF Compile, End
<1>7. CASE Compiled
  BY <1>7 DEF Compiled, End
<1>8. CASE NoTools \/ Kill
  BY <1>8 DEF NoTools, Kill, End, Broken
<1>9. CASE CloneFails
  BY <1>9 DEF CloneFails
<1>10. CASE Interrupt
  BY <1>10 DEF Interrupt, End, Broken
<1>11. CASE UNCHANGED scriptVars
  BY <1>11 DEF scriptVars
<1> QED
  BY <1>1, <1>2, <1>3, <1>4, <1>5, <1>6, <1>7, <1>8, <1>9, <1>10, <1>11
     DEF ScriptNext, Work

(* The script is where its files say, whatever happened before.            *)
THEOREM ScriptTypeCorrect == ScriptSpec => []ScriptTypeOK
<1>1. ScriptInv => ScriptTypeOK
  BY DEF ScriptInv
<1> QED
  BY <1>1, ScriptInitInv, ScriptStepInv, PTL DEF ScriptSpec

(* Where cargo trusts the script there is a blob unless git or its network *)
(* was broken off, and it is whole unless dtc was; whatever other          *)
(* interrupts, kills and missing tools there were.                         *)
THEOREM SuccessIsWhole == ScriptSpec => []OkIsWhole
<1>1. ScriptInv => OkIsWhole
  BY DEF ScriptInv, InStep
<1> QED
  BY <1>1, ScriptInitInv, ScriptStepInv, PTL DEF ScriptSpec

(* No run of the script, with whatever faults, spoils a blob.              *)
THEOREM BlobStays == ScriptSpec => WholeStays
<1>1. ScriptInv /\ [ScriptNext]_scriptVars => (dtb = "whole" => dtb' = "whole")
  BY DEF ScriptInv, ScriptTypeOK, WorksForOne, ScriptNext, Work, Cargo, Forget, Begin, Clone, Cloned, Compile,
         Compiled, NoTools, Kill, CloneFails, Interrupt, End, test, scriptVars
<1> QED
  BY <1>1, ScriptInitInv, ScriptStepInv, PTL DEF ScriptSpec, WholeStays

-----------------------------------------------------------------------------
(* The composition does nothing but what its parts do: what is proved of   *)
(* them holds where they run together.                                     *)

(* cargo is run for a command and a profile somebody asked for.            *)
JobAsked == /\ job = [command |-> job.command, profile |-> job.profile,
                      rest |-> job.rest, phase |-> job.phase]
            /\ CargoRuns => /\ job.command \in {"build", "run", "test"}
                            /\ job.profile \in Profiles

(* xtask only ever changes the phase and the list of an invocation.        *)
LEMMA JobStays ==
  ASSUME JobAsked, [HostNext]_hostVars
  PROVE  JobAsked'
<1> USE DEF JobAsked, CargoRuns
<1>1. CASE UNCHANGED job
  BY <1>1
<1>2. ASSUME NEW c \in {"build", "run", "test"}, NEW p \in Profiles, Invoke(c, p)
      PROVE JobAsked'
  BY <1>2 DEF Invoke
<1>3. CASE CargoBuild
  BY <1>3 DEF CargoBuild, Doing
<1>4. CASE CargoTest
  BY <1>4 DEF CargoTest, Doing
<1>5. CASE CargoFails \/ Killed
  BY <1>5 DEF CargoFails, Killed, To
<1>6. CASE Move
  BY <1>6 DEF Move, To
<1>7. CASE Objcopy \/ ObjcopyFails \/ TestsEnd
  BY <1>7 DEF Objcopy, ObjcopyFails, TestsEnd, To
<1> QED
  BY <1>1, <1>2, <1>3, <1>4, <1>5, <1>6, <1>7
     DEF HostNext, User, Tools, RunScript, ScriptWorks, ScriptDies, Build, Test,
         Own, Fails, Stopped, Edit, vars, hostVars

(* A step of the whole is a step of xtask, or leaves it alone.             *)
LEMMA StepOfXtask == [HostNext]_hostVars => [Next]_vars
<1> SUFFICES ASSUME [HostNext]_hostVars PROVE [Next]_vars
  OBVIOUS
<1>1. CASE UNCHANGED hostVars
  BY <1>1 DEF hostVars, vars
<1>2. CASE User
  BY <1>2 DEF User, Next
<1>3. CASE Tools
  BY <1>3 DEF Tools, RunScript, ScriptWorks, Build, Test, Own, Next, Run
<1>4. CASE Fails \/ ScriptDies \/ Stopped
  BY <1>4 DEF Fails, ScriptDies, Stopped, Next, Run
<1> QED
  BY <1>1, <1>2, <1>3, <1>4 DEF HostNext

(* And of the build script.                                                *)
LEMMA StepOfScript == JobAsked /\ [HostNext]_hostVars => [ScriptNext]_scriptVars
<1> SUFFICES ASSUME JobAsked, [HostNext]_hostVars PROVE [ScriptNext]_scriptVars
  OBVIOUS
<1>1. CASE UNCHANGED hostVars
  BY <1>1 DEF hostVars, scriptVars
<1>2. CASE User
  BY <1>2 DEF User, ScriptNext
<1>3. CASE RunScript
  <2>1. Current \in Builds
    BY <1>3, BuildsAreKinds DEF RunScript, JobAsked, Current, Kinds
  <2> QED
    BY <1>3, <2>1 DEF RunScript, ScriptNext
<1>4. CASE Tools /\ ~RunScript
  BY <1>4 DEF Tools, ScriptWorks, Build, Test, Own, ScriptNext
<1>5. CASE Fails \/ ScriptDies \/ Stopped
  BY <1>5 DEF Fails, ScriptDies, Stopped, ScriptNext
<1> QED
  BY <1>1, <1>2, <1>3, <1>4, <1>5 DEF HostNext

(* cargo and the script below it do not make xtask do anything its own     *)
(* specification has not: what is proved of Spec carries over.             *)
THEOREM HostIsXtask == HostSpec => Spec
<1>1. HostInit => Init
  BY DEF HostInit
<1> QED
  BY <1>1, StepOfXtask, PTL DEF HostSpec, Spec

(* Whoever invokes cargo, and whatever ends it, the script runs as its own *)
(* specification says: what is proved of ScriptSpec carries over.          *)
THEOREM HostIsScript == HostSpec => ScriptSpec
<1>1. HostInit => ScriptInit /\ JobAsked
  BY DEF HostInit, Init, JobAsked, CargoRuns
<1> QED
  BY <1>1, StepOfScript, JobStays, PTL DEF HostSpec, ScriptSpec

(* So with the two running together no old binary passes for the result of *)
(* a debug build and no test left out for one that passed; the script's    *)
(* success stands for a whole blob unless git, its network or dtc was      *)
(* broken off at work, and a whole blob stays.                             *)
THEOREM HostIsRight ==
  HostSpec => [](BuiltIsNew /\ PassedMeansAll /\ OkIsWhole) /\ WholeStays
  BY HostIsXtask, HostIsScript, NothingStale, AllPassed, SuccessIsWhole,
     BlobStays, PTL
=============================================================================
