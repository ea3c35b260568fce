----------------------- MODULE MultiplayerSetupProofs -----------------------
(***************************************************************************)
(* What the setup tool leaves on the disk, for any set of levels, any      *)
(* kinds of lists and any number of stops on the way.                      *)
(*                                                                         *)
(* CountIsRight says nothing of the list that is being written, so it is   *)
(* strengthened by Writing: between its two pieces the count is one ahead, *)
(* and the layer is not listed yet.  FinishedIsComplete speaks of the end  *)
(* of a run only, and is strengthened by Progress: at every moment the     *)
(* levels the iterator has left behind, and in the level it is at the list *)
(* before the current one, are complete.                                   *)
(***************************************************************************)
EXTENDS MultiplayerSetup, TLAPS

\* The program is in the body of the loop over the levels.
InLevel == pc \in {"copy", "read", "write", "tail"}

\* The types without the bound on the counts, which follows from CountBound.
LooseTypes ==
    /\ kind \in [Levels -> [Lists -> Kinds]]
    /\ raised \in [Levels -> [Lists -> Nat]]
    /\ listed \in [Levels -> [Lists -> 0 .. 1]]
    /\ copied \subseteq Levels
    /\ missing \subseteq Inputs
    /\ pc \in {"off", "next", "copy", "read", "write", "tail", "finished"}
    /\ todo \subseteq Levels
    /\ level \in Levels
    /\ list \in Lists
    /\ torn \in [Levels -> [Lists -> Nat]]
    /\ crashes \in 0 .. MaxCrashes

\* A list is torn by a crash, and never raised unless it has a count.
CountBound ==
    \A l \in Levels, f \in Lists :
        /\ torn[l][f] <= crashes
        /\ kind[l][f] # "counted" => raised[l][f] = 0

\* A list that is written does not have the layer yet.
Writing ==
    /\ pc \in {"write", "tail"} => listed[level][list] = 0
    /\ pc = "tail" /\ kind[level][list] = "counted" =>
          raised[level][list] = torn[level][list] + 1

\* What this run has behind it.
PastCopy(l) == l \notin todo /\ (l = level => pc # "copy")
PastList(l, f) ==
    /\ l \notin todo
    /\ \/ l # level
       \/ pc \in {"next", "finished"}
       \/ pc \in {"read", "write", "tail"} /\ f # list /\ f = "ALLUSEDLAYERS"

Progress ==
    pc # "off" =>
        /\ InLevel => level \notin todo
        /\ pc = "copy" => list = "ALLUSEDLAYERS"
        /\ pc = "finished" => todo = {}
        /\ \A l \in Levels : PastCopy(l) => l \in copied
        /\ \A l \in Levels, f \in Lists :
              PastList(l, f) /\ kind[l][f] # "absent" => listed[l][f] = 1

IInv == LooseTypes /\ CountBound /\ CountIsRight /\ Writing /\ Progress

-----------------------------------------------------------------------------

\* What Raise, List and Crash do to a table of counters.
LEMMA BumpFacts ==
    ASSUME NEW t \in [Levels -> [Lists -> Nat]], NEW l \in Levels, NEW f \in Lists
    PROVE  LET u == [t EXCEPT ![l][f] = @ + 1]
           IN  /\ u \in [Levels -> [Lists -> Nat]]
               /\ u[l][f] = t[l][f] + 1
               /\ \A m \in Levels, g \in Lists :
                     ~(m = l /\ g = f) => u[m][g] = t[m][g]
OBVIOUS

\* NextList leaves the disk alone and moves past the current list only.
LEMMA NextListFacts ==
    ASSUME LooseTypes, NextList, UNCHANGED <<todo, level>>,
           pc \in {"read", "write", "tail"}
    PROVE  /\ pc' \in {"read", "next"}
           /\ list' \in Lists
           /\ \A l \in Levels, f \in Lists :
                 PastList(l, f)' /\ ~(l = level /\ f = list) => PastList(l, f)
           /\ \A l \in Levels : PastCopy(l)' => PastCopy(l)
BY DEF LooseTypes, NextList, PastList, PastCopy, Lists

LEMMA InitIInv == Init => IInv
BY SetupAssumption DEF Init, IInv, LooseTypes, CountBound, CountIsRight, Writing,
   Progress, Nowhere, Lists, InLevel, Inputs

\* Lists that are written: WriteShort, WriteHead and WriteTail.
LEMMA ListedBy ==
    ASSUME IInv, List, pc \in {"write", "tail"}
    PROVE  /\ listed' \in [Levels -> [Lists -> 0 .. 1]]
           /\ listed'[level][list] = 1
           /\ \A m \in Levels, g \in Lists :
                 ~(m = level /\ g = list) => listed'[m][g] = listed[m][g]
BY DEF IInv, LooseTypes, Writing, List

LEMMA RaisedBy ==
    ASSUME IInv, Raise
    PROVE  /\ raised' \in [Levels -> [Lists -> Nat]]
           /\ kind[level][list] = "counted" =>
                 raised'[level][list] = raised[level][list] + 1
           /\ kind[level][list] # "counted" =>
                 raised'[level][list] = raised[level][list]
           /\ \A m \in Levels, g \in Lists :
                 ~(m = level /\ g = list) => raised'[m][g] = raised[m][g]
<1>1. CASE kind[level][list] = "counted"
  <2>1. raised' = [raised EXCEPT ![level][list] = @ + 1]
    BY <1>1 DEF Raise
  <2> QED BY <1>1, <2>1, BumpFacts DEF IInv, LooseTypes
<1>2. CASE kind[level][list] # "counted"
  BY <1>2 DEF Raise, IInv, LooseTypes
<1> QED BY <1>1, <1>2

LEMMA StartIInv == IInv /\ Start => IInv'
BY DEF IInv, LooseTypes, CountBound, CountIsRight, Writing, Progress, Start,
   PastCopy, PastList, InLevel, diskVars

LEMMA NextLevelIInv == IInv /\ NextLevel => IInv'
BY DEF IInv, LooseTypes, CountBound, CountIsRight, Writing, Progress, NextLevel,
   PastCopy, PastList, InLevel, diskVars, Lists

LEMMA CopyFilesIInv == IInv /\ CopyFiles => IInv'
BY DEF IInv, LooseTypes, CountBound, CountIsRight, Writing, Progress, CopyFiles,
   PastCopy, PastList, InLevel, loopVars, Lists

LEMMA ReadListIInv == IInv /\ ReadList => IInv'
<1> SUFFICES ASSUME IInv, ReadList PROVE IInv'
  OBVIOUS
<1>1. UNCHANGED <<kind, raised, listed, copied, missing, todo, level, torn, crashes>>
  BY DEF ReadList, diskVars
<1>2. CASE Skips /\ NextList
  <2>1. /\ pc' \in {"read", "next"}
        /\ list' \in Lists
        /\ \A l \in Levels, f \in Lists :
              PastList(l, f)' /\ ~(l = level /\ f = list) => PastList(l, f)
        /\ \A l \in Levels : PastCopy(l)' => PastCopy(l)
    BY <1>1, <1>2, NextListFacts DEF IInv, ReadList
  <2>2. kind[level][list] # "absent" => listed[level][list] = 1
    BY <1>2 DEF Skips, IInv, LooseTypes
  <2>3. LooseTypes' /\ CountBound' /\ Writing'
    BY <1>1, <2>1 DEF IInv, LooseTypes, CountBound, Writing
  <2>4. CountIsRight'
    BY <1>1, <2>1 DEF IInv, ReadList, CountIsRight
  <2>5. Progress'
    BY <1>1, <2>1, <2>2 DEF IInv, ReadList, Progress, InLevel
  <2> QED BY <2>3, <2>4, <2>5 DEF IInv
<1>3. CASE /\ ~Skips
           /\ pc' = IF kind[level][list] = "unreadable" THEN "off" ELSE "write"
           /\ UNCHANGED list
  <2>1. listed[level][list] = 0
    BY <1>3 DEF Skips, IInv, LooseTypes
  <2>2. LooseTypes' /\ CountBound' /\ Writing' /\ CountIsRight'
    BY <1>1, <1>3, <2>1
    DEF IInv, ReadList, LooseTypes, CountBound, Writing, CountIsRight
  <2>3. Progress'
    BY <1>1, <1>3 DEF IInv, ReadList, Progress, PastCopy, PastList, InLevel
  <2> QED BY <2>2, <2>3 DEF IInv
<1> QED BY <1>2, <1>3 DEF ReadList

LEMMA WriteIInv == IInv /\ (WriteShort \/ WriteTail) => IInv'
<1> SUFFICES ASSUME IInv, WriteShort \/ WriteTail PROVE IInv'
  OBVIOUS
<1>1. /\ UNCHANGED <<kind, copied, missing, todo, level, torn, crashes>>
      /\ pc \in {"write", "tail"}
      /\ List
      /\ NextList
  BY DEF WriteShort, WriteTail
<1>2. /\ pc' \in {"read", "next"}
      /\ list' \in Lists
      /\ \A l \in Levels, f \in Lists :
            PastList(l, f)' /\ ~(l = level /\ f = list) => PastList(l, f)
      /\ \A l \in Levels : PastCopy(l)' => PastCopy(l)
  BY <1>1, NextListFacts DEF IInv
<1>3. /\ listed' \in [Levels -> [Lists -> 0 .. 1]]
      /\ listed'[level][list] = 1
      /\ \A m \in Levels, g \in Lists :
            ~(m = level /\ g = list) => listed'[m][g] = listed[m][g]
  BY <1>1, ListedBy
<1>4. /\ raised' \in [Levels -> [Lists -> Nat]]
      /\ kind[level][list] = "counted" =>
            raised'[level][list] = torn[level][list] + 1
      /\ kind[level][list] # "counted" =>
            raised'[level][list] = raised[level][list]
      /\ \A m \in Levels, g \in Lists :
            ~(m = level /\ g = list) => raised'[m][g] = raised[m][g]
  <2>1. CASE WriteShort
    <3>1. kind[level][list] = "counted" => raised[level][list] = torn[level][list]
      BY <2>1 DEF IInv, LooseTypes, CountIsRight, Writing, WriteShort
    <3> QED BY <2>1, <3>1, RaisedBy DEF WriteShort
  <2>2. CASE WriteTail
    BY <2>2 DEF IInv, LooseTypes, Writing, WriteTail
  <2> QED BY <2>1, <2>2
<1>5. level \in Levels /\ list \in Lists
  BY DEF IInv, LooseTypes
<1>6. LooseTypes' /\ Writing'
  BY <1>1, <1>2, <1>3, <1>4 DEF IInv, LooseTypes, Writing
<1>7. CountBound'
  BY <1>1, <1>4, <1>5 DEF IInv, CountBound
<1>8. CountIsRight'
  <2> SUFFICES ASSUME NEW l \in Levels, NEW f \in Lists, kind[l][f] = "counted"
               PROVE  raised'[l][f] = listed'[l][f] + torn[l][f]
    BY <1>1 DEF CountIsRight
  <2>1. torn[l][f] \in Nat
    BY DEF IInv, LooseTypes
  <2>2. CASE l = level /\ f = list
    BY <1>3, <1>4, <2>1, <2>2
  <2>3. CASE ~(l = level /\ f = list)
    BY <1>3, <1>4, <2>3 DEF IInv, CountIsRight
  <2> QED BY <2>2, <2>3
<1>9. Progress'
  BY <1>1, <1>2, <1>3 DEF IInv, Progress, InLevel
<1> QED BY <1>6, <1>7, <1>8, <1>9 DEF IInv

LEMMA WriteHeadIInv == IInv /\ WriteHead => IInv'
<1> SUFFICES ASSUME IInv, WriteHead PROVE IInv'
  OBVIOUS
<1>1. /\ UNCHANGED <<kind, listed, copied, missing, todo, level, list, torn, crashes>>
      /\ pc = "write" /\ pc' = "tail"
      /\ Raise
  BY DEF WriteHead, loopVars
<1>2. /\ raised' \in [Levels -> [Lists -> Nat]]
      /\ kind[level][list] = "counted" =>
            raised'[level][list] = raised[level][list] + 1
      /\ kind[level][list] # "counted" =>
            raised'[level][list] = raised[level][list]
      /\ \A m \in Levels, g \in Lists :
            ~(m = level /\ g = list) => raised'[m][g] = raised[m][g]
  BY <1>1, RaisedBy
<1>3. level \in Levels /\ list \in Lists /\ torn[level][list] \in Nat
  BY DEF IInv, LooseTypes
<1>4. kind[level][list] = "counted" => raised[level][list] = torn[level][list]
  BY <1>1, <1>3 DEF IInv, Writing, CountIsRight
<1>5. LooseTypes' /\ CountBound'
  BY <1>1, <1>2, <1>3 DEF IInv, LooseTypes, CountBound
<1>6. Writing' /\ CountIsRight'
  BY <1>1, <1>2, <1>3, <1>4 DEF IInv, Writing, CountIsRight
<1>7. Progress'
  BY <1>1 DEF IInv, Progress, PastCopy, PastList, InLevel
<1> QED BY <1>5, <1>6, <1>7 DEF IInv

LEMMA CrashIInv == IInv /\ Crash => IInv'
<1> SUFFICES ASSUME IInv, Crash PROVE IInv'
  OBVIOUS
<1>1. /\ UNCHANGED <<kind, raised, listed, copied, missing, todo, level, list>>
      /\ pc' = "off"
      /\ crashes' = crashes + 1 /\ crashes' \in 0 .. MaxCrashes
  BY SetupAssumption DEF Crash, diskVars, loopVars, IInv, LooseTypes
<1>2. /\ torn' \in [Levels -> [Lists -> Nat]]
      /\ pc = "tail" => torn'[level][list] = torn[level][list] + 1
      /\ pc # "tail" => torn'[level][list] = torn[level][list]
      /\ \A m \in Levels, g \in Lists :
            ~(m = level /\ g = list) => torn'[m][g] = torn[m][g]
  <2>1. CASE pc = "tail"
    <3>1. torn' = [torn EXCEPT ![level][list] = @ + 1]
      BY <2>1 DEF Crash
    <3> QED BY <2>1, <3>1, BumpFacts DEF IInv, LooseTypes
  <2>2. CASE pc # "tail"
    BY <2>2 DEF Crash, IInv, LooseTypes
  <2> QED BY <2>1, <2>2
<1>3. LooseTypes' /\ Writing' /\ Progress'
  BY <1>1, <1>2 DEF IInv, LooseTypes, Writing, Progress
<1>4. CountBound'
  <2> SUFFICES ASSUME NEW l \in Levels, NEW f \in Lists
               PROVE  torn'[l][f] <= crashes + 1
    BY <1>1 DEF IInv, CountBound
  <2>1. torn[l][f] <= crashes /\ torn[l][f] \in Nat /\ crashes \in Nat
    BY DEF IInv, CountBound, LooseTypes
  <2>2. torn'[l][f] \in {torn[l][f], torn[l][f] + 1}
    BY <1>2
  <2> QED BY <2>1, <2>2
<1>5. CountIsRight'
  <2> SUFFICES ASSUME NEW l \in Levels, NEW f \in Lists, kind[l][f] = "counted"
               PROVE  raised[l][f] = listed[l][f] + torn'[l][f]
    BY <1>1 DEF CountIsRight
  <2>1. torn[l][f] \in Nat /\ listed[l][f] \in Nat
    BY DEF IInv, LooseTypes
  <2>2. CASE l = level /\ f = list /\ pc = "tail"
    BY <1>2, <2>1, <2>2 DEF IInv, Writing
  <2>3. CASE ~(l = level /\ f = list /\ pc = "tail")
    BY <1>2, <2>1, <2>3 DEF IInv, CountIsRight
  <2> QED BY <2>2, <2>3
<1> QED BY <1>3, <1>4, <1>5 DEF IInv

LEMMA FinishIInv == IInv /\ Finish => IInv'
BY DEF IInv, LooseTypes, CountBound, CountIsRight, Writing, Progress, Finish,
   PastCopy, PastList, InLevel, diskVars, loopVars

LEMMA ProvideIInv == IInv /\ Provide => IInv'
BY DEF IInv, LooseTypes, CountBound, CountIsRight, Writing, Progress, Provide,
   PastCopy, PastList, InLevel, diskVars, loopVars

LEMMA NextIInv == IInv /\ [Next]_vars => IInv'
<1>1. IInv /\ UNCHANGED vars => IInv'
  BY DEF IInv, LooseTypes, CountBound, CountIsRight, Writing, Progress, PastCopy,
     PastList, InLevel, vars, diskVars, loopVars
<1> QED
  BY <1>1, StartIInv, NextLevelIInv, CopyFilesIInv, ReadListIInv, WriteIInv,
     WriteHeadIInv, CrashIInv, FinishIInv, ProvideIInv DEF Next, Program

THEOREM Invariance == Spec => []IInv
BY InitIInv, NextIInv, PTL DEF Spec

-----------------------------------------------------------------------------

\* However often the program is stopped and run again, a count has grown by at
\* most one for the layer and one for each stop, and the layer is listed at most
\* once.
THEOREM TypeCorrect == Spec => []TypeOK
<1>1. IInv => TypeOK
  <2> SUFFICES ASSUME IInv PROVE TypeOK
    OBVIOUS
  <2>1. torn \in [Levels -> [Lists -> 0 .. MaxCrashes]]
    BY SetupAssumption DEF IInv, LooseTypes, CountBound
  <2>2. ASSUME NEW l \in Levels, NEW f \in Lists
        PROVE  raised[l][f] \in 0 .. MaxCrashes + 1
    <3>1. /\ raised[l][f] \in Nat
          /\ listed[l][f] \in 0 .. 1
          /\ torn[l][f] \in 0 .. MaxCrashes
          /\ MaxCrashes \in Nat
      BY <2>1, SetupAssumption DEF IInv, LooseTypes
    <3>2. CASE kind[l][f] # "counted"
      BY <3>1, <3>2 DEF IInv, CountBound
    <3>3. CASE kind[l][f] = "counted" /\ pc = "tail" /\ level = l /\ list = f
      BY <3>1, <3>3 DEF IInv, Writing
    <3>4. CASE kind[l][f] = "counted" /\ ~(pc = "tail" /\ level = l /\ list = f)
      BY <3>1, <3>4 DEF IInv, CountIsRight
    <3> QED BY <3>2, <3>3, <3>4
  <2>3. raised \in [Levels -> [Lists -> 0 .. MaxCrashes + 1]]
    BY <2>2 DEF IInv, LooseTypes
  <2> QED BY <2>1, <2>3 DEF IInv, LooseTypes, TypeOK
<1> QED BY <1>1, Invariance, PTL

\* The first line of a list counts its layers: only a stop between two pieces of
\* the list puts it out, by one each time, and no later run repairs or worsens it.
THEOREM CountSafety == Spec => []CountIsRight
<1>1. IInv => CountIsRight
  BY DEF IInv
<1> QED BY <1>1, Invariance, PTL

\* When the program ends without an exception, every level has the files and every
\* list that exists has the layer.
THEOREM FinishSafety == Spec => []FinishedIsComplete
<1>1. IInv => FinishedIsComplete
  BY DEF IInv, LooseTypes, Progress, PastCopy, PastList, FinishedIsComplete
<1> QED BY <1>1, Invariance, PTL

\* modifyFile leaves a list that has the layer as it is.
THEOREM RerunSafety == Spec => RerunChangesNothing
<1> DEFINE Kept == \A l \in Levels, f \in Lists :
              listed[l][f] > 0 => raised'[l][f] = raised[l][f]
                                  /\ listed'[l][f] = listed[l][f]
<1>1. IInv /\ [Next]_vars => [Kept]_vars
  <2> SUFFICES ASSUME IInv, Next, NEW l \in Levels, NEW f \in Lists,
                      listed[l][f] > 0
               PROVE  raised'[l][f] = raised[l][f] /\ listed'[l][f] = listed[l][f]
    OBVIOUS
  <2>1. CASE WriteShort \/ WriteHead \/ WriteTail
    <3>1. ~(l = level /\ f = list) /\ pc \in {"write", "tail"}
      BY <2>1 DEF IInv, LooseTypes, Writing, WriteShort, WriteHead, WriteTail
    <3>2. raised'[l][f] = raised[l][f]
      BY <2>1, <3>1, RaisedBy DEF WriteShort, WriteHead, WriteTail
    <3>3. listed'[l][f] = listed[l][f]
      BY <2>1, <3>1, ListedBy DEF WriteShort, WriteHead, WriteTail
    <3> QED BY <3>2, <3>3
  <2>2. CASE ~(WriteShort \/ WriteHead \/ WriteTail)
    BY <2>2 DEF Next, Program, Start, NextLevel, CopyFiles, ReadList, Finish, Crash,
       Provide, diskVars
  <2> QED BY <2>1, <2>2
<1> QED BY <1>1, Invariance, PTL DEF Spec, RerunChangesNothing
=============================================================================
