-------------------------- MODULE MultiplayerSetup --------------------------
(***************************************************************************)
(* The setup tool, MultiplayerSetup/Source.cpp: it copies the fake players *)
(* into every level of an installed game and enters their layer in two     *)
(* lists per level, whose first line counts the layers.                    *)
(*                                                                         *)
(* A list is rewritten in place: the lines are read, the count is raised,  *)
(* and all is written over the old text.  The stream is buffered, so that  *)
(* a long list reaches the disk in several pieces, the count with the      *)
(* first and the new layer with the last.  The user may stop the program   *)
(* between any two of them, and run it again.                              *)
(***************************************************************************)
EXTENDS Naturals

CONSTANTS
    Levels,      \* directories in ../Levels
    MaxCrashes   \* bound: how often the program is stopped on its way

ASSUME SetupAssumption == Levels # {} /\ MaxCrashes \in Nat

Lists == {"ALLUSEDLAYERS", "INITIALOBJECTLAYERS"}

\* A list as the game ships it: there may be none, it may have no line with the
\* count, or one in which stoi finds no number.
Kinds == {"absent", "plain", "counted", "unreadable"}

\* filesToCopy and bilboAnimFile
Inputs == {"filesToCopy", "bilboAnimFile"}

VARIABLES
    kind,      \* of each list
    raised,    \* how much the count of each list has grown
    listed,    \* lines of each list that name FAKE_HOBBITS
    copied,    \* levels that have the files of filesToCopy
    missing,   \* which of the files to copy are not there
    pc,        \* where the program is
    todo,      \* levels the directory_iterator has not come to
    level,     \* the one it is at
    list,      \* the list it is at
    torn,      \* history: times the program was stopped inside each list
    crashes    \* times it was stopped

diskVars == <<raised, listed, copied>>
loopVars == <<todo, level, list>>
vars == <<kind, diskVars, missing, pc, loopVars, torn, crashes>>

TypeOK ==
    /\ kind \in [Levels -> [Lists -> Kinds]]
    /\ raised \in [Levels -> [Lists -> 0 .. MaxCrashes + 1]]
    /\ listed \in [Levels -> [Lists -> 0 .. 1]]
    /\ copied \subseteq Levels
    /\ missing \subseteq Inputs
    /\ pc \in {"off", "next", "copy", "read", "write", "tail", "finished"}
    /\ todo \subseteq Levels
    /\ level \in Levels
    /\ list \in Lists
    /\ torn \in [Levels -> [Lists -> 0 .. MaxCrashes]]
    /\ crashes \in 0 .. MaxCrashes

Nowhere == [l \in Levels |-> [f \in Lists |-> 0]]

Init ==
    /\ kind \in [Levels -> [Lists -> Kinds]]
    /\ raised = Nowhere
    /\ listed = Nowhere
    /\ copied = {}
    /\ missing \in SUBSET Inputs
    /\ pc = "off"
    /\ todo = {}
    /\ level \in Levels
    /\ list = "ALLUSEDLAYERS"
    /\ torn = Nowhere
    /\ crashes = 0

-----------------------------------------------------------------------------

\* main
Start ==
    /\ pc \in {"off", "finished"}
    /\ pc' = "next"
    /\ todo' = Levels
    /\ UNCHANGED <<kind, diskVars, missing, level, list, torn, crashes>>

\* Mutation of NextLevel: the iterator is not advanced.
NextLevelAgain ==
    /\ pc = "next"
    /\ level' \in todo
    /\ list' = "ALLUSEDLAYERS"
    /\ pc' = "copy"
    /\ UNCHANGED <<kind, diskVars, missing, todo, torn, crashes>>

\* The next directory, in the order in which the file system yields them.
NextLevel ==
    /\ pc = "next"
    /\ level' \in todo
    /\ todo' = todo \ {level'}
    /\ list' = "ALLUSEDLAYERS"
    /\ pc' = "copy"
    /\ UNCHANGED <<kind, diskVars, missing, torn, crashes>>

\* copyFiles: fs::copy throws if a file is missing, and nobody catches it.
CopyFiles ==
    /\ pc = "copy"
    /\ IF "filesToCopy" \notin missing
         THEN copied' = copied \cup {level} /\ pc' = "read"
         ELSE pc' = "off" /\ UNCHANGED copied
    /\ UNCHANGED <<kind, raised, listed, missing, loopVars, torn, crashes>>

\* After the first list comes the second, after that the next level.
NextList ==
    IF list = "ALLUSEDLAYERS"
      THEN list' = "INITIALOBJECTLAYERS" /\ pc' = "read"
      ELSE pc' = "next" /\ UNCHANGED list

\* Mutation of Skips: a list that names the layer is extended again.
SkipsAbsent == kind[level][list] = "absent"

\* modifyFile returns at once if the list cannot be opened or has the layer.
Skips == kind[level][list] = "absent" \/ listed[level][list] > 0

\* modifyFile reads the list.  stoi throws if the count is none.
ReadList ==
    /\ pc = "read"
    /\ \/ Skips /\ NextList
       \/ /\ ~Skips
          /\ pc' = IF kind[level][list] = "unreadable" THEN "off" ELSE "write"
          /\ UNCHANGED list
    /\ UNCHANGED <<kind, diskVars, missing, todo, level, torn, crashes>>

Raise ==
    raised' = IF kind[level][list] = "counted"
                THEN [raised EXCEPT ![level][list] = @ + 1]
                ELSE raised
List == listed' = [listed EXCEPT ![level][list] = @ + 1]

\* Mutation of WriteShort: the count is not written.
WriteShortUncounted ==
    /\ pc = "write"
    /\ List
    /\ NextList
    /\ UNCHANGED <<kind, raised, copied, missing, todo, level, torn, crashes>>

\* A list that fits into the buffer is written when it is closed.
WriteShort ==
    /\ pc = "write"
    /\ Raise
    /\ List
    /\ NextList
    /\ UNCHANGED <<kind, copied, missing, todo, level, torn, crashes>>

\* A longer one is written in pieces.
WriteHead ==
    /\ pc = "write"
    /\ Raise
    /\ pc' = "tail"
    /\ UNCHANGED <<kind, listed, copied, missing, loopVars, torn, crashes>>

\* Mutation of WriteTail: the second list is taken for done with the first.
WriteTailOnce ==
    /\ pc = "tail"
    /\ List
    /\ pc' = "next"
    /\ UNCHANGED <<kind, raised, copied, missing, loopVars, torn, crashes>>

WriteTail ==
    /\ pc = "tail"
    /\ List
    /\ NextList
    /\ UNCHANGED <<kind, raised, copied, missing, todo, level, torn, crashes>>

\* The animations are copied last.
Finish ==
    /\ pc = "next"
    /\ todo = {}
    /\ pc' = IF "bilboAnimFile" \notin missing THEN "finished" ELSE "off"
    /\ UNCHANGED <<kind, diskVars, missing, loopVars, torn, crashes>>

\* The program is stopped, maybe between the pieces of a list.
Crash ==
    /\ pc \notin {"off", "finished"}
    /\ crashes < MaxCrashes
    /\ crashes' = crashes + 1
    /\ pc' = "off"
    /\ torn' = IF pc = "tail" THEN [torn EXCEPT ![level][list] = @ + 1] ELSE torn
    /\ UNCHANGED <<kind, diskVars, missing, loopVars>>

\* The user puts a missing file next to the program.
Provide ==
    /\ \E x \in missing : missing' = missing \ {x}
    /\ UNCHANGED <<kind, diskVars, pc, loopVars, torn, crashes>>

-----------------------------------------------------------------------------

Program == \/ NextLevel
           \/ CopyFiles
           \/ ReadList
           \/ WriteShort
           \/ WriteHead
           \/ WriteTail
           \/ Finish

Next == Start \/ Program \/ Crash \/ Provide

Spec == Init /\ [][Next]_vars

\* The program runs, and the user starts it until it has finished and provides
\* what is missing.
Fairness ==
    /\ WF_vars(Program)
    /\ WF_vars(pc = "off" /\ Start)
    /\ WF_vars(Provide)

LiveSpec == Spec /\ Fairness

-----------------------------------------------------------------------------
(* Properties *)

\* The count of a list at rest is one more than it was if the layer is listed, and
\* the same if not, whatever runs, failures and crashes there were, but for one
\* thing: each stop between the pieces of the list has raised the count for good,
\* because the next run finds no layer and counts again.
CountIsRight ==
    \A l \in Levels, f \in Lists :
        kind[l][f] = "counted" /\ ~(pc = "tail" /\ level = l /\ list = f) =>
            raised[l][f] = listed[l][f] + torn[l][f]

\* The program says that it has finished only when every list there is has the
\* layer and every level the files.
FinishedIsComplete ==
    pc = "finished" =>
        /\ copied = Levels
        /\ \A l \in Levels, f \in Lists : kind[l][f] # "absent" => listed[l][f] = 1

\* A list that has the layer is never written again: the program may be run as
\* often as one likes.
RerunChangesNothing ==
    [][\A l \in Levels, f \in Lists :
          listed[l][f] > 0 => raised'[l][f] = raised[l][f]
                              /\ listed'[l][f] = listed[l][f]]_vars

\* If every count can be read, the setup finishes in the end: whatever a run left
\* behind when it was stopped or threw, the next can take up.
SetUpInTheEnd ==
    (\A l \in Levels, f \in Lists : kind[l][f] # "unreadable") ~> pc = "finished"
=============================================================================
