----------------------- MODULE CredentialsFile_proofs -----------------------
(***************************************************************************)
(* What CredentialsFile promises, for any number of commands and profiles. *)
(*                                                                         *)
(* The inductive invariant rests on one fact about a command that has      *)
(* overlapped with none: what it read is what the file was until it        *)
(* truncated it, and what it will write is that with its own profile       *)
(* replaced (ReadAlone). From it follow, as long as nothing was disturbed, *)
(* that the file is tidy (FileIsTidy), that no later save drops what an    *)
(* earlier one delivered (SavedStays), and that each save is a step of     *)
(* ProfileRegister (RegisterStep).                                         *)
(***************************************************************************)
EXTENDS CredentialsFile, TLAPS

\* The keys of a profile belong together.
Tidy(c) ==
    /\ c # Torn
    /\ \A q \in Profiles :
          \/ c[q] \in {All(None), All(Old)}
          \/ \E p \in Procs : c[q] = All(p) /\ cmd[p].profile = q

\* The profile of p has the keys of p, or of a later command for it.
Holds(c, p) ==
    \E q \in Procs : cmd[q].profile = cmd[p].profile /\ c[cmd[p].profile] = All(q)

Delivered(p) == Saves(cmd[p]) /\ (pc[p] = "delivered" \/ status[p] = 0)

\* Who saves and has overlapped with none is the only one that saves.
SavesAlone == \A p, q \in Saving : p \notin overlapped => q = p

ReadAlone ==
    \A p \in Procs \ overlapped :
        /\ pc[p] \in {"reading", "loaded"} => seen[p] = file
        /\ pc[p] \in {"loaded", "truncated"} =>
              seen[p] # Torn /\ mem[p] = SaveCredentialEntry(seen[p], p)
        /\ pc[p] = "truncated" => file = Nothing

FileIsTidy == Undisturbed => Tidy(file) /\ \A p \in Saving : Tidy(seen[p])

\* Only who is asked to save does, and knows what; who declines does not.
SavesIfAsked ==
    \A p \in Procs :
        /\ p \in Saving => Saves(cmd[p])
        /\ pc[p] = "obtained" => cmd[p].known
        /\ pc[p] = "declined" => ~cmd[p].known

\* Only who has ended has a status; a write that was begun and not finished
\* never ends with 0.
StatusIsLast ==
    /\ \A p \in Procs : status[p] # None => pc[p] = "ended"
    /\ \A p \in broken : pc[p] = "ended" /\ status[p] # 0

SavedStays ==
    Undisturbed =>
        \A p \in Procs : Delivered(p) =>
            /\ Holds(file, p) \/ \E q \in Procs : pc[q] = "truncated"
            /\ \A q \in Saving : Holds(seen[q], p)

IInv ==
    /\ TypeOK
    /\ SavesAlone
    /\ ReadAlone
    /\ SavesIfAsked
    /\ StatusIsLast
    /\ FileIsTidy
    /\ SavedStays

----------------------------------------------------------------------------
(* Types                                                                   *)

LEMMA AllTyped == ASSUME NEW v \in Values PROVE All(v) \in Sections
BY DEF All, Sections

LEMMA NothingTyped == Nothing \in Contents
BY AllTyped DEF Nothing, Contents, Values

LEMMA SplicedTyped ==
    ASSUME NEW x \in Contents \cup {Torn}, NEW y \in Contents \cup {Torn}
    PROVE  Spliced(x, y) \subseteq Contents \cup {Torn}
<1> SUFFICES ASSUME x # Torn, y # Torn,
                    NEW first \in SUBSET Profiles, NEW seam \in Profiles,
                    NEW left \in SUBSET Keys
             PROVE  [q \in Profiles |->
                        IF q = seam THEN [k \in Keys |-> IF k \in left THEN x[q][k] ELSE Lost]
                        ELSE IF q \in first THEN x[q] ELSE y[q]] \in Contents
  BY DEF Spliced
<1>1. [k \in Keys |-> IF k \in left THEN x[seam][k] ELSE Lost] \in Sections
  BY DEF Sections, Contents, Values
<1> QED BY <1>1 DEF Contents

LEMMA SavedTyped ==
    ASSUME TypeOK, NEW p \in Procs, NEW c \in Contents
    PROVE  SaveCredentialEntry(c, p) \in Contents
BY AllTyped DEF SaveCredentialEntry, Contents, Values

\* A step that leaves the contents alone.
LEMMA ExitTyped ==
    ASSUME TypeOK, NEW p \in Procs,
           NEW err \in {"none", "panic", "port", "locked", "other"},
           Exit(p, err)
    PROVE  pc' \in [Procs -> {"idle", "obtained", "declined", "reading", "loaded",
                              "truncated", "delivered", "ended"}]
           /\ status' \in [Procs -> {None, 0, 1, 2, 125}]
<1>1. ExitStatus(err) \in {0, 1, 2, 125}
  BY DEF ExitStatus
<1> QED BY <1>1 DEF TypeOK, Exit, Goto

LEMMA InitTyped == Init => TypeOK
<1> SUFFICES ASSUME Init PROVE TypeOK
  OBVIOUS
<1>1. file \in Contents
  <2>1. All(Old) \in Sections /\ All(None) \in Sections
    BY AllTyped DEF Values
  <2> QED BY <2>1 DEF Init, Contents
<1> QED BY <1>1, NothingTyped, FileAssumption DEF Init, TypeOK

LEMMA NextTyped == TypeOK /\ [Next]_vars => TypeOK'
<1> SUFFICES ASSUME TypeOK, [Next]_vars PROVE TypeOK'
  OBVIOUS
<1>1. ASSUME NEW p \in Procs, Obtain(p) \/ Declines(p) \/ PrintOut(p) PROVE TypeOK'
  BY <1>1 DEF TypeOK, Obtain, Declines, PrintOut, Goto
<1>2. ASSUME NEW p \in Procs,
             \/ ObtainFails(p) \/ PrintPanics(p) \/ InvalidOutput(p)
             \/ SaveFails(p) \/ PostRun(p)
      PROVE  TypeOK'
  <2>1. \E err \in {"none", "panic", "port", "locked", "other"} : Exit(p, err)
    BY <1>2 DEF ObtainFails, PrintPanics, InvalidOutput, SaveFails, PostRun,
                ObtainErrors
  <2>2. UNCHANGED <<file, cmd, seen, mem, broken, overlapped>>
    BY <1>2 DEF ObtainFails, PrintPanics, InvalidOutput, SaveFails, PostRun
  <2> QED BY <2>1, <2>2, ExitTyped DEF TypeOK
<1>3. ASSUME NEW p \in Procs, Touch(p) PROVE TypeOK'
  BY <1>3 DEF TypeOK, Touch, Goto, Saving
<1>4. ASSUME NEW p \in Procs, Load(p) PROVE TypeOK'
  <2>1. seen[p] \in Contents \cup {Torn} /\ file \in Contents \cup {Torn}
    BY DEF TypeOK
  <2>2. Read(seen[p], file) \subseteq Contents \cup {Torn}
    BY <2>1, SplicedTyped DEF Read
  <2>3. PICK c \in Read(seen[p], file) \ {Torn} :
           mem' = [mem EXCEPT ![p] = SaveCredentialEntry(c, p)]
    BY <1>4 DEF Load
  <2>4. SaveCredentialEntry(c, p) \in Contents
    BY <2>2, <2>3, SavedTyped
  <2> QED BY <1>4, <2>3, <2>4 DEF TypeOK, Load, Goto
<1>5. ASSUME NEW p \in Procs, Truncate(p) PROVE TypeOK'
  BY <1>5, NothingTyped DEF TypeOK, Truncate, Goto
<1>6. ASSUME NEW p \in Procs, Write(p) \/ WriteFails(p) PROVE TypeOK'
  <2>1. mem[p] \in Contents /\ file \in Contents \cup {Torn}
    BY DEF TypeOK
  <2>2. file' \in Contents \cup {Torn}
    BY <1>6, <2>1, SplicedTyped DEF Write, WriteFails
  <2>3. CASE Write(p)
    BY <2>2, <2>3 DEF TypeOK, Write, Goto
  <2>4. CASE WriteFails(p)
    BY <2>2, <2>4, ExitTyped DEF TypeOK, WriteFails
  <2> QED BY <1>6, <2>3, <2>4
<1>7. ASSUME NEW p \in Procs, Kill(p) PROVE TypeOK'
  BY <1>7 DEF TypeOK, Kill, Goto
<1>8. CASE UNCHANGED vars
  BY <1>8 DEF TypeOK, vars
<1> QED BY <1>1, <1>2, <1>3, <1>4, <1>5, <1>6, <1>7, <1>8 DEF Next

\* Types hold, and no exit status gets out but 0, 1, 2 and 125, whatever the
\* error's own (main.go:60).
THEOREM TypeCorrect == Spec => []TypeOK
BY InitTyped, NextTyped, PTL DEF Spec

----------------------------------------------------------------------------
(* The inductive invariant                                                 *)

\* What each kind of step does to who saves, and to what they read.
LEMMA AloneNext ==
    TypeOK /\ SavesAlone /\ ReadAlone /\ [Next]_vars => SavesAlone' /\ ReadAlone'
<1> SUFFICES ASSUME TypeOK, SavesAlone, ReadAlone, [Next]_vars
             PROVE  SavesAlone' /\ ReadAlone'
  OBVIOUS
<1> USE DEF SavesAlone, ReadAlone, Saving, SaveCredentialEntry
<1>1. ASSUME NEW p \in Procs, Obtain(p) \/ Declines(p) \/ PrintOut(p) PROVE SavesAlone' /\ ReadAlone'
  BY <1>1 DEF TypeOK, Obtain, Declines, PrintOut, Goto
<1>2. ASSUME NEW p \in Procs,
             \/ ObtainFails(p) \/ PrintPanics(p) \/ InvalidOutput(p)
             \/ SaveFails(p) \/ PostRun(p)
      PROVE  SavesAlone' /\ ReadAlone'
  BY <1>2 DEF TypeOK, ObtainFails, PrintPanics, InvalidOutput, SaveFails, PostRun,
              Exit, Goto
<1>3. ASSUME NEW p \in Procs, Touch(p) PROVE SavesAlone' /\ ReadAlone'
  BY <1>3 DEF TypeOK, Touch, Goto
<1>4. ASSUME NEW p \in Procs, Load(p) PROVE SavesAlone' /\ ReadAlone'
  <2>1. PICK c \in Read(seen[p], file) \ {Torn} :
           mem' = [mem EXCEPT ![p] = SaveCredentialEntry(c, p)]
    BY <1>4 DEF Load
  <2>2. p \notin overlapped => c = seen[p]
    BY <1>4, <2>1 DEF Load, Read
  <2>3. /\ pc[p] = "reading" /\ pc' = [pc EXCEPT ![p] = "loaded"]
        /\ UNCHANGED <<file, cmd, seen, overlapped>>
    BY <1>4 DEF Load, Goto
  <2>4. SavesAlone'
    BY <2>3 DEF TypeOK
  <2>5. ASSUME NEW q \in Procs \ overlapped, q # p
        PROVE  pc'[q] = pc[q] /\ mem'[q] = mem[q]
    BY <2>1, <2>3, <2>5 DEF TypeOK
  <2>6. p \notin overlapped =>
           seen[p] = file /\ seen[p] # Torn /\ mem'[p] = SaveCredentialEntry(seen[p], p)
    BY <2>1, <2>2, <2>3 DEF TypeOK
  <2>7. pc'[p] = "loaded"
    BY <2>3 DEF TypeOK
  <2>8. ReadAlone'
    <3> HIDE DEF SaveCredentialEntry
    <3>1. \A q \in Procs : SaveCredentialEntry(seen[q], q)' = SaveCredentialEntry(seen[q], q)
      BY <2>3 DEF SaveCredentialEntry
    <3> QED BY <2>3, <2>5, <2>6, <2>7, <3>1 DEF TypeOK
  <2> QED BY <2>4, <2>8
<1>5. ASSUME NEW p \in Procs, Truncate(p) PROVE SavesAlone' /\ ReadAlone'
  BY <1>5 DEF TypeOK, Truncate, Goto
<1>6. ASSUME NEW p \in Procs, Write(p) \/ WriteFails(p) \/ Kill(p)
      PROVE  SavesAlone' /\ ReadAlone'
  BY <1>6 DEF TypeOK, Write, WriteFails, Kill, Exit, Goto
<1>7. CASE UNCHANGED vars
  BY <1>7 DEF vars
<1> QED BY <1>1, <1>2, <1>3, <1>4, <1>5, <1>6, <1>7 DEF Next

LEMMA AskedNext == TypeOK /\ SavesIfAsked /\ [Next]_vars => SavesIfAsked'
<1> SUFFICES ASSUME TypeOK, SavesIfAsked, [Next]_vars PROVE SavesIfAsked'
  OBVIOUS
<1> USE DEF TypeOK, SavesIfAsked, Saves, Saving
<1>1. ASSUME NEW p \in Procs,
             \/ Obtain(p) \/ Declines(p) \/ PrintOut(p) \/ Touch(p) \/ Load(p)
             \/ Truncate(p) \/ Write(p) \/ Kill(p)
      PROVE  SavesIfAsked'
  BY <1>1 DEF Obtain, Declines, PrintOut, Touch, Load, Truncate, Write, Kill, Goto
<1>2. ASSUME NEW p \in Procs,
             \/ ObtainFails(p) \/ PrintPanics(p) \/ InvalidOutput(p)
             \/ SaveFails(p) \/ PostRun(p) \/ WriteFails(p)
      PROVE  SavesIfAsked'
  BY <1>2 DEF ObtainFails, PrintPanics, InvalidOutput, SaveFails, PostRun, WriteFails,
              Exit, Goto
<1>3. CASE UNCHANGED vars
  BY <1>3 DEF vars
<1> QED BY <1>1, <1>2, <1>3 DEF Next

LEMMA StatusNext == TypeOK /\ StatusIsLast /\ [Next]_vars => StatusIsLast'
<1> SUFFICES ASSUME TypeOK, StatusIsLast, [Next]_vars PROVE StatusIsLast'
  OBVIOUS
<1> USE DEF TypeOK, StatusIsLast
<1>1. ASSUME NEW p \in Procs,
             \/ Obtain(p) \/ Declines(p) \/ PrintOut(p) \/ Touch(p) \/ Load(p)
             \/ Truncate(p) \/ Write(p)
      PROVE  StatusIsLast'
  BY <1>1 DEF Obtain, Declines, PrintOut, Touch, Load, Truncate, Write, Goto
<1>2. ASSUME NEW p \in Procs,
             \/ ObtainFails(p) \/ PrintPanics(p) \/ InvalidOutput(p)
             \/ SaveFails(p) \/ PostRun(p)
      PROVE  StatusIsLast'
  BY <1>2 DEF ObtainFails, PrintPanics, InvalidOutput, SaveFails, PostRun, Exit, Goto
<1>3. ASSUME NEW p \in Procs, WriteFails(p) PROVE StatusIsLast'
  BY <1>3 DEF WriteFails, Exit, ExitStatus, Goto
<1>4. ASSUME NEW p \in Procs, Kill(p) PROVE StatusIsLast'
  <2>1. status[p] # 0
    BY <1>4, FileAssumption DEF Kill, Running
  <2> QED BY <1>4, <2>1 DEF Kill, Running, Goto
<1>5. CASE UNCHANGED vars
  BY <1>5 DEF vars
<1> QED BY <1>1, <1>2, <1>3, <1>4, <1>5 DEF Next

\* Nothing is ever undone that disturbed the file, and no command changes.
LEMMA HistoryGrows == [Next]_vars => cmd' = cmd /\ (Undisturbed' => Undisturbed)
BY DEF Next, vars, Undisturbed, Obtain, Declines, ObtainFails, PrintOut, PrintPanics,
       InvalidOutput, Touch,
       Load, Truncate, Write, WriteFails, SaveFails, PostRun, Kill

LEMMA TidyStays == ASSUME NEW c, Tidy(c), cmd' = cmd PROVE Tidy(c)'
BY DEF Tidy

LEMMA NothingIsTidy == Tidy(Nothing)
BY NothingTyped, FileAssumption DEF Tidy, Nothing

\* Three keys in one profile leave every profile with keys of one command.
LEMMA SavedIsTidy ==
    ASSUME NEW p \in Procs, NEW c \in Contents, Tidy(c), TypeOK
    PROVE  Tidy(SaveCredentialEntry(c, p))
<1>1. SaveCredentialEntry(c, p) # Torn
  BY SavedTyped, FileAssumption
<1>2. \A q \in Profiles :
         SaveCredentialEntry(c, p)[q] = IF q = cmd[p].profile THEN All(p) ELSE c[q]
  BY DEF SaveCredentialEntry, Contents
<1> QED BY <1>1, <1>2 DEF Tidy

\* While nothing is disturbed, a step changes the file in one of three ways.
LEMMA UndisturbedStep ==
    ASSUME IInv, [Next]_vars, Undisturbed'
    PROVE  \/ /\ file' = file
              /\ \A q \in Procs : pc[q] = "truncated" <=> pc'[q] = "truncated"
           \/ /\ file' = Nothing
              /\ \E p \in Saving : pc'[p] = "truncated"
           \/ \E p \in Saving :
                 /\ Saving = {p} /\ Saving' = {}
                 /\ seen[p] \in Contents
                 /\ file' = SaveCredentialEntry(seen[p], p)
                 /\ pc' = [pc EXCEPT ![p] = "delivered"]
                 /\ status' = status
<1> USE DEF IInv, TypeOK
<1>1. Undisturbed
  BY HistoryGrows
<1>2. ASSUME NEW p \in Procs,
             \/ Obtain(p) \/ Declines(p) \/ PrintOut(p) \/ Touch(p) \/ Load(p)
             \/ ObtainFails(p) \/ PrintPanics(p) \/ InvalidOutput(p)
             \/ SaveFails(p) \/ PostRun(p)
      PROVE  file' = file /\ \A q \in Procs : pc[q] = "truncated" <=> pc'[q] = "truncated"
  BY <1>2 DEF Obtain, Declines, PrintOut, Touch, Load, ObtainFails, PrintPanics,
              InvalidOutput, SaveFails,
              PostRun, Exit, Goto
<1>3. ASSUME NEW p \in Procs, Kill(p)
      PROVE  file' = file /\ \A q \in Procs : pc[q] = "truncated" <=> pc'[q] = "truncated"
  <2>1. pc[p] # "truncated"
    BY <1>3 DEF Kill, Undisturbed
  <2> QED BY <1>3, <2>1 DEF Kill, Goto
<1>4. ASSUME NEW p \in Procs, Truncate(p)
      PROVE  file' = Nothing /\ \E q \in Saving : pc'[q] = "truncated"
  BY <1>4 DEF Truncate, Goto, Saving
<1>5. ASSUME NEW p \in Procs, Write(p)
      PROVE  /\ Saving = {p} /\ Saving' = {}
             /\ seen[p] \in Contents
             /\ file' = SaveCredentialEntry(seen[p], p)
             /\ pc' = [pc EXCEPT ![p] = "delivered"]
             /\ status' = status
  <2>1. p \in Saving /\ p \notin overlapped
    BY <1>1, <1>5 DEF Write, Saving, Undisturbed
  <2>2. Saving = {p}
    BY <2>1 DEF SavesAlone, Saving
  <2>3. /\ seen[p] \in Contents
        /\ mem[p] = SaveCredentialEntry(seen[p], p)
        /\ file = Nothing
    BY <1>5, <2>1 DEF ReadAlone, Write
  <2>4. file' = SaveCredentialEntry(seen[p], p)
    BY <1>5, <2>3 DEF Write
  <2> QED BY <1>5, <2>2, <2>3, <2>4 DEF Write, Goto, Saving
<1>6. ASSUME NEW p \in Procs, WriteFails(p) PROVE FALSE
  BY <1>6 DEF WriteFails, Undisturbed
<1>7. CASE UNCHANGED vars
  BY <1>7 DEF vars
<1>8. \A p \in Procs : Write(p) => p \in Saving
  BY DEF Write, Saving
<1> QED BY <1>2, <1>3, <1>4, <1>5, <1>6, <1>7, <1>8 DEF Next

\* A command begins to save only when no other does, and finds the file as it is.
LEMMA SavingStep ==
    ASSUME IInv, [Next]_vars, Undisturbed', NEW p \in Saving'
    PROVE  \/ p \in Saving /\ seen'[p] = seen[p]
           \/ Saving = {} /\ seen'[p] = file
<1> USE DEF IInv, TypeOK, Saving
<1>1. ASSUME NEW q \in Procs, Touch(q)
      PROVE  \/ p \in Saving /\ seen'[p] = seen[p]
             \/ Saving = {} /\ seen'[p] = file
  <2>1. Saving = {}
    BY <1>1 DEF Touch, Undisturbed
  <2> QED BY <1>1, <2>1 DEF Touch, Goto
<1>2. ASSUME NEW q \in Procs,
             \/ Obtain(q) \/ Declines(q) \/ PrintOut(q) \/ Load(q) \/ Truncate(q) \/ Write(q)
             \/ ObtainFails(q) \/ PrintPanics(q) \/ InvalidOutput(q)
             \/ SaveFails(q) \/ PostRun(q)
             \/ WriteFails(q) \/ Kill(q)
      PROVE  p \in Saving /\ seen'[p] = seen[p]
  BY <1>2 DEF Obtain, Declines, PrintOut, Load, Truncate, Write, ObtainFails, PrintPanics,
              InvalidOutput,
              SaveFails, PostRun, WriteFails, Kill, Exit, Goto
<1>3. CASE UNCHANGED vars
  BY <1>3 DEF vars
<1> QED BY <1>1, <1>2, <1>3 DEF Next

LEMMA TidyNext == IInv /\ [Next]_vars => FileIsTidy'
<1> SUFFICES ASSUME IInv, [Next]_vars, Undisturbed'
             PROVE  Tidy(file)' /\ \A p \in Saving' : Tidy(seen[p])'
  BY DEF FileIsTidy
<1>1. cmd' = cmd /\ Undisturbed
  BY HistoryGrows
<1>2. Tidy(file) /\ \A p \in Saving : Tidy(seen[p])
  BY <1>1 DEF IInv, FileIsTidy
<1>3. Tidy(file')
  <2>1. ASSUME NEW p \in Saving, seen[p] \in Contents,
               file' = SaveCredentialEntry(seen[p], p)
        PROVE  Tidy(file')
    BY <1>2, <2>1, SavedIsTidy DEF IInv, Saving
  <2> QED BY <1>2, <2>1, UndisturbedStep, NothingIsTidy
<1>4. \A p \in Saving' : Tidy(seen'[p])
  BY <1>2, SavingStep
<1> QED BY <1>1, <1>3, <1>4 DEF Tidy

\* What was delivered before a step, or is by it.
LEMMA DeliveredStep ==
    ASSUME IInv, [Next]_vars, NEW p \in Procs, Delivered(p)'
    PROVE  Delivered(p) \/ Write(p)
<1> USE DEF IInv, TypeOK, SavesIfAsked, Saves, Delivered
<1>1. ASSUME NEW q \in Procs,
             \/ Obtain(q) \/ Declines(q) \/ Touch(q) \/ Load(q) \/ Truncate(q) \/ Kill(q)
      PROVE  Delivered(p)
  BY <1>1 DEF Obtain, Declines, Touch, Load, Truncate, Kill, Goto
<1>2. ASSUME NEW q \in Procs, PrintOut(q) PROVE Delivered(p)
  BY <1>2 DEF PrintOut, Prints, Goto
<1>3. ASSUME NEW q \in Procs, Write(q) PROVE Delivered(p) \/ Write(p)
  BY <1>3 DEF Write, Goto
<1>4. ASSUME NEW q \in Procs,
             \/ ObtainFails(q) \/ PrintPanics(q) \/ InvalidOutput(q)
             \/ SaveFails(q) \/ WriteFails(q)
      PROVE  Delivered(p)
  BY <1>4 DEF ObtainFails, ObtainErrors, PrintPanics, InvalidOutput, SaveFails,
              WriteFails, Exit,
              ExitStatus, Goto
<1>5. ASSUME NEW q \in Procs, PostRun(q) PROVE Delivered(p)
  BY <1>5 DEF PostRun, Exit, ExitStatus, Goto
<1>6. CASE UNCHANGED vars
  BY <1>6 DEF vars
<1> QED BY <1>1, <1>2, <1>3, <1>4, <1>5, <1>6 DEF Next

LEMMA SavedHolds ==
    ASSUME TypeOK, NEW p \in Procs, NEW q \in Procs, NEW c \in Contents,
           p = q \/ Holds(c, p)
    PROVE  Holds(SaveCredentialEntry(c, q), p)
<1>1. \A r \in Profiles :
         SaveCredentialEntry(c, q)[r] = IF r = cmd[q].profile THEN All(q) ELSE c[r]
  BY DEF SaveCredentialEntry, Contents
<1>2. cmd[p].profile \in Profiles
  BY DEF TypeOK, CommandLine
<1> QED BY <1>1, <1>2 DEF Holds

LEMMA SavedNext == IInv /\ [Next]_vars => SavedStays'
<1> SUFFICES ASSUME IInv, [Next]_vars, Undisturbed', NEW p \in Procs, Delivered(p)'
             PROVE  /\ Holds(file, p)' \/ \E q \in Procs : pc'[q] = "truncated"
                    /\ \A q \in Saving' : Holds(seen[q], p)'
  BY DEF SavedStays
<1>1. cmd' = cmd /\ Undisturbed
  BY HistoryGrows
<1>2. Delivered(p) =>
         /\ Holds(file, p) \/ \E q \in Procs : pc[q] = "truncated"
         /\ \A q \in Saving : Holds(seen[q], p)
  BY <1>1 DEF IInv, SavedStays
<1>3. Holds(file', p) \/ \E q \in Procs : pc'[q] = "truncated"
  <2>1. CASE /\ file' = file
             /\ \A q \in Procs : pc[q] = "truncated" <=> pc'[q] = "truncated"
    <3>1. ~Write(p)
      BY <2>1 DEF Write, Goto, IInv, TypeOK
    <3> QED BY <1>2, <2>1, <3>1, DeliveredStep
  <2>2. CASE \E q \in Saving : pc'[q] = "truncated"
    BY <2>2 DEF Saving
  <2>3. ASSUME NEW q \in Saving, Saving = {q}, seen[q] \in Contents,
               file' = SaveCredentialEntry(seen[q], q)
        PROVE  Holds(file', p)
    <3>1. p = q \/ Holds(seen[q], p)
      <4>1. Write(p) => p = q
        BY <2>3 DEF Write, Saving
      <4> QED BY <1>2, <4>1, DeliveredStep
    <3> QED BY <2>3, <3>1, SavedHolds DEF IInv, Saving
  <2> QED BY <2>1, <2>2, <2>3, UndisturbedStep
<1>4. \A q \in Saving' : Holds(seen'[q], p)
  <2> SUFFICES ASSUME NEW q \in Saving' PROVE Holds(seen'[q], p)
    OBVIOUS
  <2>1. ~Write(p)
    <3>1. CASE Write(p)
      <4>1. pc' = [pc EXCEPT ![p] = "delivered"] /\ pc[p] = "truncated" /\ seen' = seen
        BY <3>1 DEF Write, Goto
      <4>2. q \in Saving /\ q # p /\ p \in Saving
        BY <4>1 DEF Saving, IInv, TypeOK
      <4> QED BY <1>1, <4>2 DEF IInv, SavesAlone, Undisturbed
    <3> QED BY <3>1
  <2>2. Delivered(p)
    BY <2>1, DeliveredStep
  <2>3. CASE Saving = {} /\ seen'[q] = file
    BY <1>2, <2>2, <2>3 DEF Saving
  <2> QED BY <1>2, <2>2, <2>3, SavingStep
<1> QED BY <1>1, <1>3, <1>4 DEF Holds

LEMMA InitSound == Init => IInv
<1> SUFFICES ASSUME Init PROVE IInv
  OBVIOUS
<1>1. TypeOK
  BY InitTyped
<1>2. SavesAlone /\ ReadAlone /\ SavesIfAsked /\ StatusIsLast /\ SavedStays
  BY FileAssumption DEF Init, SavesAlone, ReadAlone, SavesIfAsked, StatusIsLast, SavedStays, Saving, Delivered
<1>3. FileIsTidy
  <2>1. PICK had \in SUBSET Profiles :
           file = [q \in Profiles |-> All(IF q \in had THEN Old ELSE None)]
    BY DEF Init
  <2>2. \A q \in Profiles : file[q] \in {All(None), All(Old)}
    BY <2>1
  <2>3. All(Old) \in Sections /\ All(None) \in Sections
    BY AllTyped DEF Values
  <2>4. file # Torn
    BY <2>1, <2>3, FileAssumption DEF Contents
  <2> QED BY <2>2, <2>4 DEF Init, FileIsTidy, Tidy, Saving
<1> QED BY <1>1, <1>2, <1>3 DEF IInv

LEMMA Invariant == Spec => []IInv
<1>1. IInv /\ [Next]_vars => IInv'
  BY NextTyped, AloneNext, AskedNext, StatusNext, TidyNext, SavedNext DEF IInv
<1> QED BY InitSound, <1>1, PTL DEF Spec

----------------------------------------------------------------------------
(* What follows                                                            *)

\* The three keys of a profile belong together (awsconfig.go:56-62).
THEOREM KeysAreOfOneCommand == Spec => []KeysBelongTogether
<1>1. IInv => KeysBelongTogether
  BY DEF IInv, FileIsTidy, Tidy, KeysBelongTogether
<1> QED BY <1>1, Invariant, PTL

\* After exit status 0 of a command that knew what to get, its credentials are in
\* the profile, or those of a later command for it (awsconfig.go:75,
\* main.go:59-67).
THEOREM ZeroIsKept == Spec => []ZeroMeansSaved
<1>1. IInv => ZeroMeansSaved
  <2> SUFFICES ASSUME IInv, NEW p \in Procs, status[p] = 0, Saves(cmd[p]),
                      broken \subseteq {p}, overlapped = {}
               PROVE  \/ /\ file # Torn
                         /\ \E q \in Procs : /\ cmd[q].profile = cmd[p].profile
                                             /\ file[cmd[p].profile] = All(q)
                      \/ \E q \in Procs : pc[q] = "truncated"
    BY DEF ZeroMeansSaved
  <2>1. Undisturbed
    BY DEF IInv, StatusIsLast, Undisturbed
  <2>2. file # Torn
    BY <2>1 DEF IInv, FileIsTidy, Tidy
  <2> QED BY <2>1, <2>2 DEF IInv, SavedStays, Delivered, Holds
<1> QED BY <1>1, Invariant, PTL

\* A command that is alone with the file keeps every other profile in it
\* (awsconfig.go:64-76).
THEOREM OthersAreKept == Spec => OtherProfilesKept
<1> DEFINE Keeps ==
        \A p \in Procs \ overlapped :
            pc[p] = "truncated" /\ pc'[p] = "delivered" =>
                file' = [seen[p] EXCEPT ![cmd[p].profile] = All(p)]
<1>1. IInv /\ [Next]_vars => [Keeps]_vars
  <2> SUFFICES ASSUME IInv, Next, NEW p \in Procs \ overlapped,
                      pc[p] = "truncated", pc'[p] = "delivered"
               PROVE  file' = [seen[p] EXCEPT ![cmd[p].profile] = All(p)]
    OBVIOUS
  <2>1. Write(p)
    BY DEF Next, IInv, TypeOK, Obtain, Declines, ObtainFails, PrintOut, PrintPanics,
           InvalidOutput, Touch, Load,
           Truncate, Write, WriteFails, SaveFails, PostRun, Kill, Exit, Goto
  <2> QED BY <2>1 DEF Write, IInv, ReadAlone, SaveCredentialEntry
<1> QED BY <1>1, Invariant, PTL DEF Spec, OtherProfilesKept

----------------------------------------------------------------------------
(* The file as a register of profiles                                      *)

LEMMA HolderOfAll == ASSUME NEW v \in Values PROVE Holder(All(v)) = v
BY DEF Holder, All, Keys

LEMMA HoldersTyped ==
    ASSUME NEW c \in Contents
    PROVE  Holders(c) \in [Profiles -> Values] /\ Holders(c) # Torn
<1>1. ASSUME NEW q \in Profiles PROVE Holder(c[q]) \in Values
  <2>1. c[q]["aws_access_key_id"] \in Values
    BY DEF Contents, Sections, Keys
  <2> QED BY <2>1 DEF Holder, Values
<1>2. Holders(c) = [q \in Profiles |-> Holder(c[q])]
  BY FileAssumption DEF Holders
<1> QED BY <1>1, <1>2, FileAssumption

\* A save changes the holder of one profile.
LEMMA HoldersSaved ==
    ASSUME TypeOK, NEW p \in Procs, NEW c \in Contents
    PROVE  Holders(SaveCredentialEntry(c, p)) = [Holders(c) EXCEPT ![cmd[p].profile] = p]
<1> DEFINE saved == SaveCredentialEntry(c, p)
<1>1. /\ saved \in Contents
      /\ \A q \in Profiles : saved[q] = IF q = cmd[p].profile THEN All(p) ELSE c[q]
  BY SavedTyped DEF SaveCredentialEntry, Contents
<1> HIDE DEF saved
<1>2. /\ Holders(saved) = [q \in Profiles |-> Holder(saved[q])]
      /\ Holders(c) = [q \in Profiles |-> Holder(c[q])]
  BY <1>1, FileAssumption DEF Holders
<1>3. Holder(All(p)) = p
  BY HolderOfAll DEF Values
<1>4. \A q \in Profiles :
         Holder(saved[q]) = IF q = cmd[p].profile THEN p ELSE Holder(c[q])
  BY <1>1, <1>3
<1> QED BY <1>2, <1>4 DEF saved

\* What a save that was cut short leaves of a file that nobody else has written:
\* for a profile its holder, or the new one, or none.
LEMMA HoldersSpliced ==
    ASSUME NEW m \in Contents, NEW c \in Spliced(m, Nothing), c # Torn
    PROVE  \A q \in Profiles : Holders(c)[q] \in {Holders(m)[q], None, Lost}
<1>1. m # Torn /\ Nothing # Torn
  BY NothingTyped, FileAssumption
<1>2. PICK first \in SUBSET Profiles, seam \in Profiles, left \in SUBSET Keys :
         c = [q \in Profiles |->
                IF q = seam THEN [k \in Keys |-> IF k \in left THEN m[q][k] ELSE Lost]
                ELSE IF q \in first THEN m[q] ELSE Nothing[q]]
  BY <1>1 DEF Spliced
<1>3. /\ Holders(c) = [q \in Profiles |-> Holder(c[q])]
      /\ Holders(m) = [q \in Profiles |-> Holder(m[q])]
  BY <1>1 DEF Holders
<1>4. ASSUME NEW q \in Profiles PROVE Holder(c[q]) \in {Holder(m[q]), None, Lost}
  <2>1. CASE q = seam /\ left = Keys
    <3>1. m[q] \in [Keys -> Values]
      BY DEF Contents, Sections
    <3>2. c[q] = m[q]
      BY <1>2, <2>1, <3>1
    <3> QED BY <3>2
  <2>2. CASE q = seam /\ left # Keys
    <3>1. PICK k \in Keys : k \notin left
      BY <2>2
    <3>2. c[q][k] = Lost
      BY <1>2, <2>2, <3>1
    <3>3. \A v : All(v)[k] = v
      BY DEF All
    <3> QED BY <3>2, <3>3 DEF Holder
  <2>3. CASE q # seam /\ q \in first
    BY <1>2, <2>3
  <2>4. CASE q # seam /\ q \notin first
    <3>1. c[q] = All(None)
      BY <1>2, <2>4 DEF Nothing
    <3> QED BY <3>1, HolderOfAll DEF Values
  <2> QED BY <2>1, <2>2, <2>3, <2>4
<1> QED BY <1>3, <1>4

\* What the abstract view makes of a command.
OutcomeOf(s, st, line) ==
    IF s = "ended" THEN IF st = 0 THEN "zero" ELSE "failed"
    ELSE IF ~Saves(line) THEN "talking"
    ELSE IF s = "delivered" THEN "saved" ELSE "saving"

\* A step of one command changes the outcome of no other.
LEMMA OutcomeStep ==
    ASSUME TypeOK, NEW p \in Procs, NEW s, Goto(p, s), cmd' = cmd,
           \A q \in Procs \ {p} : status'[q] = status[q]
    PROVE  /\ Outcome[p] = OutcomeOf(pc[p], status[p], cmd[p])
           /\ Outcome' = [Outcome EXCEPT ![p] = OutcomeOf(s, status'[p], cmd[p])]
<1>1. /\ Outcome = [q \in Procs |-> OutcomeOf(pc[q], status[q], cmd[q])]
      /\ Outcome' = [q \in Procs |-> OutcomeOf(pc'[q], status'[q], cmd[q])]
  BY DEF Outcome, OutcomeOf
<1>2. \A q \in Procs : pc'[q] = IF q = p THEN s ELSE pc[q]
  BY DEF TypeOK, Goto
<1>3. \A q \in Procs :
         OutcomeOf(pc'[q], status'[q], cmd[q]) =
            IF q = p THEN OutcomeOf(s, status'[p], cmd[p])
            ELSE OutcomeOf(pc[q], status[q], cmd[q])
  BY <1>2
<1> QED BY <1>1, <1>3

\* An error ends a command with a status that is not 0.
LEMMA ExitStep ==
    ASSUME TypeOK, NEW p \in Procs, NEW err, Exit(p, err), cmd' = cmd
    PROVE  /\ Outcome[p] = OutcomeOf(pc[p], status[p], cmd[p])
           /\ Outcome' = [Outcome EXCEPT ![p] = IF ExitStatus(err) = 0 THEN "zero" ELSE "failed"]
<1>1. Goto(p, "ended") /\ status'[p] = ExitStatus(err)
      /\ \A q \in Procs \ {p} : status'[q] = status[q]
  BY DEF Exit, TypeOK
<1>2. OutcomeOf("ended", status'[p], cmd[p]) =
         IF ExitStatus(err) = 0 THEN "zero" ELSE "failed"
  BY <1>1 DEF OutcomeOf
<1> QED BY <1>1, <1>2, OutcomeStep

LEMMA HeldIs ==
    ASSUME IInv, overlapped = {}
    PROVE  /\ \A p \in Procs : pc[p] = "truncated" => Held = Holders(seen[p])
           /\ (\A p \in Procs : pc[p] # "truncated") => Held = Holders(file)
<1>1. ASSUME NEW p \in Procs, pc[p] = "truncated"
      PROVE  (CHOOSE q \in Procs : pc[q] = "truncated") = p
  <2>1. \A q \in Procs : pc[q] = "truncated" => q = p
    BY <1>1 DEF IInv, SavesAlone, Saving
  <2> QED BY <1>1, <2>1
<1> QED BY <1>1 DEF Held

\* A save is alone, and whose keys the profiles have is what it read.
LEMMA SaverAlone ==
    ASSUME IInv, overlapped = {}, NEW p \in Saving
    PROVE  /\ \A q \in Procs : q # p => pc[q] # "truncated"
           /\ pc[p] # "reading" => seen[p] \in Contents
           /\ pc[p] \in {"loaded", "truncated"} => Held = Holders(seen[p])
           /\ pc[p] = "truncated" =>
                 /\ file = Nothing
                 /\ mem[p] \in Contents
                 /\ Holders(mem[p]) = [Holders(seen[p]) EXCEPT ![cmd[p].profile] = p]
           /\ Saves(cmd[p]) /\ status[p] = None
<1>1. p \in Procs /\ pc[p] \in {"reading", "loaded", "truncated"}
  BY DEF Saving
<1>2. \A q \in Procs : q # p => pc[q] # "truncated"
  BY DEF IInv, SavesAlone, Saving
<1>3. pc[p] # "reading" => seen[p] \in Contents
  BY <1>1 DEF IInv, ReadAlone, TypeOK
<1>4. pc[p] = "loaded" => seen[p] = file
  BY <1>1 DEF IInv, ReadAlone
<1>5. pc[p] \in {"loaded", "truncated"} => Held = Holders(seen[p])
  BY <1>1, <1>2, <1>4, HeldIs
<1>6. pc[p] = "truncated" => file = Nothing /\ mem[p] = SaveCredentialEntry(seen[p], p)
  BY <1>1 DEF IInv, ReadAlone
<1>7. pc[p] = "truncated" =>
         /\ mem[p] \in Contents
         /\ Holders(mem[p]) = [Holders(seen[p]) EXCEPT ![cmd[p].profile] = p]
  BY <1>1, <1>3, <1>6, HoldersSaved DEF IInv, TypeOK
<1>8. Saves(cmd[p]) /\ status[p] = None
  BY <1>1 DEF IInv, SavesIfAsked, StatusIsLast
<1> QED BY <1>2, <1>3, <1>5, <1>6, <1>7, <1>8

\* Who does not write to the file leaves it, and what another one read of it.
LEMMA QuietHeld ==
    ASSUME IInv, IInv', overlapped = {}, overlapped' = {}, NEW p \in Procs,
           file' = file, pc[p] # "truncated",
           NEW s \in {"obtained", "declined", "reading", "loaded", "delivered", "ended"},
           Goto(p, s),
           \A q \in Procs \ {p} : seen'[q] = seen[q]
    PROVE  Held' = Held
<1>1. \A q \in Procs : pc'[q] = IF q = p THEN s ELSE pc[q]
  BY DEF IInv, TypeOK, Goto
<1>2. \A q \in Procs : pc'[q] = "truncated" <=> pc[q] = "truncated"
  BY <1>1
<1>3. ASSUME NEW q \in Procs, pc[q] = "truncated" PROVE Held' = Held
  <2>1. Held = Holders(seen[q])
    BY <1>3, HeldIs
  <2>2. pc'[q] = "truncated" /\ seen'[q] = seen[q]
    BY <1>2, <1>3
  <2>3. \A r \in Procs : pc'[r] = "truncated" => r = q
    BY <1>2, <1>3 DEF IInv, SavesAlone, Saving
  <2>4. (CHOOSE r \in Procs : pc'[r] = "truncated") = q
    BY <2>2, <2>3
  <2>5. Held' = Holders(seen'[q])
    BY <2>2, <2>4 DEF Held, Holders
  <2> QED BY <2>1, <2>2, <2>5
<1>4. CASE \A q \in Procs : pc[q] # "truncated"
  BY <1>2, <1>4 DEF Held, Holders
<1> QED BY <1>3, <1>4

LEMMA RegisterStep ==
    ASSUME IInv, IInv', [Next]_vars, overlapped' = {}
    PROVE  Register!Next \/ UNCHANGED Register!vars
<1>0. TypeOK /\ overlapped = {} /\ cmd' = cmd
  BY HistoryGrows DEF IInv, Next, vars, Obtain, Declines, ObtainFails, PrintOut, PrintPanics,
       InvalidOutput, Touch, Load, Truncate, Write, WriteFails, SaveFails, PostRun, Kill
<1>1. [q \in Procs |-> cmd[q].profile]' = [q \in Procs |-> cmd[q].profile]
  BY <1>0
\* Steps that the user does not see.
<1>2. ASSUME NEW p \in Procs, Held' = Held, NEW s, Goto(p, s), status' = status,
             OutcomeOf(s, status[p], cmd[p]) = OutcomeOf(pc[p], status[p], cmd[p])
      PROVE  UNCHANGED Register!vars
  <2>1. Outcome' = [Outcome EXCEPT ![p] = Outcome[p]]
    BY <1>0, <1>2, OutcomeStep
  <2>2. Outcome' = Outcome
    BY <2>1 DEF Outcome
  <2> QED BY <1>1, <1>2, <2>2 DEF Register!vars
<1>3. ASSUME NEW p \in Procs, Obtain(p) \/ Declines(p) \/ PrintOut(p) \/ Touch(p) \/ Load(p)
      PROVE  UNCHANGED Register!vars
  <2>1. PICK s \in {"obtained", "declined", "reading", "loaded", "delivered"} :
           /\ Goto(p, s) /\ file' = file /\ status' = status
           /\ pc[p] \notin {"truncated", "ended", "delivered"}
           /\ s = "delivered" => ~Saves(cmd[p])
    BY <1>3 DEF Obtain, Declines, PrintOut, Prints, Saves, Touch, Load
  <2>2. \A q \in Procs \ {p} : seen'[q] = seen[q]
    BY <1>0, <1>3 DEF Obtain, Declines, PrintOut, Touch, Load, TypeOK
  <2>3. Held' = Held
    BY <1>0, <2>1, <2>2, QuietHeld
  <2> QED BY <1>2, <2>1, <2>3 DEF OutcomeOf
<1>4. ASSUME NEW p \in Procs, Truncate(p) PROVE UNCHANGED Register!vars
  <2>1. p \in Saving /\ pc[p] = "loaded" /\ Goto(p, "truncated") /\ seen' = seen
        /\ status' = status
    BY <1>4 DEF Truncate, Saving
  <2>2. Held = Holders(seen[p])
    BY <1>0, <2>1, SaverAlone
  <2>3. pc'[p] = "truncated" /\ \A q \in Procs : pc'[q] = "truncated" => q = p
    <3>1. \A q \in Procs : q # p => pc[q] # "truncated"
      BY <1>0, <2>1, SaverAlone
    <3> QED BY <1>0, <2>1, <3>1 DEF TypeOK, Goto
  <2>4. (CHOOSE q \in Procs : pc'[q] = "truncated") = p
    BY <2>3
  <2>5. Held' = Holders(seen'[p])
    BY <2>1, <2>3, <2>4 DEF Held, Holders
  <2> QED BY <1>2, <2>1, <2>2, <2>5 DEF OutcomeOf
<1>5. ASSUME NEW p \in Procs, Write(p) PROVE Register!Save(p)
  <2>1. p \in Saving /\ pc[p] = "truncated" /\ Goto(p, "delivered") /\ status' = status
    BY <1>5 DEF Write, Saving
  <2>2. /\ file = Nothing /\ mem[p] \in Contents /\ seen[p] \in Contents
        /\ Held = Holders(seen[p]) /\ Saves(cmd[p])
        /\ Holders(mem[p]) = [Holders(seen[p]) EXCEPT ![cmd[p].profile] = p]
        /\ \A q \in Procs : q # p => pc[q] # "truncated"
    BY <1>0, <2>1, SaverAlone
  <2>3. file' = mem[p]
    BY <1>5, <2>2 DEF Write
  <2>4. \A q \in Procs : pc'[q] # "truncated"
    BY <1>0, <2>1, <2>2 DEF TypeOK, Goto
  <2>5. Held' = Holders(file')
    BY <2>4 DEF Held, Holders
  <2>6. Held' = [Held EXCEPT ![cmd[p].profile] = p] /\ Held # Torn
    BY <2>2, <2>3, <2>5, HoldersTyped
  <2>7. Outcome[p] = "saving" /\ Outcome' = [Outcome EXCEPT ![p] = "saved"]
    BY <1>0, <2>1, <2>2, OutcomeStep DEF OutcomeOf
  <2> QED BY <1>1, <2>6, <2>7 DEF Register!Save, Register!Becomes
\* A save that is cut short, with an error or by an interruption.
<1>6. ASSUME NEW p \in Procs, pc[p] = "truncated", Goto(p, "ended"),
             file' \in {file} \cup Spliced(mem[p], file),
             Outcome' = [Outcome EXCEPT ![p] = "failed"]
      PROVE  Register!Lose(p)
  <2>1. p \in Saving /\ pc[p] = "truncated"
    BY <1>6 DEF Saving
  <2>2. /\ file = Nothing /\ mem[p] \in Contents /\ seen[p] \in Contents
        /\ Held = Holders(seen[p]) /\ Saves(cmd[p])
        /\ Holders(mem[p]) = [Holders(seen[p]) EXCEPT ![cmd[p].profile] = p]
        /\ \A q \in Procs : q # p => pc[q] # "truncated"
    BY <1>0, <2>1, SaverAlone
  <2>3. Held' = Holders(file')
    <3>1. \A q \in Procs : pc'[q] # "truncated"
      BY <1>0, <1>6, <2>2 DEF TypeOK, Goto
    <3> QED BY <3>1 DEF Held, Holders
  <2>4. Outcome[p] = "saving"
    BY <1>6, <2>2 DEF Outcome
  <2>5. Held # Torn /\ Held \in [Profiles -> Values]
    BY <2>2, HoldersTyped
  <2>6. CASE file' = Torn
    BY <1>1, <1>6, <2>3, <2>4, <2>5, <2>6 DEF Holders, Register!Lose, Register!Becomes
  <2>7. CASE file' # Torn
    <3>1. ASSUME NEW q \in Profiles PROVE Held'[q] \in {Holders(mem[p])[q], None, Lost}
      <4>1. CASE file' = Nothing
        <5>1. Nothing # Torn
          BY NothingTyped, FileAssumption
        <5>2. Held'[q] = Holder(All(None))
          BY <2>3, <4>1, <5>1 DEF Holders, Nothing
        <5> QED BY <5>2, HolderOfAll DEF Values
      <4>2. CASE file' # Nothing
        <5>1. file' \in Spliced(mem[p], Nothing)
          BY <1>6, <2>2, <4>2
        <5> QED BY <2>2, <2>3, <2>7, <5>1, HoldersSpliced
      <4> QED BY <4>1, <4>2
    <3>2. ASSUME NEW q \in Profiles
          PROVE  \/ Held'[q] \in {Held[q], None, Lost}
                 \/ q = cmd[p].profile /\ Held'[q] = p
      BY <2>2, <2>5, <3>1
    <3> QED BY <1>1, <1>6, <2>4, <2>5, <3>2 DEF Register!Lose, Register!Becomes
  <2> QED BY <2>6, <2>7
<1>7. ASSUME NEW p \in Procs, WriteFails(p) PROVE Register!Lose(p)
  <2>1. Outcome' = [Outcome EXCEPT ![p] = "failed"]
    BY <1>0, <1>7, ExitStep DEF WriteFails, ExitStatus
  <2> QED BY <1>6, <1>7, <2>1 DEF WriteFails, Exit
<1>8. ASSUME NEW p \in Procs, Kill(p) PROVE Register!Lose(p) \/ Register!Fail(p)
  <2>1. /\ Goto(p, "ended") /\ status' = status /\ file' = file /\ seen' = seen
        /\ pc[p] \notin {"idle", "ended"}
    BY <1>8 DEF Kill, Running
  <2>2. status[p] # 0
    BY <2>1, FileAssumption DEF IInv, StatusIsLast
  <2>3. /\ Outcome[p] = OutcomeOf(pc[p], status[p], cmd[p])
        /\ Outcome' = [Outcome EXCEPT ![p] = "failed"]
    BY <1>0, <2>1, <2>2, OutcomeStep DEF OutcomeOf
  <2>4. CASE pc[p] = "truncated"
    BY <1>6, <2>1, <2>3, <2>4
  <2>5. CASE pc[p] # "truncated"
    <3>1. Held' = Held
      BY <1>0, <2>1, <2>5, QuietHeld
    <3>2. Outcome[p] \in {"talking", "saving", "saved"}
      BY <2>1, <2>3 DEF OutcomeOf
    <3> QED BY <1>1, <2>3, <3>1, <3>2 DEF Register!Fail, Register!Becomes
  <2> QED BY <2>4, <2>5
<1>9. ASSUME NEW p \in Procs,
             \/ ObtainFails(p) \/ PrintPanics(p) \/ InvalidOutput(p)
             \/ SaveFails(p) \/ PostRun(p)
      PROVE  Register!Fail(p) \/ Register!Report(p)
  <2>1. PICK err \in {"none", "panic", "port", "locked", "other"} :
           Exit(p, err) /\ (err = "none" => pc[p] \in {"delivered", "declined"})
    BY <1>9 DEF ObtainFails, PrintPanics, InvalidOutput, SaveFails, PostRun, ObtainErrors
  <2>2. file' = file /\ seen' = seen /\ pc[p] \notin {"truncated", "ended"}
    BY <1>9 DEF ObtainFails, PrintPanics, InvalidOutput, SaveFails, PostRun
  <2>3. Held' = Held
    BY <1>0, <2>1, <2>2, QuietHeld DEF Exit
  <2>4. /\ Outcome[p] = OutcomeOf(pc[p], status[p], cmd[p])
        /\ Outcome' = [Outcome EXCEPT ![p] = IF ExitStatus(err) = 0 THEN "zero" ELSE "failed"]
    BY <1>0, <2>1, ExitStep
  <2>5. ExitStatus(err) = 0 <=> err = "none"
    BY DEF ExitStatus
  <2>6. CASE err = "none"
    <3>1. pc[p] = "declined" => ~Saves(cmd[p])
      BY DEF IInv, SavesIfAsked, Saves
    <3>2. Outcome[p] \in {"talking", "saved"}
      BY <2>1, <2>4, <2>6, <3>1 DEF OutcomeOf
    <3> QED BY <1>1, <2>3, <2>4, <2>5, <2>6, <3>2 DEF Register!Report, Register!Becomes
  <2>7. CASE err # "none"
    <3>1. Outcome[p] \in {"talking", "saving", "saved"}
      BY <2>2, <2>4 DEF OutcomeOf
    <3> QED BY <1>1, <2>3, <2>4, <2>5, <2>7, <3>1 DEF Register!Fail, Register!Becomes
  <2> QED BY <2>6, <2>7
<1>10. CASE UNCHANGED vars
  BY <1>10 DEF vars, Held, Holders, Outcome, Register!vars
<1> QED BY <1>3, <1>4, <1>5, <1>7, <1>8, <1>9, <1>10 DEF Next, Register!Next

\* To a user whose saves do not overlap each is one step: it gives the profile to
\* the command before that may end with 0, and one that is cut short gives no
\* profile to anyone else (awsconfig.go:56-76, main.go:59-67).
THEOREM SavesAreAtomic == Spec => AtomicWhenAlone
<1>1. IInv /\ IInv' /\ [Next]_vars
        => [overlapped' = {} => Register!Next \/ UNCHANGED Register!vars]_vars
  BY RegisterStep
<1> QED BY <1>1, Invariant, PTL DEF Spec, AtomicWhenAlone
=============================================================================
