------------------------- MODULE ConfigStore_proofs -------------------------
(***************************************************************************)
(* What ConfigStore's runs check for three commands, for any number.       *)
(***************************************************************************)
EXTENDS ConfigStore, TLAPS

LEMMA Distinct ==
    /\ Absent \notin Config /\ Empty \notin Config /\ Torn \notin Config
    /\ Error \notin Config
    /\ Absent # Empty /\ Absent # Torn /\ Empty # Torn
BY ConfigAssumption

LEMMA DefaultsTyped == Defaults \in Config /\ OldConfig \in Config
BY DEF Defaults, OldConfig, Config, Values

LEMMA MixturesTyped ==
    ASSUME NEW c \in Config, NEW d \in Config
    PROVE  Mixtures(c, d) \subseteq Config
BY DEF Mixtures, Config

LEMMA ChangesTyped ==
    ASSUME NEW p \in Procs, NEW cmd, NEW c \in Config
    PROVE  Changes(p, cmd, c) \subseteq Config
BY DEF Changes, NewValues, Config, Values

LEMMA HalfReadTyped ==
    ASSUME TypeOK, NEW first \in Files \ {Empty}, NEW now \in Files
    PROVE  HalfRead(first, now) \subseteq Config
<1> DEFINE halves == IF first = Torn THEN {mem[q] : q \in broken} ELSE {first}
<1>1. halves \subseteq Config
  BY DEF TypeOK, Files
<1>2. now \notin {first, Empty, Torn} => now \in Config
  BY DEF Files
<1> QED BY <1>1, <1>2, MixturesTyped DEF HalfRead

\* Decode returns a configuration or an error.
LEMMA DecodedTyped ==
    ASSUME TypeOK, NEW first \in Files, NEW now \in Files
    PROVE  Decoded(first, now) \subseteq Config \cup {Error}
BY HalfReadTyped, DefaultsTyped, Distinct DEF Decoded, Files

\* A torn file that stays torn is an error.
LEMMA DecodedTorn == Decoded(Torn, Torn) = {Error}
<1>1. HalfRead(Torn, Torn) = {}
  BY DEF HalfRead
<1> QED BY <1>1, Distinct DEF Decoded

\* A file that nobody has made yet is made by the first command to start.
FileExists == \A p \in Procs : pc[p] \notin {"idle", "failed"} => file # Absent

LEMMA InitTyped == Init => TypeOK /\ FileExists
<1>1. {} \in Commands
  BY DEF Commands
<1> QED BY <1>1, DefaultsTyped DEF Init, TypeOK, FileExists, Files, Steps

LEMMA NextTyped ==
    TypeOK /\ FileExists /\ [Next]_vars => TypeOK' /\ FileExists'
<1> SUFFICES ASSUME TypeOK, FileExists, [Next]_vars
             PROVE  TypeOK' /\ FileExists'
  OBVIOUS
<1> USE DEF TypeOK, FileExists, Files, Steps, Goto
<1>1. ASSUME NEW p \in Procs, Open(p) PROVE TypeOK' /\ FileExists'
  <2>1. beside' \in [Procs -> SUBSET Procs]
    BY <1>1 DEF Open, StartAlongside, Running
  <2> QED BY <1>1, <2>1, Distinct DEF Open
<1>2. ASSUME NEW p \in Procs, Load(p) PROVE TypeOK' /\ FileExists'
  <2>1. file \in Files /\ seen[p] \in Files
    BY <1>2 DEF Load
  <2>2. Decoded(seen[p], file) \ {Error} \subseteq Config
    BY <2>1, DecodedTyped
  <2> QED BY <1>2, <2>2 DEF Load
<1>3. ASSUME NEW p \in Procs, LoadFails(p) PROVE TypeOK' /\ FileExists'
  BY <1>3 DEF LoadFails
<1>4. ASSUME NEW p \in Procs, Run(p) PROVE TypeOK' /\ FileExists'
  BY <1>4, ChangesTyped DEF Run
<1>5. ASSUME NEW p \in Procs, Create(p) PROVE TypeOK' /\ FileExists'
  BY <1>5, Distinct DEF Create, SaveAfter
<1>6. ASSUME NEW p \in Procs, Write(p) PROVE TypeOK' /\ FileExists'
  BY <1>6, Distinct DEF Write, SaveAfter
<1>7. ASSUME NEW p \in Procs, WriteFails(p) PROVE TypeOK' /\ FileExists'
  <2>1. file # Absent
    BY <1>7 DEF WriteFails
  <2>2. file' \in Files
    BY <1>7, <2>1, MixturesTyped DEF WriteFails
  <2> QED BY <1>7, <2>2, Distinct DEF WriteFails, SaveAfter
<1>8. ASSUME NEW p \in Procs, Fail(p) PROVE TypeOK' /\ FileExists'
  BY <1>8 DEF Fail
<1>9. CASE UNCHANGED vars
  BY <1>9 DEF vars
<1> QED
  BY <1>1, <1>2, <1>3, <1>4, <1>5, <1>6, <1>7, <1>8, <1>9 DEF Next

\* Every variable keeps its type; in particular what a command saves is
\* always a configuration.
THEOREM TypeCorrect == Spec => []TypeOK
<1> QED BY InitTyped, NextTyped, PTL DEF Spec

----------------------------------------------------------------------------
(* Torn files                                                              *)

\* A torn file stays torn when nobody holds a configuration from before.
THEOREM NoRecovery == Spec => UnreadableForGood
<1> DEFINE K == file = Torn /\ NobodyHoldsConfig
<1>1. TypeOK /\ K /\ [Next]_vars => K'
  <2> SUFFICES ASSUME TypeOK, K, [Next]_vars PROVE K'
    OBVIOUS
  <2> USE DEF NobodyHoldsConfig, Goto, TypeOK
  <2>1. ASSUME NEW p \in Procs, Open(p) PROVE K'
    BY <2>1, Distinct DEF Open
  <2>2. ASSUME NEW p \in Procs, Load(p) PROVE K'
    <3>1. seen[p] = Torn
      BY <2>2 DEF Load
    <3>2. Decoded(seen[p], file) = {Error}
      BY <3>1, DecodedTorn
    <3> QED BY <2>2, <3>2 DEF Load
  <2>3. ASSUME NEW p \in Procs, LoadFails(p) PROVE K'
    BY <2>3 DEF LoadFails
  <2>4. ASSUME NEW p \in Procs,
               Run(p) \/ Create(p) \/ Write(p) \/ WriteFails(p)
        PROVE  K'
    BY <2>4 DEF Run, Create, Write, WriteFails
  <2>5. ASSUME NEW p \in Procs, Fail(p) PROVE K'
    BY <2>5 DEF Fail
  <2>6. CASE UNCHANGED vars
    BY <2>6 DEF vars
  <2> QED BY <2>1, <2>2, <2>3, <2>4, <2>5, <2>6 DEF Next
<1> QED BY <1>1, InitTyped, NextTyped, PTL DEF Spec, UnreadableForGood

----------------------------------------------------------------------------
(* Commands that do not overlap                                            *)

\* While nothing has overlapped at most one command runs; until it truncates
\* the file it holds what the file says, and what it will save is one change
\* of that.
AloneInv ==
    overlapped = {} =>
        /\ \A p, q \in Running : p = q
        /\ \A p \in Procs :
              /\ pc[p] \in {"reading", "running", "saving"} => seen[p] = file
              /\ pc[p] = "running" => mem[p] = Meaning(seen[p])
              /\ pc[p] \in {"running", "saving", "truncated"} => seen[p] # Torn
              /\ pc[p] \in {"saving", "truncated"} =>
                    mem[p] \in Changes(p, own[p], Meaning(seen[p]))
              /\ pc[p] = "truncated" => file = Empty

StoreInv == TypeOK /\ FileExists /\ AloneInv

\* What a command that is alone gets from Decode.
LEMMA DecodedAlone ==
    ASSUME NEW c \in Files
    PROVE  Decoded(c, c) = IF c = Torn THEN {Error} ELSE {Meaning(c)}
<1>1. HalfRead(c, c) = {}
  BY DEF HalfRead
<1>2. CASE c = Torn
  BY <1>1, <1>2, Distinct DEF Decoded
<1>3. CASE c = Empty
  BY <1>3, Distinct DEF Decoded, Meaning
<1>4. CASE c \in Config
  BY <1>1, <1>4, Distinct DEF Decoded, Meaning
<1> QED BY <1>2, <1>3, <1>4, Distinct DEF Files

LEMMA AloneInit == Init => AloneInv
BY DEF Init, AloneInv, Running

\* Who ran alongside a command is never forgotten, and more is learnt only when
\* one starts.
LEMMA BesideGrows ==
    ASSUME TypeOK, [Next]_vars
    PROVE  /\ \A q \in Procs : beside[q] \subseteq beside'[q]
           /\ (\A q \in Procs : ~Open(q)) => beside' = beside
<1>1. ASSUME NEW p \in Procs, Open(p)
      PROVE  \A q \in Procs : beside[q] \subseteq beside'[q]
  BY <1>1 DEF Open, StartAlongside, TypeOK
<1>2. ASSUME NEW p \in Procs, ~Open(p),
             \/ Load(p) \/ LoadFails(p) \/ Run(p) \/ Create(p)
             \/ Write(p) \/ WriteFails(p) \/ Fail(p)
      PROVE  beside' = beside
  BY <1>2 DEF Load, LoadFails, Run, Create, Write, WriteFails, Fail
<1>3. CASE UNCHANGED vars
  BY <1>3 DEF vars
<1> QED BY <1>1, <1>2, <1>3 DEF Next

LEMMA OverlapGrows ==
    ASSUME TypeOK, [Next]_vars, overlapped' = {}
    PROVE  overlapped = {}
BY BesideGrows DEF overlapped

\* Who starts without overlap starts alone.
LEMMA StartsAlone ==
    ASSUME TypeOK, NEW p \in Procs, Open(p), overlapped' = {}
    PROVE  Running = {}
<1>1. beside'[p] = beside[p] \cup Running
  BY DEF Open, StartAlongside
<1>2. beside'[p] = {}
  BY DEF overlapped
<1> QED BY <1>1, <1>2

LEMMA AloneNext == StoreInv /\ [Next]_vars => AloneInv'
<1> SUFFICES ASSUME StoreInv, [Next]_vars, overlapped' = {} PROVE AloneInv'
  BY DEF AloneInv
<1>0. TypeOK /\ TypeOK' /\ FileExists /\ overlapped = {}
  BY NextTyped, OverlapGrows DEF StoreInv
<1>1. ASSUME NEW p \in Procs, Open(p) PROVE AloneInv'
  <2>1. Running = {}
    BY <1>0, <1>1, StartsAlone
  <2>2. Running' = {p}
    BY <1>0, <1>1, <2>1 DEF Open, Running, Goto, TypeOK
  <2>3. \A q \in Procs \ {p} : pc'[q] \in {"idle", "done", "failed"}
    BY <1>0, <1>1, <2>1 DEF Open, Running, Goto, TypeOK
  <2>4. pc'[p] = "reading" /\ seen'[p] = file'
    BY <1>0, <1>1 DEF Open, Goto, TypeOK
  <2> QED BY <2>2, <2>3, <2>4 DEF AloneInv
<1> DEFINE Same(p) == /\ \A q \in Procs \ {p} : pc'[q] = pc[q]
                      /\ \A q \in Procs \ {p} :
                            seen'[q] = seen[q] /\ mem'[q] = mem[q] /\ own'[q] = own[q]
\* A running command that is alone: the others are idle or have ended.
<1>2. ASSUME overlapped = {}, NEW p \in Procs, p \in Running,
             NEW q \in Procs \ {p}
      PROVE  pc[q] \in {"idle", "done", "failed"}
  BY <1>2 DEF StoreInv, AloneInv, Running
<1>3. ASSUME overlapped = {}, NEW p \in Procs, p \in Running, Same(p),
             \/ pc'[p] \in {"done", "failed"}
             \/ /\ pc'[p] = "running"
                /\ seen'[p] = file' /\ mem'[p] = Meaning(seen'[p]) /\ seen'[p] # Torn
             \/ /\ pc'[p] \in {"saving", "truncated"}
                /\ seen'[p] # Torn
                /\ mem'[p] \in Changes(p, own'[p], Meaning(seen'[p]))
                /\ IF pc'[p] = "saving" THEN seen'[p] = file' ELSE file' = Empty
      PROVE  AloneInv'
  <2>1. \A q \in Procs \ {p} : pc'[q] \in {"idle", "done", "failed"}
    BY <1>2, <1>3
  <2>2. \A q \in Running' : q = p
    BY <2>1 DEF Running
  <2> QED BY <1>3, <2>1, <2>2 DEF AloneInv
<1>4. ASSUME NEW p \in Procs, Load(p) PROVE AloneInv'
  <2>1. p \in Running /\ seen[p] = file /\ file \in Files
    BY <1>0, <1>4 DEF Load, Running, StoreInv, AloneInv, TypeOK
  <2>2. file # Torn /\ mem'[p] = Meaning(seen[p])
    BY <1>0, <1>4, <2>1, DecodedAlone DEF Load, TypeOK
  <2>3. pc'[p] = "running" /\ seen' = seen /\ file' = file /\ Same(p)
    BY <1>0, <1>4 DEF Load, Goto, TypeOK
  <2> QED BY <1>0, <1>3, <2>1, <2>2, <2>3 DEF Meaning
<1>5. ASSUME NEW p \in Procs, LoadFails(p) \/ Write(p) \/ WriteFails(p)
      PROVE  AloneInv'
  <2>1. p \in Running
    BY <1>5 DEF LoadFails, Write, WriteFails, Running
  <2>2. pc'[p] \in {"done", "failed"} /\ Same(p)
    BY <1>0, <1>5 DEF LoadFails, Write, WriteFails, Goto, TypeOK
  <2> QED BY <1>0, <1>3, <2>1, <2>2
<1>6. ASSUME NEW p \in Procs, Run(p) PROVE AloneInv'
  <2>1. /\ p \in Running /\ seen[p] = file
        /\ seen[p] # Torn /\ mem[p] = Meaning(seen[p])
    BY <1>0, <1>6 DEF Run, Running, StoreInv, AloneInv
  <2>2. mem'[p] \in Changes(p, own'[p], mem[p])
    BY <1>0, <1>6 DEF Run, TypeOK
  <2>3. pc'[p] = "saving" /\ seen' = seen /\ file' = file /\ Same(p)
    BY <1>0, <1>6 DEF Run, Goto, TypeOK
  <2>4. mem'[p] \in Changes(p, own'[p], Meaning(seen'[p]))
    BY <2>1, <2>2, <2>3
  <2>5. seen'[p] = file' /\ seen'[p] # Torn
    BY <2>1, <2>3
  <2> QED BY <1>0, <1>3, <2>1, <2>3, <2>4, <2>5
<1>7. ASSUME NEW p \in Procs, Create(p) PROVE AloneInv'
  <2>1. /\ p \in Running /\ seen[p] # Torn
        /\ mem[p] \in Changes(p, own[p], Meaning(seen[p]))
    BY <1>0, <1>7 DEF Create, Running, StoreInv, AloneInv
  <2>2. /\ pc'[p] = "truncated" /\ file' = Empty /\ Same(p)
        /\ UNCHANGED <<seen, mem, own>>
    BY <1>0, <1>7 DEF Create, Goto, TypeOK
  <2>3. mem'[p] \in Changes(p, own'[p], Meaning(seen'[p]))
    BY <2>1, <2>2
  <2> QED BY <1>0, <1>3, <2>1, <2>2, <2>3
<1>8. ASSUME NEW p \in Procs, Fail(p) PROVE AloneInv'
  <2>1. /\ UNCHANGED <<file, seen, mem, own>> /\ pc'[p] = "failed"
        /\ \A q \in Procs \ {p} : pc'[q] = pc[q]
    BY <1>0, <1>8 DEF Fail, Goto, TypeOK
  <2>2. Running' \subseteq Running
    BY <2>1 DEF Running
  <2>3. \A q \in Procs : pc'[q] = pc[q] \/ pc'[q] = "failed"
    BY <2>1
  <2> QED BY <1>0, <2>1, <2>2, <2>3 DEF StoreInv, AloneInv, Meaning
<1>9. CASE UNCHANGED vars
  BY <1>0, <1>9 DEF vars, StoreInv, AloneInv, Running, Meaning
<1> QED
  BY <1>1, <1>4, <1>5, <1>6, <1>7, <1>8, <1>9 DEF Next

LEMMA StoreInvariant == Spec => []StoreInv
<1>1. Init => StoreInv
  BY InitTyped, AloneInit DEF StoreInv
<1>2. StoreInv /\ [Next]_vars => StoreInv'
  BY NextTyped, AloneNext DEF StoreInv
<1> QED BY <1>1, <1>2, PTL DEF Spec

\* The register holds what a truncating command had read, or else the file.
LEMMA ValueIs ==
    ASSUME StoreInv, overlapped = {}
    PROVE  /\ \A p \in Procs : pc[p] = "truncated" => Value = Meaning(seen[p])
           /\ (\A p \in Procs : pc[p] # "truncated") => Value = Meaning(file)
<1>1. ASSUME NEW p \in Procs, pc[p] = "truncated"
      PROVE  Value = Meaning(seen[p])
  <2> DEFINE q == CHOOSE q \in Procs : pc[q] = "truncated"
  <2>1. q \in Procs /\ pc[q] = "truncated"
    BY <1>1
  <2>2. q = p
    BY <1>1, <2>1 DEF StoreInv, AloneInv, Running
  <2> QED BY <1>1, <2>2 DEF Value
<1> QED BY <1>1 DEF Value

\* A command that ends, and nothing else.
LEMMA OutcomeEnds ==
    ASSUME TypeOK, NEW p \in Procs, NEW o \in {"done", "failed"},
           pc[p] \notin {"done", "failed"}, Goto(p, o)
    PROVE  /\ Outcome[p] = "pending"
           /\ Outcome' = [Outcome EXCEPT ![p] = o]
<1>1. \A q \in Procs : pc'[q] = IF q = p THEN o ELSE pc[q]
  BY DEF TypeOK, Goto
<1> QED BY <1>1 DEF Outcome

LEMMA OutcomePending ==
    ASSUME TypeOK, NEW p \in Procs,
           NEW s \in Steps \ {"done", "failed"},
           pc[p] \notin {"done", "failed"}, Goto(p, s)
    PROVE  Outcome' = Outcome
<1>1. \A q \in Procs : pc'[q] = IF q = p THEN s ELSE pc[q]
  BY DEF TypeOK, Goto
<1> QED BY <1>1 DEF Outcome

NoneTruncated == \A q \in Procs : pc[q] # "truncated"

\* The command that moves is alone, so nobody else is truncating.
LEMMA OthersRest ==
    ASSUME StoreInv, overlapped = {}, NEW p \in Procs, p \in Running,
           NEW q \in Procs \ {p}
    PROVE  pc[q] \in {"idle", "done", "failed"}
BY DEF StoreInv, AloneInv, Running

\* The register changes when a save is written or cut short and never else.
LEMMA QuietValue ==
    ASSUME StoreInv, StoreInv', overlapped = {}, overlapped' = {},
           NEW p \in Procs,
           Open(p) \/ Load(p) \/ LoadFails(p) \/ Run(p) \/ Create(p) \/ Fail(p)
    PROVE  Value' = Value
<1>0. TypeOK
  BY DEF StoreInv
<1>1. CASE Open(p)
  <2>1. Running = {}
    BY <1>0, <1>1, StartsAlone
  <2>2. NoneTruncated /\ NoneTruncated'
    BY <1>0, <1>1, <2>1 DEF Open, Running, Goto, TypeOK, NoneTruncated
  <2>3. Meaning(file') = Meaning(file)
    BY <1>1, Distinct DEF Open, Meaning
  <2> QED BY <2>2, <2>3 DEF Value, Meaning, NoneTruncated
<1>2. CASE Load(p) \/ Run(p)
  <2>1. p \in Running /\ pc[p] # "truncated"
    BY <1>2 DEF Load, Run, Running
  <2>2. NoneTruncated
    BY <2>1, OthersRest DEF NoneTruncated
  <2>3. NoneTruncated' /\ file' = file
    BY <1>0, <1>2, <2>2 DEF Load, Run, Goto, TypeOK, NoneTruncated
  <2> QED BY <2>2, <2>3 DEF Value, Meaning, NoneTruncated
<1>3. CASE Create(p)
  <2>1. p \in Running /\ pc[p] # "truncated" /\ seen[p] = file
    BY <1>3 DEF Create, Running, StoreInv, AloneInv
  <2>2. NoneTruncated
    BY <2>1, OthersRest DEF NoneTruncated
  <2>3. Value = Meaning(file)
    BY <2>2 DEF Value, NoneTruncated
  <2>4. pc'[p] = "truncated" /\ seen' = seen
    BY <1>0, <1>3 DEF Create, Goto, TypeOK
  <2>5. \A q \in Procs : pc'[q] = "truncated" => q = p
    BY <1>0, <1>3, <2>2 DEF Create, Goto, TypeOK, NoneTruncated
  <2>6. (CHOOSE q \in Procs : pc'[q] = "truncated") = p
    BY <2>4, <2>5
  <2>7. Value' = Meaning(seen[p])
    BY <2>4, <2>6 DEF Value, Meaning
  <2> QED BY <2>1, <2>3, <2>7
<1>4. CASE LoadFails(p) \/ Fail(p)
  <2>1. /\ pc[p] # "truncated" /\ Goto(p, "failed")
        /\ UNCHANGED <<file, seen>>
    BY <1>4 DEF LoadFails, Fail
  <2>2. \A q \in Procs : pc'[q] = "truncated" <=> pc[q] = "truncated"
    BY <1>0, <2>1 DEF Goto, TypeOK
  <2>3. CASE NoneTruncated
    BY <2>1, <2>2, <2>3 DEF Value, Meaning, NoneTruncated
  <2>4. ASSUME NEW q \in Procs, pc[q] = "truncated" PROVE Value' = Value
    <3>1. Value = Meaning(seen[q])
      BY <2>4, ValueIs
    <3>2. \A k \in Procs : pc[k] = "truncated" => k = q
      BY <2>4 DEF StoreInv, AloneInv, Running
    <3>3. (CHOOSE k \in Procs : pc'[k] = "truncated") = q
      BY <2>2, <2>4, <3>2
    <3>4. Value' = Meaning(seen[q])
      BY <2>1, <2>2, <2>4, <3>3 DEF Value, Meaning
    <3> QED BY <3>1, <3>4
  <2> QED BY <2>3, <2>4 DEF NoneTruncated
<1> QED BY <1>1, <1>2, <1>3, <1>4

\* A command that fills the file puts its own change of the register there.
LEMMA WriteValue ==
    ASSUME StoreInv, StoreInv', overlapped = {}, NEW p \in Procs, Write(p)
    PROVE  /\ Value' = mem[p]
           /\ mem[p] \in Changes(p, own[p], Value)
           /\ Value # Torn
<1>0. TypeOK
  BY DEF StoreInv
<1>1. p \in Running /\ pc[p] = "truncated"
  BY DEF Write, Running
<1>2. /\ seen[p] # Torn
      /\ mem[p] \in Changes(p, own[p], Meaning(seen[p]))
  BY <1>1 DEF StoreInv, AloneInv
<1>3. Value = Meaning(seen[p])
  BY <1>1, ValueIs
<1>4. Value # Torn
  BY <1>2, <1>3, Distinct, DefaultsTyped DEF Meaning
<1>5. NoneTruncated'
  BY <1>0, <1>1, OthersRest DEF Write, Goto, TypeOK, NoneTruncated
<1>6. Value' = mem[p]
  BY <1>0, <1>5, Distinct DEF Write, Value, Meaning, TypeOK, NoneTruncated
<1> QED BY <1>2, <1>3, <1>4, <1>6

LEMMA RegisterStep ==
    ASSUME StoreInv, StoreInv', [Next]_vars, overlapped' = {}
    PROVE  Register!Next \/ UNCHANGED Register!vars
<1>0. TypeOK /\ overlapped = {}
  BY OverlapGrows DEF StoreInv
<1>1. ASSUME NEW p \in Procs, Open(p) \/ Load(p) \/ Run(p) \/ Create(p)
      PROVE  UNCHANGED Register!vars
  <2>1. Value' = Value
    BY <1>0, <1>1, QuietValue
  <2>2. \E s \in {"reading", "running", "saving", "truncated"} : Goto(p, s)
    BY <1>1 DEF Open, Load, Run, Create
  <2>3. pc[p] \notin {"done", "failed"}
    BY <1>1 DEF Open, Load, Run, Create
  <2>4. Outcome' = Outcome
    BY <1>0, <2>2, <2>3, OutcomePending DEF Steps
  <2> QED BY <2>1, <2>4 DEF Register!vars
<1>2. ASSUME NEW p \in Procs, Write(p) PROVE Register!Commit(p)
  <2>1. own[p] \in Commands
    BY <1>0 DEF TypeOK
  <2>2. Value # Torn /\ Value' \in Register!Changes(p, own[p], Value)
    BY <1>0, <1>2, WriteValue DEF Changes, NewValues, Register!Changes
  <2>3. Register!Ends(p, "done")
    BY <1>0, <1>2, OutcomeEnds DEF Write, Register!Ends
  <2> QED BY <2>1, <2>2, <2>3 DEF Register!Commit
<1>3. ASSUME NEW p \in Procs, WriteFails(p) PROVE Register!Lose(p)
  <2>1. p \in Running /\ pc[p] = "truncated"
    BY <1>3 DEF WriteFails, Running
  <2>2. Value = Meaning(seen[p]) /\ seen[p] # Torn /\ file = Empty
    BY <1>0, <2>1, ValueIs DEF StoreInv, AloneInv
  <2>3. Value # Torn
    BY <2>2, Distinct, DefaultsTyped DEF Meaning
  <2>4. NoneTruncated'
    BY <1>0, <1>3, <2>1, OthersRest DEF WriteFails, Goto, TypeOK, NoneTruncated
  <2>5. file' \in {Empty, Torn}
    BY <1>3, <2>2 DEF WriteFails
  <2>6. Value' \in {Register!Defaults, Torn}
    BY <2>4, <2>5, Distinct
       DEF Value, Meaning, Defaults, Register!Defaults, NoneTruncated
  <2>7. Register!Ends(p, "failed")
    BY <1>0, <1>3, <2>1, OutcomeEnds DEF WriteFails, Register!Ends
  <2> QED BY <2>3, <2>6, <2>7 DEF Register!Lose
<1>4. ASSUME NEW p \in Procs, LoadFails(p) \/ Fail(p) PROVE Register!Fail(p)
  <2>1. pc[p] \notin {"done", "failed"} /\ Goto(p, "failed")
    BY <1>4 DEF LoadFails, Fail
  <2>2. Value' = Value
    BY <1>0, <1>4, QuietValue
  <2>3. Register!Ends(p, "failed")
    BY <1>0, <2>1, OutcomeEnds DEF Register!Ends
  <2> QED BY <2>2, <2>3 DEF Register!Fail
<1>5. CASE UNCHANGED vars
  BY <1>5 DEF vars, Value, Meaning, Outcome, Register!vars
<1> QED BY <1>1, <1>2, <1>3, <1>4, <1>5 DEF Next, Register!Next

\* A user who waits for each command to end has a register: a command
\* commits its own change, fails with no effect, or loses the file in its save.
THEOREM AloneIsAtomic == Spec => AtomicWhenAlone
<1>1. StoreInv /\ StoreInv' /\ [Next]_vars
        => [overlapped' = {} => Register!Next \/ UNCHANGED Register!vars]_vars
  BY RegisterStep
<1> QED BY <1>1, StoreInvariant, PTL DEF Spec, AtomicWhenAlone

----------------------------------------------------------------------------
(* What finished commands have set                                         *)

\* Whoever runs at the same time knows it, for good.
BesideInv == \A p, q \in Running : p # q => q \in beside[p]

\* Who saved after p has at least begun to; who is in a save that it began
\* before p was done ran alongside p.
AfterInv ==
    \A p \in Procs :
        /\ pc[p] # "done" => after[p] = {}
        /\ \A q \in after[p] : pc[q] \in {"truncated", "done", "failed"}
        /\ \A q \in Procs \ after[p] :
              pc[p] = "done" /\ pc[q] = "truncated" => p \in beside[q]

\* No command that saved after p set f or was cut short.
Untouched(p, f) == \A q \in after[p] : f \notin own[q] /\ q \notin broken

\* The command ran alongside neither p nor one that saved after p.
Apart(q, p) == beside[q] \cap (after[p] \cup {p}) = {}

Clean(p, f) == Untouched(p, f) /\ \A q \in after[p] : Apart(q, p)

\* What p gave to f is in the file, if nobody is saving; in whatever those that
\* saved after p wrote or will write; and in what any command apart from them
\* has read.
Kept(p, f) ==
    /\ IF \E q \in after[p] : pc[q] = "truncated" THEN file = Empty
       ELSE file \in Config /\ file[f] = mem[p][f]
    /\ \A q \in after[p] : mem[q][f] = mem[p][f]
    /\ \A q \in Running \ after[p] : Apart(q, p) =>
          /\ pc[q] = "reading" =>
                seen[q] = file /\ file \in Config /\ file[f] = mem[p][f]
          /\ pc[q] = "running" => mem[q][f] = mem[p][f]
          /\ pc[q] = "saving" => f \in own[q] \/ mem[q][f] = mem[p][f]

KeptInv ==
    \A p \in Procs, f \in Fields : pc[p] = "done" /\ Clean(p, f) => Kept(p, f)

LossInv == TypeOK /\ FileExists /\ BesideInv /\ AfterInv /\ KeptInv

LEMMA OwnTyped == ASSUME TypeOK, NEW p \in Procs PROVE own[p] \subseteq Fields
<1>1. {"accounts", "ttl", "time_remaining", "last_used_account"} \subseteq Fields
  BY DEF Fields, FieldOrder
<1> QED BY <1>1 DEF TypeOK, Commands

LEMMA BesideNext == TypeOK /\ BesideInv /\ [Next]_vars => BesideInv'
<1> SUFFICES ASSUME TypeOK, BesideInv, [Next]_vars PROVE BesideInv'
  OBVIOUS
<1> USE DEF BesideInv, Running, Goto, TypeOK
<1>1. ASSUME NEW p \in Procs, Open(p) PROVE BesideInv'
  <2>1. \A q \in Procs \ {p} : pc'[q] = pc[q]
    BY <1>1 DEF Open
  <2>2. \A q \in Running : q # p
    BY <1>1 DEF Open
  <2>3. /\ beside'[p] = beside[p] \cup Running
        /\ \A q \in Running : beside'[q] = beside[q] \cup {p}
    BY <1>1, <2>2 DEF Open, StartAlongside
  <2> QED BY <2>1, <2>3
<1>2. ASSUME NEW p \in Procs,
             \/ Load(p) \/ LoadFails(p) \/ Run(p) \/ Create(p)
             \/ Write(p) \/ WriteFails(p) \/ Fail(p)
      PROVE  BesideInv'
  BY <1>2 DEF Load, LoadFails, Run, Create, Write, WriteFails, Fail
<1>3. CASE UNCHANGED vars
  BY <1>3 DEF vars
<1> QED BY <1>1, <1>2, <1>3 DEF Next

LEMMA AfterNext ==
    TypeOK /\ BesideInv /\ AfterInv /\ [Next]_vars => AfterInv'
<1> SUFFICES ASSUME TypeOK, BesideInv, AfterInv, [Next]_vars PROVE AfterInv'
  OBVIOUS
<1> USE DEF AfterInv, Goto, TypeOK
<1>1. ASSUME NEW p \in Procs, Open(p) PROVE AfterInv'
  <2>1. \A q \in Procs : beside[q] \subseteq beside'[q]
    BY BesideGrows
  <2> QED BY <1>1, <2>1 DEF Open
<1>2. ASSUME NEW p \in Procs, Load(p) \/ LoadFails(p) \/ Run(p) \/ Fail(p)
      PROVE  AfterInv'
  BY <1>2 DEF Load, LoadFails, Run, Fail
<1>3. ASSUME NEW p \in Procs, Create(p) PROVE AfterInv'
  BY <1>3 DEF Create, SaveAfter
<1>4. ASSUME NEW p \in Procs, Write(p) PROVE AfterInv'
  <2>1. \A q \in Procs : pc[q] = "truncated" /\ q # p => p \in beside[q]
    BY <1>4 DEF Write, BesideInv, Running
  <2> QED BY <1>4, <2>1 DEF Write, SaveAfter
<1>5. ASSUME NEW p \in Procs, WriteFails(p) PROVE AfterInv'
  BY <1>5 DEF WriteFails, SaveAfter
<1>6. CASE UNCHANGED vars
  BY <1>6 DEF vars
<1> QED BY <1>1, <1>2, <1>3, <1>4, <1>5, <1>6 DEF Next

\* A command loads what it began to read, if that is still in the file.
LEMMA LoadsFile ==
    ASSUME TypeOK, NEW q \in Procs, Load(q), seen[q] = file, file \in Config
    PROVE  mem'[q] = file
<1>1. Decoded(file, file) = {Meaning(file)}
  BY DecodedAlone, Distinct DEF Files
<1> QED BY <1>1, Distinct DEF Load, TypeOK, Meaning

LEMMA KeptNext ==
    ASSUME LossInv, BesideInv', AfterInv', [Next]_vars
    PROVE  KeptInv'
<1> SUFFICES ASSUME NEW p \in Procs, NEW f \in Fields, pc'[p] = "done",
                    Clean(p, f)'
             PROVE  Kept(p, f)'
  BY DEF KeptInv
<1>0. TypeOK /\ TypeOK' /\ FileExists /\ BesideInv /\ AfterInv
  BY NextTyped DEF LossInv
\* A command that was done before and clean after the step was clean before.
<1>1. ASSUME pc[p] = "done", after[p] \subseteq after'[p],
             broken \subseteq broken', \A q \in after[p] : own'[q] = own[q]
      PROVE  Clean(p, f) /\ Kept(p, f)
  <2>1. \A q \in after[p] : Apart(q, p)' => Apart(q, p)
    BY <1>0, <1>1, BesideGrows DEF Apart, TypeOK
  <2>2. Clean(p, f)
    BY <1>1, <2>1 DEF Clean, Untouched
  <2> QED BY <1>1, <2>2 DEF LossInv, KeptInv
<1>2. ASSUME NEW q \in Procs, Open(q) PROVE Kept(p, f)'
  <2>1. /\ pc[q] = "idle" /\ pc' = [pc EXCEPT ![q] = "reading"]
        /\ UNCHANGED <<mem, own, broken, after>>
    BY <1>2 DEF Open, Goto
  <2>2. pc[p] = "done" /\ q # p
    BY <1>0, <2>1 DEF TypeOK
  <2>3. file # Absent
    BY <1>0, <2>2 DEF FileExists
  <2>4. file' = file /\ seen' = [seen EXCEPT ![q] = file]
    BY <1>2, <2>3 DEF Open
  <2>5. Clean(p, f) /\ Kept(p, f)
    BY <1>1, <2>1, <2>2
  <2>6. q \notin after[p]
    BY <1>0, <2>1 DEF AfterInv
  <2>7. \A k \in Procs \ {q} : pc'[k] = pc[k] /\ seen'[k] = seen[k]
    BY <1>0, <2>1, <2>4 DEF TypeOK
  <2>8. Running' = Running \cup {q} /\ q \notin Running
    BY <1>0, <2>1 DEF Running, TypeOK
  <2>9. \A k \in Running : Apart(k, p)' => Apart(k, p)
    BY <1>0, <2>1, BesideGrows DEF Apart, Running
  <2>10. Apart(q, p)' => \A k \in after[p] : pc[k] # "truncated"
    <3>1. beside'[q] = beside[q] \cup Running
      BY <1>2 DEF Open, StartAlongside
    <3> QED BY <1>0, <2>1, <3>1 DEF Apart, Running, TypeOK
  <2>11. seen'[q] = file /\ pc'[q] = "reading"
    BY <1>0, <2>1, <2>4 DEF TypeOK
  <2>12. \A k \in after[p] : pc'[k] = pc[k]
    BY <1>0, <2>6, <2>7 DEF TypeOK
  <2>13. ASSUME NEW k \in Running' \ after'[p], Apart(k, p)'
         PROVE  /\ pc'[k] = "reading" =>
                      seen'[k] = file' /\ file' \in Config /\ file'[f] = mem'[p][f]
                /\ pc'[k] = "running" => mem'[k][f] = mem'[p][f]
                /\ pc'[k] = "saving" => f \in own'[k] \/ mem'[k][f] = mem'[p][f]
    <3>1. CASE k = q
      BY <2>1, <2>4, <2>5, <2>10, <2>11, <2>13, <3>1 DEF Kept
    <3>2. CASE k # q
      <4>1. k \in Running \ after[p] /\ Apart(k, p)
        BY <2>1, <2>8, <2>9, <2>13, <3>2
      <4> QED BY <2>1, <2>4, <2>5, <2>7, <3>2, <4>1 DEF Kept, Running
    <3> QED BY <3>1, <3>2
  <2> QED BY <2>1, <2>4, <2>5, <2>12, <2>13 DEF Kept
\* Steps of a command that leave the file and the history alone.
<1>3. ASSUME NEW q \in Procs, pc[q] \in {"idle", "reading", "running", "saving"},
             pc'[q] \in {"running", "saving", "failed"},
             \A k \in Procs \ {q} : pc'[k] = pc[k] /\ mem'[k] = mem[k] /\ own'[k] = own[k],
             UNCHANGED <<file, seen, broken, beside, after>>,
             pc[p] = "done" /\ Kept(p, f) /\ q \notin after[p]
                 /\ Apart(q, p) /\ q \in Running
                 => /\ pc'[q] = "running" => mem'[q][f] = mem[p][f]
                    /\ pc'[q] = "saving" => f \in own'[q] \/ mem'[q][f] = mem[p][f],
             pc[q] = "idle" => pc'[q] = "failed"
      PROVE  Kept(p, f)'
  <2>1. pc[p] = "done" /\ q # p
    BY <1>3
  <2>2. q \notin after[p]
    BY <1>0, <1>3 DEF AfterInv
  <2>3. Clean(p, f) /\ Kept(p, f)
    BY <1>0, <1>1, <1>3, <2>1, <2>2 DEF TypeOK
  <2>4. \A k \in after[p] : pc'[k] = pc[k] /\ mem'[k] = mem[k]
    BY <1>0, <1>3, <2>2 DEF TypeOK
  <2>5. mem'[p] = mem[p]
    BY <1>3, <2>1
  <2>6. ASSUME NEW k \in Running' \ after'[p], Apart(k, p)'
        PROVE  /\ pc'[k] = "reading" =>
                     seen'[k] = file' /\ file' \in Config /\ file'[f] = mem'[p][f]
               /\ pc'[k] = "running" => mem'[k][f] = mem'[p][f]
               /\ pc'[k] = "saving" => f \in own'[k] \/ mem'[k][f] = mem'[p][f]
    <3>1. k \in Running \ after[p] /\ Apart(k, p)
      BY <1>3, <2>6 DEF Running, Apart
    <3>2. CASE k = q
      BY <1>3, <2>1, <2>2, <2>3, <2>5, <3>1, <3>2
    <3>3. CASE k # q
      BY <1>3, <2>3, <2>5, <3>1, <3>3 DEF Kept, Running
    <3> QED BY <3>2, <3>3
  <2> QED BY <1>3, <2>3, <2>4, <2>5, <2>6 DEF Kept
<1>4. ASSUME NEW q \in Procs, Load(q) PROVE Kept(p, f)'
  <2>1. /\ pc[q] = "reading" /\ pc'[q] = "running"
        /\ \A k \in Procs \ {q} : pc'[k] = pc[k] /\ mem'[k] = mem[k]
        /\ UNCHANGED <<file, seen, own, broken, beside, after>>
    BY <1>0, <1>4 DEF Load, Goto, TypeOK
  <2>2. ASSUME Kept(p, f), q \notin after[p], Apart(q, p), q \in Running
        PROVE  mem'[q][f] = mem[p][f]
    <3>1. seen[q] = file /\ file \in Config /\ file[f] = mem[p][f]
      BY <2>1, <2>2 DEF Kept
    <3> QED BY <1>0, <1>4, <3>1, LoadsFile
  <2> QED BY <1>3, <2>1, <2>2
<1>5. ASSUME NEW q \in Procs, Run(q) PROVE Kept(p, f)'
  <2>1. /\ pc[q] = "running" /\ pc'[q] = "saving"
        /\ \A k \in Procs \ {q} : pc'[k] = pc[k] /\ mem'[k] = mem[k] /\ own'[k] = own[k]
        /\ UNCHANGED <<file, seen, broken, beside, after>>
    BY <1>0, <1>5 DEF Run, Goto, TypeOK
  <2>2. mem'[q] \in Changes(q, own'[q], mem[q])
    BY <1>0, <1>5 DEF Run, TypeOK
  <2>3. f \in own'[q] \/ mem'[q][f] = mem[q][f]
    BY <2>2 DEF Changes
  <2> QED BY <1>3, <2>1, <2>3 DEF Kept
<1>6. ASSUME NEW q \in Procs, LoadFails(q) \/ Fail(q) PROVE Kept(p, f)'
  BY <1>0, <1>3, <1>6 DEF LoadFails, Fail, Goto, TypeOK
<1>7. ASSUME NEW q \in Procs, Create(q) PROVE Kept(p, f)'
  <2>1. /\ pc[q] = "saving" /\ pc'[q] = "truncated" /\ file' = Empty
        /\ \A k \in Procs \ {q} : pc'[k] = pc[k]
        /\ UNCHANGED <<seen, mem, own, broken, beside>>
    BY <1>0, <1>7 DEF Create, Goto, TypeOK
  <2>2. pc[p] = "done" /\ q # p
    BY <2>1
  <2>3. after'[p] = after[p] \cup {q}
    BY <1>7, <2>2 DEF Create, SaveAfter
  <2>4. q \notin after[p]
    BY <1>0, <2>1 DEF AfterInv
  <2>5. Clean(p, f) /\ Kept(p, f)
    BY <1>1, <2>1, <2>2, <2>3
  <2>6. f \notin own[q] /\ Apart(q, p)
    BY <2>1, <2>3 DEF Clean, Untouched, Apart
  <2>7. q \in Running /\ q \in Running'
    BY <2>1 DEF Running
  <2>8. mem[q][f] = mem[p][f]
    BY <2>1, <2>4, <2>5, <2>6, <2>7 DEF Kept
  <2>9. ASSUME NEW k \in Running' \ after'[p] PROVE ~Apart(k, p)'
    <3>1. q \in beside'[k]
      BY <2>3, <2>7, <2>9 DEF BesideInv
    <3> QED BY <2>3, <3>1 DEF Apart
  <2> QED BY <2>1, <2>3, <2>5, <2>8, <2>9 DEF Kept
<1>8. ASSUME NEW q \in Procs, Write(q) PROVE Kept(p, f)'
  <2>1. /\ pc[q] = "truncated" /\ pc'[q] = "done" /\ file' = mem[q]
        /\ \A k \in Procs \ {q} : pc'[k] = pc[k]
        /\ UNCHANGED <<seen, mem, own, broken, beside>>
    BY <1>0, <1>8 DEF Write, Goto, TypeOK
  <2>2. q \in Running /\ Running' = Running \ {q} /\ file' \in Config
    BY <1>0, <2>1 DEF Running, TypeOK
  \* Who runs still, ran alongside the one that wrote.
  <2>3. \A k \in Running' : q \in beside'[k]
    BY <1>0, <2>1, <2>2 DEF BesideInv
  <2>4. CASE p = q
    <3>1. after'[p] = {}
      BY <1>0, <1>8, <2>1, <2>4 DEF Write, SaveAfter, AfterInv, TypeOK
    <3> QED BY <2>1, <2>2, <2>3, <2>4, <3>1 DEF Kept, Apart
  <2>5. CASE p # q
    <3>1. pc[p] = "done" /\ after'[p] = after[p] \cup {q}
      BY <1>8, <2>1, <2>5 DEF Write, SaveAfter
    <3>2. Clean(p, f) /\ Kept(p, f)
      BY <1>1, <2>1, <3>1
    <3>3. p \notin beside[q]
      BY <2>1, <3>1 DEF Clean, Apart
    <3>4. q \in after[p]
      BY <1>0, <2>1, <3>1, <3>3 DEF AfterInv
    <3>5. mem[q][f] = mem[p][f]
      BY <3>2, <3>4 DEF Kept
    <3>6. ASSUME NEW k \in Running' PROVE ~Apart(k, p)'
      BY <2>3, <3>1, <3>6 DEF Apart
    <3>7. \A k \in after'[p] : pc'[k] # "truncated"
      BY <1>0, <3>1, <3>6 DEF Clean, Running, TypeOK
    <3> QED BY <2>1, <2>2, <3>1, <3>2, <3>4, <3>5, <3>6, <3>7 DEF Kept
  <2> QED BY <2>4, <2>5
<1>9. ASSUME NEW q \in Procs, WriteFails(q) PROVE Kept(p, f)'
  <2>1. pc[p] = "done" /\ q \in after'[p] /\ q \in broken'
    BY <1>0, <1>9 DEF WriteFails, SaveAfter, Goto, TypeOK
  <2> QED BY <2>1 DEF Clean, Untouched
<1>10. CASE UNCHANGED vars
  <2>1. Clean(p, f) /\ Kept(p, f)
    BY <1>1, <1>10 DEF vars
  <2> QED BY <1>10, <2>1 DEF vars, Kept, Running, Apart
<1> QED BY <1>2, <1>4, <1>5, <1>6, <1>7, <1>8, <1>9, <1>10 DEF Next

LEMMA LossInvariant == Spec => []LossInv
<1>1. Init => LossInv
  BY InitTyped DEF Init, LossInv, BesideInv, AfterInv, KeptInv, Running
<1>2. LossInv /\ [Next]_vars => LossInv'
  <2> SUFFICES ASSUME LossInv, [Next]_vars PROVE LossInv'
    OBVIOUS
  <2>1. TypeOK' /\ FileExists' /\ BesideInv' /\ AfterInv'
    BY NextTyped, BesideNext, AfterNext DEF LossInv
  <2> QED BY <2>1, KeptNext DEF LossInv
<1> QED BY <1>1, <1>2, PTL DEF Spec

\* What a finished command has set can be lost to a command that saves later and
\* sets it, is cut short, or ran alongside it or another that saved later, and to
\* nothing else.
THEOREM LossNeedsOverlap == Spec => []LostOnlyToOverlap
<1>1. LossInv => LostOnlyToOverlap
  <2> SUFFICES ASSUME LossInv, NEW p \in Procs, NEW f \in own[p],
                      pc[p] = "done", file \in Config, Clean(p, f)
               PROVE  file[f] = mem[p][f]
    BY DEF LostOnlyToOverlap, Clean, Untouched, Apart
  <2>1. f \in Fields
    BY OwnTyped DEF LossInv
  <2>2. Kept(p, f)
    BY <2>1 DEF LossInv, KeptInv
  <2> QED BY <2>2, Distinct DEF Kept
<1> QED BY <1>1, LossInvariant, PTL
=============================================================================
