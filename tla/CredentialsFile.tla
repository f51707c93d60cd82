-------------------------- MODULE CredentialsFile --------------------------
(***************************************************************************)
(* How `get` and `switch` hand out credentials, above all `-o awscli`:     *)
(* three keys go into a profile of the AWS credentials file                *)
(* (command/awsconfig.go, switch.go:67-112, get.go:234-253), and the exit  *)
(* status says whether they did (main.go:41-68).                           *)
(*                                                                         *)
(* Like config.json the file is read and written as a whole with no lock:  *)
(* os.WriteFile truncates it, then one write fills it.  Unlike JSON an ini *)
(* file that was cut, or spliced from two, may still be read.  The AWS CLI *)
(* and the SDK read it at any time.                                        *)
(*                                                                         *)
(* How get obtains credentials is in GetCredentials.tla.                   *)
(***************************************************************************)
EXTENDS Naturals

CONSTANTS
    Procs,      \* the commands; p stands for the keys that p obtained
    Profiles,
    Lines,      \* the command lines
    Old,        \* the keys of a profile that was there before
    Lost,       \* a value that was cut, or that was another profile's
    None,       \* no such key; no exit status
    Torn        \* a file that ini.Load does not take

Keys == {"aws_access_key_id", "aws_secret_access_key", "aws_session_token"}

\* What a command line says; its profile is the argument of the command, or for
\* `get` without one the account used last
\* (CloudCliEntry).  Validate has permitted its output.  A `get` may come to no
\* account or no role: none is given and none is remembered.
CommandLine ==
    [name : {"get", "switch"}, output : {"env", "json", "awscli"}, profile : Profiles,
     known : BOOLEAN]

Values == Procs \cup {Old, Lost, None}
Sections == [Keys -> Values]

\* ini.File.  The order of the profiles is not modelled.
Contents == [Profiles -> Sections]

All(v) == [k \in Keys |-> v]

\* An empty file, or none: TouchFile makes one of the other.
Nothing == [q \in Profiles |-> All(None)]

ASSUME FileAssumption ==
    /\ Lines \subseteq {l \in CommandLine : l.known \/ l.name = "get"}
    /\ Torn \notin Contents \cup [Profiles -> Values]
    /\ None \notin Nat
    /\ Old \notin Procs /\ Lost \notin Procs /\ None \notin Procs
    /\ Old # Lost /\ Old # None /\ Lost # None

VARIABLES
    file,       \* ~/.aws/credentials
    pc,         \* where each command stands
    cmd,        \* its command line
    seen,       \* the file when its first bytes were read
    mem,        \* the *ini.File, with the keys set
    status,     \* the exit status
    broken,     \* history: the commands that did not finish a write they began
    overlapped  \* history: the commands that were not alone with the file

vars == <<file, pc, cmd, seen, mem, status, broken, overlapped>>

Saving == {p \in Procs : pc[p] \in {"reading", "loaded", "truncated"}}

Running == {p \in Procs : pc[p] \notin {"idle", "ended"}}

Init ==
    /\ \E had \in SUBSET Profiles :
          file = [q \in Profiles |-> All(IF q \in had THEN Old ELSE None)]
    /\ pc = [p \in Procs |-> "idle"]
    /\ cmd \in [Procs -> Lines]
    /\ seen = [p \in Procs |-> Nothing]
    /\ mem = [p \in Procs |-> Nothing]
    /\ status = [p \in Procs |-> None]
    /\ broken = {}
    /\ overlapped = {}

Goto(p, s) == pc' = [pc EXCEPT ![p] = s]

----------------------------------------------------------------------------
(* The exit status                                                         *)

\* The status an error says it should have (GetExitCode), for one of AWS.
ExitStatus_OfError(err) ==
    CASE err = "none" -> 0 [] err = "panic" -> 2 [] err = "port" -> 4
      [] err = "locked" -> 125 [] err = "other" -> 6

\* main: 125 for a keychain that Darwin has locked.  For any other error
\* CheckErr exits, with 1, before the code of the error is asked for: for a port
\* that Windows denies too, since errors.As looks for a pointer to an Errno and
\* the errors of package net hold an Errno.  2 is Go's for a panic.
ExitStatus(err) ==
    CASE err = "none" -> 0 [] err = "panic" -> 2 [] err = "locked" -> 125
      [] err \in {"port", "other"} -> 1

Exit(p, err) ==
    /\ Goto(p, "ended")
    /\ status' = [status EXCEPT ![p] = ExitStatus(err)]

\* PersistentPostRunE may fail to save config.json, whatever was handed out.
PostRun(p) ==
    /\ pc[p] \in {"delivered", "declined"}
    /\ \E err \in {"none", "other"} : Exit(p, err)
    /\ UNCHANGED <<file, cmd, seen, mem, broken, overlapped>>

----------------------------------------------------------------------------
(* Before the file                                                         *)

\* fetchNewCredentials or those of the environment; getAWSCredentials.
Obtain(p) ==
    /\ pc[p] = "idle" /\ cmd[p].known
    /\ Goto(p, "obtained")
    /\ UNCHANGED <<file, cmd, seen, mem, status, broken, overlapped>>

\* get knows no account and prints its usage, or knows no role and says that
\* --role is missing: Execute returns nil, and nothing was obtained.
Declines(p) ==
    /\ pc[p] = "idle" /\ ~cmd[p].known
    /\ Goto(p, "declined")
    /\ UNCHANGED <<file, cmd, seen, mem, status, broken, overlapped>>

\* get may meet a locked keychain, and with --login a port it may not use.  Both
\* may panic: get for a value of the assertion with no "role/" in it, switch for
\* a caller whose ARN has no slash, as that of root.
ObtainErrors(line) ==
    {"other"} \cup (IF line.known THEN {"panic"} ELSE {})
              \cup (IF line.known /\ line.name = "get" THEN {"port", "locked"} ELSE {})

ObtainFails(p) ==
    /\ pc[p] = "idle"
    /\ \E err \in ObtainErrors(cmd[p]) : Exit(p, err)
    /\ UNCHANGED <<file, cmd, seen, mem, broken, overlapped>>

\* What goes to the standard output, whose errors are not looked at.
Prints(line) ==
    \/ line.output = "env"
    \/ line.output = "json" /\ line.name = "get"

PrintOut(p) ==
    /\ pc[p] = "obtained" /\ Prints(cmd[p])
    /\ Goto(p, "delivered")
    /\ UNCHANGED <<file, cmd, seen, mem, status, broken, overlapped>>

\* To infer the shell, the parent process is looked for and asked for its name,
\* whether it was found or not.
PrintPanics(p) ==
    /\ pc[p] = "obtained" /\ cmd[p].output = "env"
    /\ Exit(p, "panic")
    /\ UNCHANGED <<file, cmd, seen, mem, broken, overlapped>>

\* switch finds only now that it has no output for json.
InvalidOutput(p) ==
    /\ pc[p] = "obtained" /\ ~Prints(cmd[p]) /\ cmd[p].output # "awscli"
    /\ Exit(p, "other")
    /\ UNCHANGED <<file, cmd, seen, mem, broken, overlapped>>

----------------------------------------------------------------------------
(* SaveCloudCredentialInCLI                                                *)

\* The text of a up to somewhere and the text of b from there on: it cannot be
\* read, or some profiles are those of a, others those of b, and the one at the
\* seam has lost keys of its own.
Spliced(a, b) ==
    {Torn} \cup
    IF Torn \in {a, b} THEN {}
    ELSE {[q \in Profiles |->
              IF q = seam THEN [k \in Keys |-> IF k \in left THEN a[q][k] ELSE Lost]
              ELSE IF q \in first THEN a[q] ELSE b[q]] :
             first \in SUBSET Profiles, seam \in Profiles, left \in SUBSET Keys}

\* TouchFile, and ini.Load reads the first bytes.
Touch(p) ==
    /\ pc[p] = "obtained" /\ cmd[p].output = "awscli"
    /\ seen' = [seen EXCEPT ![p] = file]
    /\ overlapped' = IF Saving = {} THEN overlapped ELSE overlapped \cup Saving \cup {p}
    /\ Goto(p, "reading")
    /\ UNCHANGED <<file, cmd, mem, status, broken>>

\* The token of the section stays.
SaveCredentialEntry_NoToken(c, p) ==
    [c EXCEPT ![cmd[p].profile] =
        [All(p) EXCEPT !["aws_session_token"] = c[cmd[p].profile]["aws_session_token"]]]

\* saveCredentialEntry
SaveCredentialEntry(c, p) == [c EXCEPT ![cmd[p].profile] = All(p)]

\* ini.Load if the file changed while it was read, and if not.
Read(first, now) == IF first = now THEN {now} ELSE {now} \cup Spliced(first, now)

\* The entry in a file of its own.
Load_Fresh(p) ==
    /\ pc[p] = "reading"
    /\ mem' = [mem EXCEPT ![p] = SaveCredentialEntry(Nothing, p)]
    /\ Goto(p, "loaded")
    /\ UNCHANGED <<file, cmd, seen, status, broken, overlapped>>

\* ini.Load returns, and the three keys are set.
Load(p) ==
    /\ pc[p] = "reading"
    /\ \E c \in Read(seen[p], file) \ {Torn} :
          mem' = [mem EXCEPT ![p] = SaveCredentialEntry(c, p)]
    /\ Goto(p, "loaded")
    /\ UNCHANGED <<file, cmd, seen, status, broken, overlapped>>

\* SaveTo: os.WriteFile opens the file with O_TRUNC,
Truncate(p) ==
    /\ pc[p] = "loaded"
    /\ file' = Nothing
    /\ Goto(p, "truncated")
    /\ UNCHANGED <<cmd, seen, mem, status, broken, overlapped>>

\* and writes from its beginning, over what another command wrote since.
Write(p) ==
    /\ pc[p] = "truncated"
    /\ file' \in {mem[p]} \cup IF file = Nothing THEN {} ELSE Spliced(mem[p], file)
    /\ Goto(p, "delivered")
    /\ UNCHANGED <<cmd, seen, mem, status, broken, overlapped>>

\* A part of the text gets into the file; the error of SaveTo is dropped.
WriteFails_Ignored(p) ==
    /\ pc[p] = "truncated"
    /\ file' \in {file} \cup Spliced(mem[p], file)
    /\ broken' = broken \cup {p}
    /\ Goto(p, "delivered")
    /\ UNCHANGED <<cmd, seen, mem, status, overlapped>>

\* A part of the text gets into the file.
WriteFails(p) ==
    /\ pc[p] = "truncated"
    /\ file' \in {file} \cup Spliced(mem[p], file)
    /\ broken' = broken \cup {p}
    /\ Exit(p, "other")
    /\ UNCHANGED <<cmd, seen, mem, overlapped>>

\* The error of getCloudCliCredentialsFile is dropped.
SaveFails_Ignored(p) ==
    /\ pc[p] \in {"reading", "loaded"}
    /\ Goto(p, "delivered")
    /\ UNCHANGED <<file, cmd, seen, mem, status, broken, overlapped>>

\* The file cannot be opened, read, parsed or truncated.
SaveFails(p) ==
    /\ pc[p] \in {"reading", "loaded"}
    /\ Exit(p, "other")
    /\ UNCHANGED <<file, cmd, seen, mem, broken, overlapped>>

\* The command is interrupted.
Kill(p) ==
    /\ p \in Running
    /\ broken' = IF pc[p] = "truncated" THEN broken \cup {p} ELSE broken
    /\ Goto(p, "ended")
    /\ UNCHANGED <<file, cmd, seen, mem, status, overlapped>>

Next ==
    \E p \in Procs :
        \/ Obtain(p) \/ Declines(p) \/ ObtainFails(p)
        \/ PrintOut(p) \/ PrintPanics(p) \/ InvalidOutput(p)
        \/ Touch(p) \/ Load(p) \/ Truncate(p) \/ Write(p) \/ WriteFails(p)
        \/ SaveFails(p) \/ PostRun(p) \/ Kill(p)

Spec == Init /\ [][Next]_vars

----------------------------------------------------------------------------
(* Properties                                                              *)

\* Every variable has its type; no other exit status gets out of the program,
\* whatever codes its errors have (main.go:60).
TypeOK ==
    /\ file \in Contents \cup {Torn}
    /\ pc \in [Procs -> {"idle", "obtained", "declined", "reading", "loaded",
                         "truncated", "delivered", "ended"}]
    /\ cmd \in [Procs -> CommandLine]
    /\ seen \in [Procs -> Contents \cup {Torn}]
    /\ mem \in [Procs -> Contents]
    /\ status \in [Procs -> {None, 0, 1, 2, 125}]
    /\ broken \subseteq Procs
    /\ overlapped \subseteq Procs

\* The command is to save, and knows what.
Saves(line) == line.output = "awscli" /\ line.known

Undisturbed == broken = {} /\ overlapped = {}

\* As long as no two saves overlap and none is cut short, the three keys of a
\* profile are of one command, and of one for this profile: a reader never
\* signs with a secret, or a token, that is not its key id's
\* (awsconfig.go:56-62).
KeysBelongTogether ==
    Undisturbed =>
        /\ file # Torn
        /\ \A q \in Profiles :
              \/ file[q] \in {All(None), All(Old)}
              \/ \E p \in Procs : file[q] = All(p) /\ cmd[p].profile = q

\* A command that is alone with the file changes its own profile in it and
\* keeps every other, in whatever state earlier ones left the file
\* (awsconfig.go:64-76).
OtherProfilesKept ==
    [][\A p \in Procs \ overlapped :
          pc[p] = "truncated" /\ pc'[p] = "delivered" =>
              file' = [seen[p] EXCEPT ![cmd[p].profile] = All(p)]]_vars

\* After exit status 0 of a command that knew what to get, the credentials are in
\* the profile, until a command for the same profile replaces them, or while one
\* is writing; unless saves overlapped or another's was cut short
\* (awsconfig.go:75, main.go:59-67).  A `get` that knows no account or no role
\* ends with 0 and has saved nothing (get.go:118, 126-129).
ZeroMeansSaved ==
    \A p \in Procs :
        /\ status[p] = 0 /\ Saves(cmd[p])
        /\ broken \subseteq {p} /\ overlapped = {}
        => \/ /\ file # Torn
              /\ \E q \in Procs :
                    cmd[q].profile = cmd[p].profile /\ file[cmd[p].profile] = All(q)
           \/ \E q \in Procs : pc[q] = "truncated"

----------------------------------------------------------------------------
(* The abstract view                                                       *)

\* Whose the keys of a profile are.
Holder(section) ==
    LET p == section["aws_access_key_id"] IN IF section = All(p) THEN p ELSE Lost

Holders(c) == IF c = Torn THEN Torn ELSE [q \in Profiles |-> Holder(c[q])]

\* While a save is writing, what it read still counts.
Held ==
    IF \E p \in Procs : pc[p] = "truncated"
    THEN Holders(seen[CHOOSE p \in Procs : pc[p] = "truncated"])
    ELSE Holders(file)

\* A command with nothing to save prints what it has, or says what it misses.
Outcome ==
    [p \in Procs |->
        IF pc[p] = "ended" THEN IF status[p] = 0 THEN "zero" ELSE "failed"
        ELSE IF ~Saves(cmd[p]) THEN "talking"
        ELSE IF pc[p] = "delivered" THEN "saved" ELSE "saving"]

Register == INSTANCE ProfileRegister
            WITH target <- [p \in Procs |-> cmd[p].profile],
                 holder <- Held, outcome <- Outcome, Unreadable <- Torn

\* As long as no two saves have overlapped, each is one step, before the exit
\* status, that changes its own profile, and one that is cut short only loses:
\* it never gives a profile to another command, nor ends with 0; nor does any
\* other command that was to save and knew what (awsconfig.go:56-76,
\* main.go:59-67).
AtomicWhenAlone ==
    [][overlapped' = {} => Register!Next \/ UNCHANGED Register!vars]_vars
=============================================================================
