---------------------------- MODULE ConfigStore ----------------------------
(***************************************************************************)
(* config.json: how the commands of a user load, change and save it        *)
(* (command/root.go:67-85 and command/config.go:195-219, 268-318).         *)
(*                                                                         *)
(* Every command, `roles` and `config-path` as much as `set`, reads the    *)
(* whole file before it runs and writes the whole file after it succeeds.  *)
(* There is no lock and no rename: os.Create truncates, then one write     *)
(* fills the file.  Commands run in several terminals, `get` and `login`   *)
(* for as long as a user takes at the browser, and any of them can be      *)
(* interrupted or find the disk full.                                      *)
(***************************************************************************)
EXTENDS Naturals, Sequences

CONSTANTS
    Procs,      \* the commands the user gives; p stands for a value p sets
    Old,        \* the values of the configuration that was there before
    Unset,      \* 0, null or a missing member: Decode puts the default
    Absent, Empty, Torn,    \* no file, an empty file, not a JSON value
    Error       \* Decode returned an error

\* The members of Config, in the order Encode writes them (config.go:188-193).
FieldOrder == <<"accounts", "ttl", "time_remaining", "last_used_account">>

Fields == {FieldOrder[i] : i \in DOMAIN FieldOrder}

\* What the commands change: nothing (accounts --no-refresh, roles, login,
\* switch, config-path), the accounts (accounts, alias, unalias), one of the
\* settings (set), the account used last (get --bypass-cache), or that and the
\* role of the account (get).
Commands == {{}, {"accounts"}, {"ttl"}, {"time_remaining"},
             {"last_used_account"}, {"accounts", "last_used_account"}}

Values == Procs \cup {Old, Unset}
Config == [Fields -> Values]
Defaults == [f \in Fields |-> Unset]
OldConfig == [f \in Fields |-> Old]

ASSUME ConfigAssumption ==
    /\ Old \notin Procs /\ Unset \notin Procs \cup {Old}
    /\ {Absent, Empty, Torn, Error} \cap Config = {}
    /\ Absent \notin {Empty, Torn} /\ Empty # Torn

VARIABLES
    file,       \* the content of config.json
    pc,         \* where each command stands
    seen,       \* the file when the command read its first bytes
    mem,        \* the *Config in the command's context
    own,        \* the fields the command changed
    broken,     \* history: the commands that did not finish a save they began
    beside,     \* history: the commands that each command ran alongside
    after       \* history: the commands that saved after each one was done

vars == <<file, pc, seen, mem, own, broken, beside, after>>

Steps == {"idle", "reading", "running", "saving", "truncated", "done", "failed"}
Files == Config \cup {Empty, Torn}

Init ==
    /\ file \in {Absent, OldConfig}
    /\ pc = [p \in Procs |-> "idle"]
    /\ seen = [p \in Procs |-> Empty]
    /\ mem = [p \in Procs |-> Defaults]
    /\ own = [p \in Procs |-> {}]
    /\ broken = {}
    /\ beside = [p \in Procs |-> {}]
    /\ after = [p \in Procs |-> {}]

Running == {p \in Procs : pc[p] \notin {"idle", "done", "failed"}}

Goto(p, s) == pc' = [pc EXCEPT ![p] = s]

\* The history of who ran alongside whom, when p starts.
StartAlongside(p) ==
    beside' = [q \in Procs |->
                  CASE q = p -> beside[p] \cup Running
                    [] q # p /\ q \in Running -> beside[q] \cup {p}
                    [] OTHER -> beside[q]]

\* The commands that were not alone while they ran.
overlapped == {p \in Procs : beside[p] # {}}

\* The history of who saved after whom, when p begins or ends a save.
SaveAfter(p) ==
    after' = [q \in Procs |-> IF pc[q] = "done" THEN after[q] \cup {p} ELSE after[q]]

\* ensureConfigFileExists with O_TRUNC among the flags.
Open_Truncates(p) ==
    /\ pc[p] = "idle"
    /\ file' = Empty
    /\ seen' = [seen EXCEPT ![p] = file']
    /\ StartAlongside(p)
    /\ Goto(p, "reading")
    /\ UNCHANGED <<mem, own, broken, after>>

\* loadConfig: ensureConfigFileExists creates or opens the file, and Decode
\* reads its first bytes.
Open(p) ==
    /\ pc[p] = "idle"
    /\ file' = IF file = Absent THEN Empty ELSE file
    /\ seen' = [seen EXCEPT ![p] = file']
    /\ StartAlongside(p)
    /\ Goto(p, "reading")
    /\ UNCHANGED <<mem, own, broken, after>>

\* The members up to one come from c, the others from d.
Mixtures(c, d) ==
    {[f \in Fields |-> IF f \in {FieldOrder[i] : i \in 1..k} THEN c[f] ELSE d[f]] :
        k \in 1..(Len(FieldOrder) - 1)}

\* The file changed while it was read: the first part is what it was (of an
\* unfinished save if it was torn) and the rest is what it is.
HalfRead(first, now) ==
    IF now \in {first, Empty, Torn} THEN {}
    ELSE UNION {Mixtures(c, now) :
                    c \in IF first = Torn THEN {mem[q] : q \in broken} ELSE {first}}

\* Decode that takes any error of the JSON decoder for an empty file.
Decoded_IgnoresErrors(first, now) ==
    IF first \in {Empty, Torn} THEN {Defaults} ELSE {first}

\* What Decode makes of a file whose content was first and is now: an empty
\* file is the defaults, and one that does not change is its value or an error.
Decoded(first, now) ==
    CASE first = Empty -> {Defaults}
      [] first = Torn -> {Error} \cup HalfRead(first, now)
      [] first \in Config ->
            {first} \cup (IF now = first THEN {} ELSE {Error}) \cup HalfRead(first, now)

\* PersistentPreRunE that goes on with whatever loadConfig returns.
Load_IgnoresError(p) ==
    /\ pc[p] = "reading"
    /\ \E c \in Decoded(seen[p], file) : mem' = [mem EXCEPT ![p] = c]
    /\ Goto(p, "running")
    /\ UNCHANGED <<file, seen, own, broken, beside, after>>

\* PersistentPreRunE: the rest of Decode, and the command has its *Config.
Load(p) ==
    /\ pc[p] = "reading"
    /\ \E c \in Decoded(seen[p], file) \ {Error} : mem' = [mem EXCEPT ![p] = c]
    /\ Goto(p, "running")
    /\ UNCHANGED <<file, seen, own, broken, beside, after>>

\* PersistentPreRunE: "failed to load config"; the command does not run.
LoadFails(p) ==
    /\ pc[p] = "reading"
    /\ Error \in Decoded(seen[p], file)
    /\ Goto(p, "failed")
    /\ UNCHANGED <<file, seen, mem, own, broken, beside, after>>

\* The values p may give to the fields in cmd: one of its own, or the default
\* again (`set ttl 0`, `accounts` with an empty list); `get` never resets.
NewValues(p, cmd) == IF "last_used_account" \in cmd THEN {p} ELSE {p, Unset}

\* The configuration c after p changed the fields in cmd.
Changes(p, cmd, c) ==
    {[f \in Fields |-> IF f \in cmd THEN v ELSE c[f]] : v \in NewValues(p, cmd)}

\* A command that builds the Config to save from its own fields alone.
Run_FreshConfig(p) ==
    /\ pc[p] = "running"
    /\ \E cmd \in Commands :
          /\ own' = [own EXCEPT ![p] = cmd]
          /\ \E c \in Changes(p, cmd, Defaults) : mem' = [mem EXCEPT ![p] = c]
    /\ Goto(p, "saving")
    /\ UNCHANGED <<file, seen, broken, beside, after>>

\* Run or RunE changes the *Config in place and returns nil.
Run(p) ==
    /\ pc[p] = "running"
    /\ \E cmd \in Commands :
          /\ own' = [own EXCEPT ![p] = cmd]
          /\ \E c \in Changes(p, cmd, mem[p]) : mem' = [mem EXCEPT ![p] = c]
    /\ Goto(p, "saving")
    /\ UNCHANGED <<file, seen, broken, beside, after>>

\* saveConfig: os.Create makes the file empty.
Create(p) ==
    /\ pc[p] = "saving"
    /\ file' = Empty
    /\ SaveAfter(p)
    /\ Goto(p, "truncated")
    /\ UNCHANGED <<seen, mem, own, broken, beside>>

\* saveConfig: Encode writes the value with one Write, from the start of the
\* file.  (If another command has filled the file meanwhile and its value was
\* longer, its tail stays behind; Decode stops before it.)
Write(p) ==
    /\ pc[p] = "truncated"
    /\ file' = mem[p]
    /\ SaveAfter(p)
    /\ Goto(p, "done")
    /\ UNCHANGED <<seen, mem, own, broken, beside>>

\* The write fails or the process is killed in it: some of the bytes, or none,
\* perhaps over a value that another command has written meanwhile.
WriteFails(p) ==
    /\ pc[p] = "truncated"
    /\ file' \in {file, Torn} \cup
                  (IF file \in {Empty, Torn} THEN {} ELSE Mixtures(mem[p], file))
    /\ broken' = broken \cup {p}
    /\ SaveAfter(p)
    /\ Goto(p, "failed")
    /\ UNCHANGED <<seen, mem, own, beside>>

\* The command is interrupted, returns an error (cobra then skips
\* PersistentPostRunE) or cannot open the file: it ends and saves nothing.
Fail(p) ==
    /\ pc[p] \in {"idle", "reading", "running", "saving"}
    /\ Goto(p, "failed")
    /\ UNCHANGED <<file, seen, mem, own, broken, beside, after>>

Next ==
    \E p \in Procs :
        \/ Open(p) \/ Load(p) \/ LoadFails(p) \/ Run(p)
        \/ Create(p) \/ Write(p) \/ WriteFails(p) \/ Fail(p)

Spec == Init /\ [][Next]_vars

----------------------------------------------------------------------------
(* Properties                                                              *)

\* Every variable has its type; a command that has loaded has a Config.
TypeOK ==
    /\ file \in Files \cup {Absent}
    /\ pc \in [Procs -> Steps]
    /\ seen \in [Procs -> Files]
    /\ mem \in [Procs -> Config]
    /\ own \in [Procs -> Commands]
    /\ broken \in SUBSET Procs
    /\ beside \in [Procs -> SUBSET Procs]
    /\ after \in [Procs -> SUBSET Procs]

\* Commands that began to read the file as it is, unreadable, and commands
\* that have not begun yet: nobody still holds a Config from before.
NobodyHoldsConfig ==
    \A p \in Procs :
        \/ pc[p] \in {"idle", "done", "failed"}
        \/ pc[p] = "reading" /\ seen[p] = Torn

\* Once the file is unreadable and no command that loaded it before is left,
\* it stays unreadable, and every later command fails: there is no recovery
\* but by hand (config.go:206-208, root.go:68-71).
UnreadableForGood ==
    [][file = Torn /\ NobodyHoldsConfig => (file = Torn /\ NobodyHoldsConfig)']_vars

\* What a finished command set is in the file until a command that saves later
\* sets it anew, or is cut short in its save, or had run alongside it or alongside
\* another that saved later: then one writes back what it had read before the
\* other wrote, whatever it was asked to do (root.go:79-85).  Commands that only
\* read, or that ran alongside others before, lose nothing.
LostOnlyToOverlap ==
    \A p \in Procs : \A f \in own[p] :
        pc[p] = "done" /\ file \in Config /\ file[f] # mem[p][f] =>
            \E q \in after[p] :
                \/ f \in own[q]
                \/ q \in broken
                \/ beside[q] \cap (after[p] \cup {p}) # {}

\* The register's value: the file as Decode would take it, and while a save
\* is under way what the command had read before it.
Meaning(content) ==
    CASE content \in {Absent, Empty} -> Defaults
      [] content = Torn -> Torn
      [] OTHER -> content

Value ==
    IF \E p \in Procs : pc[p] = "truncated"
    THEN Meaning(seen[CHOOSE p \in Procs : pc[p] = "truncated"])
    ELSE Meaning(file)

Outcome ==
    [p \in Procs |-> IF pc[p] \in {"done", "failed"} THEN pc[p] ELSE "pending"]

Register == INSTANCE ConfigRegister
            WITH value <- Value, outcome <- Outcome, Unreadable <- Torn

\* As long as no two commands have overlapped, a command is one step of a
\* register: it changes its own fields of what is there, or nothing, or an
\* interrupted save loses everything (root.go:67-85).
AtomicWhenAlone ==
    [][overlapped' = {} => Register!Next \/ UNCHANGED Register!vars]_vars

\* "Alias an account to a nickname so you can refer to the account by the
\* nickname." (alias.go:10)  With no save cut short, the nickname of a command
\* that has finished stays until another command changes the accounts.
AliasSticks ==
    \A p \in Procs :
        /\ pc[p] = "done" /\ own[p] = {"accounts"}
        /\ \A q \in Procs \ {p} : "accounts" \notin own[q]
        /\ broken = {} /\ file \in Config
        => file["accounts"] = mem[p]["accounts"]
=============================================================================
