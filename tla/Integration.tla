---- MODULE Integration ----
(***************************************************************************)
(* awi integrate: one pass over the agent clients of a machine that puts   *)
(* AWI's MCP entry into the configuration of each (src/src/integration.rs).*)
(* Three clients are configured by commands of their own (look, remove,    *)
(* add, look again), the others by merging one entry into a file that the  *)
(* client also writes: read, merge, write a temporary file, rename it.     *)
(* The clients, their users and their commands are the environment: they   *)
(* edit, switch off and drop entries, and a command or a write may fail.   *)
(* The command may be killed between any two steps and given again.        *)
(***************************************************************************)
EXTENDS Integers, Sequences, FiniteSets, SequencesExt

CONSTANTS
    Clients,      \* the clients of this instance, a subset of those in Order
    Servers,      \* the commands the user may want registered
    NoServer,     \* no command
    MaxPresent,   \* bound: clients installed at first
    MaxRuns,      \* bound: times the command is given
    MaxEdits,     \* bound: edits by the client or its user
    MaxFaults     \* bound: failures of commands and writes, and kills

Order == << "codex", "gemini", "claude", "copilot", "trae", "zcode", "kimi", "opencode",
            "pi", "cursor", "windsurf", "qwen", "cline", "zed", "amazon-q", "crush" >>

ASSUME ClientsKnown == Clients \subseteq ToSet(Order)
ASSUME ServersNamed == NoServer \notin Servers /\ Servers # {}

\* The clients whose own command edits the configuration.
Commanded == {"codex", "gemini", "claude"}

(* Two clients have two places: OpenCode reads .json or .jsonc, and Cline's CLI and its
   editor extension keep different files.                                              *)
Files == Clients \cup (IF "cline" \in Clients THEN {"cline-legacy"} ELSE {})
                 \cup (IF "opencode" \in Clients THEN {"opencode-jsonc"} ELSE {})

NoEntry == [cmd |-> NoServer, form |-> "flat", kind |-> "none", on |-> TRUE]
Entries == {NoEntry} \cup [cmd : Servers, form : {"flat", "argv", "nested"},
                           kind : {"none", "local", "remote"}, on : BOOLEAN]

(* absent; broken: not JSON at all; odd: JSON with something else where the entries go.
   others counts what the client keeps in the file beside AWI's entry, and notes says
   whether the file has comments, which the JSONC and JSON5 readers pass over.          *)
Configs == [shape : {"absent", "broken", "odd", "fine"}, entry : Entries,
            others : Nat, notes : BOOLEAN]
Torn == [shape |-> "broken", entry |-> NoEntry, others |-> 0, notes |-> FALSE]

Registers == {"configured", "already_configured", "needs_attention"}

VARIABLES
    file,      \* each configuration file
    present,   \* what of each client is on the machine: no, dir (its settings), cli
    run,       \* the command in progress
    settled,   \* ghost: the server a client was said to have, while nobody undid it
    told,      \* ghost: the last word on each client
    gone,      \* ghost: clients whose entry this command took out and did not put back
    budget     \* what the bounds leave

vars == << file, present, run, settled, told, gone, budget >>

Whole(f) == f.shape \in {"absent", "fine"}
NoRun == [pc |-> "idle", todo |-> << >>, asked |-> {}, want |-> NoServer, dry |-> FALSE,
          path |-> "none", temp |-> Torn, report |-> << >>, calm |-> TRUE, before |-> [c \in Clients |-> NoServer],
          base |-> [f \in Files |-> [others |-> 0, notes |-> FALSE]]]

---------------------------------------------------------------------------
(* Where the entry of a client is, and what it looks like. *)

PathOf(c) ==
    CASE c = "cline" /\ present[c] # "cli" -> "cline-legacy"
      [] c = "opencode" /\ file[c].shape = "absent"
                        /\ file["opencode-jsonc"].shape # "absent" -> "opencode-jsonc"
      [] OTHER -> c

Installed(c) == present[c] = "cli" \/ (present[c] = "dir" /\ c \notin Commanded)

Form(f) == CASE f \in {"opencode", "opencode-jsonc"} -> "argv"
             [] f = "cline" -> "nested"
             [] OTHER -> "flat"

\* The files whose entries name their transport.
Typed == {"zcode", "kimi", "copilot", "pi", "crush", "opencode", "opencode-jsonc", "cline"}

Merged(f, want) == [cmd |-> want, form |-> Form(f),
                    kind |-> IF f \in Typed THEN "local" ELSE "none", on |-> TRUE]

\* The files where an entry that is switched off is told from one that is on.
Switched == {"zcode", "kimi", "copilot", "opencode", "opencode-jsonc", "cline-legacy", "crush"}

\* A bug the checks must see.
MatchesTopLevel(f, entry, want) == entry.cmd = want /\ entry.form = "flat"

Matches(f, entry, want) ==
    /\ entry.cmd = want
    /\ entry.form = Form(f)
    /\ f \in {"zcode", "kimi", "copilot", "pi", "crush"} => entry.kind # "remote"
    /\ f \in {"opencode", "opencode-jsonc", "cline"} => entry.kind = "local"
    /\ f \in Switched => entry.on

\* What a list names, each once and in the order of its first naming.
Once(names) ==
    LET upTo[n \in 0..Len(names)] ==
            IF n = 0 THEN << >>
            ELSE LET seen == upTo[n - 1]
                 IN  IF names[n] \in Clients /\ ~Contains(seen, names[n])
                     THEN Append(seen, names[n]) ELSE seen
    IN  upTo[Len(names)]

(* The clients the request names; none or "all" stands for every one. *)
Expand(asked) == Once(IF asked = << >> \/ Contains(asked, "all") THEN Order ELSE asked)

(* Gemini may find the workspace untrusted, and Pi may lack its adapter. *)
Said(c, status) ==
    {status} \cup
    (CASE c = "gemini" /\ status \in {"configured", "already_configured"} -> {"needs_attention"}
       [] c = "pi" /\ status # "failed" -> {IF run.dry THEN "would_configure" ELSE "needs_attention"}
       [] OTHER -> {})

---------------------------------------------------------------------------

(* What a user, an older AWI or another tool may have left in the place of a client: no
   file, one AWI cannot use, or one with other entries and perhaps one of ours.         *)
Labels == {"absent", "broken", "odd", "bare", "mine", "off", "remote"}
Left(f, label) ==
    LET mine == Merged(f, CHOOSE s \in Servers : TRUE)
        with(e) == [shape |-> "fine", entry |-> e, others |-> 1, notes |-> TRUE]
    IN  CASE label = "bare" -> with(NoEntry)
          [] label = "mine" -> with(mine)
          [] label = "off" -> with([mine EXCEPT !.on = FALSE])
          [] label = "remote" -> with([mine EXCEPT !.kind = "remote"])
          [] OTHER -> [shape |-> label, entry |-> NoEntry, others |-> 0, notes |-> FALSE]

Places(c) == {c} \cup (IF c = "opencode" THEN {"opencode-jsonc"} ELSE {})
                 \cup (IF c = "cline" THEN {"cline-legacy"} ELSE {})

Init ==
    /\ present \in { p \in [Clients -> {"no", "dir", "cli"}] :
                        Cardinality({ c \in Clients : p[c] # "no" }) <= MaxPresent }
    /\ LET here == { c \in Clients : present[c] # "no" }
       IN  \E label \in [here -> Labels], place \in [here -> Files] :
             /\ \A c \in here : place[c] \in Places(c)
             /\ file = [f \in Files |->
                          IF \E c \in here : place[c] = f
                          THEN Left(f, label[CHOOSE c \in here : place[c] = f])
                          ELSE Left(f, "absent")]
    /\ run = NoRun
    /\ settled = [c \in Clients |-> NoServer]
    /\ told = [c \in Clients |-> "nothing"]
    /\ gone = {}
    /\ budget = [runs |-> MaxRuns, edits |-> MaxEdits, faults |-> MaxFaults]

---------------------------------------------------------------------------
(* The command. *)

Client == Head(run.todo)
At(pc) == run.pc = pc

\* Something outside goes wrong, and the run is no longer a clean one.
Fault == budget.faults > 0 /\ budget' = [budget EXCEPT !.faults = @ - 1]

\* integrate: parse the clients, resolve the server, go through them in turn.
Start(asked, want, dry) ==
    LET todo == Expand(asked)
        named == ToSet(todo)
    IN  /\ At("idle") /\ budget.runs > 0
        /\ run' = [NoRun EXCEPT !.pc = "look", !.todo = todo, !.asked = named,
                                !.want = want, !.dry = dry,
                                !.before = [c \in Clients |-> IF c \in gone THEN NoServer
                                                                         ELSE settled[c]],
                                !.base = [f \in Files |-> [others |-> file[f].others,
                                                           notes |-> file[f].notes]]]
        \* who asks for another server no longer relies on the one he was told of
        /\ settled' = [c \in Clients |-> IF ~dry /\ c \in named /\ settled[c] # want
                                         THEN NoServer ELSE settled[c]]
        /\ budget' = [budget EXCEPT !.runs = @ - 1]
        /\ UNCHANGED << file, present, told, gone >>

\* A bug the checks must see.
ReportStops(status, calm) ==
    \E said \in Said(Client, status) :
        /\ run' = [run EXCEPT !.pc = "look", !.todo = IF said = "failed" THEN << >> ELSE Tail(@),
                              !.temp = Torn, !.path = "none", !.calm = @ /\ calm,
                              !.report = [c \in DOMAIN @ \cup {Client} |->
                                            IF c = Client THEN said ELSE @[c]]]
        /\ told' = [told EXCEPT ![Client] = said]
        /\ settled' = IF said \in Registers
                      THEN [settled EXCEPT ![Client] = run.want] ELSE settled

(* The client at the head has its status; the next one is looked at whatever it was. *)
Report(status, calm) ==
    \E said \in Said(Client, status) :
        /\ run' = [run EXCEPT !.pc = "look", !.todo = Tail(@), !.temp = Torn, !.path = "none",
                              !.calm = @ /\ calm,
                              !.report = [c \in DOMAIN @ \cup {Client} |->
                                            IF c = Client THEN said ELSE @[c]]]
        /\ told' = [told EXCEPT ![Client] = said]
        /\ settled' = IF said \in Registers /\ run.path \in {"none", PathOf(Client)}
                      THEN [settled EXCEPT ![Client] = run.want] ELSE settled

Step(pc, path) ==
    run' = [run EXCEPT !.pc = pc, !.path = path] /\ UNCHANGED << settled, told >>

Looking == At("look") /\ run.todo # << >>

NotInstalled ==
    /\ Looking /\ ~Installed(Client)
    /\ run' = [run EXCEPT !.todo = Tail(@),
                          !.report = [c \in DOMAIN @ \cup {Client} |->
                                        IF c = Client THEN "not_installed" ELSE @[c]]]
    /\ told' = [told EXCEPT ![Client] = "not_installed"]
    /\ UNCHANGED << file, present, settled, gone, budget >>

(* What every client is asked first: is the entry there as it should be, and is this a
   preview?  Only otherwise does Else run.                                              *)
Decide(path, Else) ==
    IF Matches(path, file[path].entry, run.want) THEN Report("already_configured", TRUE)
    ELSE IF run.dry THEN Report("would_configure", TRUE)
    ELSE Else

---------------------------------------------------------------------------
(* The clients with a command: an entry that does not match is taken out, the new one
   added, and Codex and Gemini are looked at once more.  A command leaves a file it
   cannot use as it is and fails.                                                      *)

(* The look at an entry fails, by the client's command or the read of its file: the entry
   is taken to be missing.                                                             *)
LookFails(client, next) ==
    /\ Looking /\ Client = client /\ Installed(Client)
    /\ IF Whole(file[Client]) THEN Fault ELSE UNCHANGED budget
    /\ IF run.dry THEN Report("would_configure", FALSE)
       ELSE /\ run' = [run EXCEPT !.pc = next, !.path = Client, !.calm = FALSE]
            /\ UNCHANGED << settled, told >>
    /\ UNCHANGED << file, present, gone >>

LookCodex ==
    /\ Looking /\ Client = "codex" /\ Installed(Client) /\ Whole(file[Client])
    /\ Decide(Client, Step(IF file[Client].entry # NoEntry THEN "remove" ELSE "add", Client))
    /\ UNCHANGED << file, present, gone, budget >>

\* The new entry is added over the one that was not seen.
LookCodexFails == LookFails("codex", "add")

LookGemini ==
    /\ Looking /\ Client = "gemini" /\ Installed(Client) /\ file[Client].shape # "broken"
    /\ Decide(Client, Step(IF file[Client].entry # NoEntry THEN "remove" ELSE "add", Client))
    /\ UNCHANGED << file, present, gone, budget >>

LookGeminiFails == LookFails("gemini", "add")

LookClaude ==
    /\ Looking /\ Client = "claude" /\ Installed(Client) /\ file[Client].shape # "broken"
    /\ Decide(Client, Step("remove", Client))
    /\ UNCHANGED << file, present, gone, budget >>

\* Claude's entry is taken out unseen, though it may be as it should be.
LookClaudeFails == LookFails("claude", "remove")

Removable == Whole(file[run.path]) /\ file[run.path].entry # NoEntry

RemoveEntry ==
    /\ At("remove") /\ Removable
    /\ file' = [file EXCEPT ![run.path].entry = NoEntry]
    /\ gone' = gone \cup {Client}
    /\ Step("add", run.path)
    /\ UNCHANGED << present, budget >>

\* Claude's removal may fail, as it does where there is no entry; the others stop there.
RemoveFails ==
    /\ At("remove")
    /\ IF Removable THEN Fault ELSE UNCHANGED budget
    /\ IF Client = "claude" THEN Step("add", run.path) ELSE Report("failed", ~Removable)
    /\ UNCHANGED << file, present, gone >>

AddEntry ==
    /\ At("add") /\ Whole(file[run.path])
    /\ file' = [file EXCEPT ![run.path].shape = "fine",
                            ![run.path].entry = Merged(run.path, run.want)]
    /\ gone' = gone \ {Client}
    /\ IF Client = "claude" THEN Report("configured", TRUE) ELSE Step("verify", run.path)
    /\ UNCHANGED << present, budget >>

Verify ==
    /\ At("verify")
    /\ IF Matches(run.path, file[run.path].entry, run.want)
       THEN Report("configured", TRUE) ELSE Report("failed", TRUE)
    /\ UNCHANGED << file, present, gone, budget >>

\* A bug the checks must see.
CommandFailsUnseen ==
    /\ At("add") \/ At("verify")
    /\ IF Whole(file[run.path]) THEN Fault ELSE UNCHANGED budget
    /\ Report("configured", FALSE)
    /\ UNCHANGED << file, present, gone >>

CommandFails ==
    /\ At("add") \/ At("verify")
    /\ IF Whole(file[run.path]) THEN Fault ELSE UNCHANGED budget
    /\ Report("failed", FALSE)
    /\ UNCHANGED << file, present, gone >>

---------------------------------------------------------------------------
(* The clients without: read the file, merge one entry into what was read, write it
   beside the file and rename it over the file.                                        *)

\* A bug the checks must see.
MergeFromNothing ==
    LET path == PathOf(Client)
    IN  /\ Looking /\ Installed(Client) /\ Client \notin Commanded
        /\ Decide(path, /\ run' = [run EXCEPT !.pc = "write", !.path = path,
                                     !.temp = [shape |-> "fine", others |-> 0, notes |-> FALSE,
                                               entry |-> Merged(path, run.want)]]
                        /\ UNCHANGED << settled, told >>)
        /\ UNCHANGED << file, present, gone, budget >>

(* What was read keeps every setting, in another order and layout; its comments are not
   among what was read.                                                                 *)
Merge ==
    LET path == PathOf(Client)
    IN  /\ Looking /\ Installed(Client) /\ Client \notin Commanded
        /\ IF file[path].shape = "broken" THEN Report("failed", TRUE)
           ELSE Decide(path,
                  IF file[path].shape = "odd" THEN Report("failed", TRUE)
                  ELSE /\ run' = [run EXCEPT !.pc = "write", !.path = path,
                                    !.temp = [file[path] EXCEPT !.shape = "fine", !.notes = FALSE,
                                                 !.entry = Merged(path, run.want)]]
                       /\ UNCHANGED << settled, told >>)
        /\ UNCHANGED << file, present, gone, budget >>

\* The file is there but cannot be read just now.
ReadFails ==
    /\ Looking /\ Installed(Client) /\ Client \notin Commanded
    /\ file[PathOf(Client)].shape \in {"odd", "fine"}
    /\ Fault
    /\ Report("failed", FALSE)
    /\ UNCHANGED << file, present, gone >>

WriteTemporary ==
    /\ At("write")
    /\ Step("rename", run.path)
    /\ UNCHANGED << file, present, gone, budget >>

\* A bug the checks must see.
WriteFailsUnseen ==
    At("write") /\ Fault /\ Report("configured", FALSE) /\ UNCHANGED << file, present, gone >>

\* The disk is full, or the place may not be written: part of the copy stays behind.
WriteFails ==
    /\ At("write") \/ At("rename")
    /\ Fault
    /\ Report("failed", FALSE)
    /\ UNCHANGED << file, present, gone >>

Rename ==
    /\ At("rename")
    /\ file' = [file EXCEPT ![run.path] = run.temp]
    /\ Report("configured", TRUE)
    /\ UNCHANGED << present, gone, budget >>

---------------------------------------------------------------------------

Finish ==
    /\ At("look") /\ run.todo = << >>
    /\ run' = [run EXCEPT !.pc = "done"]
    /\ UNCHANGED << file, present, settled, told, gone, budget >>

\* The report is printed and the command ends.
Leave ==
    /\ At("done")
    /\ run' = NoRun
    /\ UNCHANGED << file, present, settled, told, gone, budget >>

Kill ==
    /\ ~At("idle") /\ ~At("done")
    /\ Fault
    /\ told' = IF run.todo = << >> THEN told ELSE [told EXCEPT ![Client] = "killed"]
    /\ run' = NoRun
    /\ UNCHANGED << file, present, settled, gone >>

(* The clients and their users.  An edit of our entry undoes what was said of it, and a
   run it falls into is not a clean one.                                               *)
Owner(f) == CASE f = "opencode-jsonc" -> "opencode" [] f = "cline-legacy" -> "cline" [] OTHER -> f
Edited == budget.edits > 0 /\ budget' = [budget EXCEPT !.edits = @ - 1]
Undone(c) == settled' = [settled EXCEPT ![c] = NoServer] /\ run' = [run EXCEPT !.calm = FALSE]

AddOther(f) ==
    /\ Edited /\ file[f].shape = "fine"
    /\ file' = [file EXCEPT ![f].others = @ + 1]
    /\ UNCHANGED << present, run, settled, told, gone >>

SwitchOff(f) ==
    /\ Edited /\ file[f].entry # NoEntry /\ file[f].entry.on
    /\ file' = [file EXCEPT ![f].entry.on = FALSE]
    /\ Undone(Owner(f))
    /\ UNCHANGED << present, told, gone >>

Drop(f) ==
    /\ Edited /\ file[f].entry # NoEntry
    /\ file' = [file EXCEPT ![f].entry = NoEntry]
    /\ Undone(Owner(f))
    /\ UNCHANGED << present, told, gone >>

InstallCli(c) ==
    /\ Edited /\ present[c] = "dir"
    /\ present' = [present EXCEPT ![c] = "cli"]
    /\ Undone(c)
    /\ UNCHANGED << file, told, gone >>

(* The requests: every client, or a list that names one twice. *)
Requests == LET here == { c \in Clients : present[c] # "no" }
            IN  { << c, "all" >> : c \in here } \cup { << c, d, c >> : c \in here, d \in here }

Command == \/ \E asked \in Requests, want \in Servers, dry \in BOOLEAN : Start(asked, want, dry)
           \/ NotInstalled \/ LookCodex \/ LookCodexFails \/ LookGemini \/ LookGeminiFails
           \/ LookClaude \/ LookClaudeFails
           \/ RemoveEntry \/ RemoveFails \/ AddEntry \/ Verify \/ CommandFails
           \/ Merge \/ ReadFails \/ WriteTemporary \/ WriteFails \/ Rename \/ Finish \/ Leave \/ Kill
Outside == (\E f \in Files : AddOther(f) \/ SwitchOff(f) \/ Drop(f)) \/ \E c \in Clients : InstallCli(c)

Next == Command \/ Outside
Spec == Init /\ [][Next]_vars

---------------------------------------------------------------------------
(* Every file is absent, unusable or holds entries AWI knows; a run is at one of its steps
   and wants a server.                                                                 *)
Phases == {"idle", "look", "remove", "add", "verify", "write", "rename", "done"}
TypeOK ==
    /\ file \in [Files -> Configs]
    /\ run.pc \in Phases
    /\ run.want \in Servers \cup {NoServer}
    /\ run.base \in [Files -> [others : Nat, notes : BOOLEAN]]

(* A client the command called registered is registered: until somebody edits the entry,
   moves the client or asks for another server, its file holds an entry that matches the
   server, whatever later runs, failed looks, reads, commands and writes, and kills do
   (the status of every integrate_* function).  Only Claude's may be taken out: its
   adapter removes an entry that it could not read, and adding it again may fail.       *)
Registered ==
    \A c \in Clients :
        settled[c] # NoServer => \/ Matches(PathOf(c), file[PathOf(c)].entry, settled[c])
                                 \/ c = "claude" /\ c \in gone

(* "The command is idempotent" (README.md:346): the run after one that registered a client
   does not configure it again, for any client's way of writing and recognising an entry,
   unless a run in between took the entry out and could not put it back.                *)
RepeatIsQuiet ==
    run.calm => \A c \in DOMAIN run.report :
        (run.before[c] = run.want /\ settled[c] = run.want) => run.report[c] # "configured"

(* No client is passed over: at the end each one asked for has exactly one status, though
   others before it failed or are not on the machine; and a clean run leaves every
   installed client whose file can be used registered, from whatever was there: no entry,
   one for another server, one switched off or of another transport, or none because an
   earlier run was killed between removing and adding (the loop of integrate).          *)
PassIsComplete ==
    At("done") =>
        /\ DOMAIN run.report = run.asked
        /\ ~run.dry /\ run.calm =>
               \A c \in run.asked :
                   Installed(c) /\ Whole(file[PathOf(c)]) => run.report[c] \in Registers

SettingsKept ==
    ~At("idle") => \A f \in Files : file[f].others >= run.base[f].others

\* The client of this file was told that its entry had been merged in.
Rewritten(f) == /\ Owner(f) \in DOMAIN run.report
                /\ run.report[Owner(f)] \in {"configured", "needs_attention"}

CommentsKept ==
    ~At("idle") => \A f \in Files : run.base[f].notes => file[f].notes \/ Rewritten(f)

(* What a client kept in its file when the command began is still there at every later
   moment of it: the merge functions start from what was read, never from nothing.  Only
   the comments go, and only from a file whose client is reported as configured: a
   preview, a refusal, a failure or a kill leaves them (read_json, write_json_atomic).  *)
OthersKept == SettingsKept /\ CommentsKept

(* No run tears a file, and one that AWI or the client's command cannot use is left as
   it was found (write_json_atomic, the bails of the merge functions).                  *)
WholeStaysWhole ==
    [][\A f \in Files : /\ Whole(file[f]) => Whole(file'[f])
                        /\ ~Whole(file[f]) => file'[f] = file[f]]_vars

(* An entry that was taken out to be replaced is missing only while the command is about
   to add it, or after the user was told of a failure or killed the command.            *)
NotLostSilently ==
    \A c \in gone :
        \/ run.todo # << >> /\ Client = c /\ At("add")
        \/ told[c] \in {"failed", "killed", "would_configure"}
====
