------------------------- MODULE IntegrationProofs -------------------------
(***************************************************************************)
(* Proofs about Integration, for any clients, servers, edits, failures and *)
(* kills, in two invariants.  The first is about the files: no run of      *)
(* awi integrate tears one or drops what a client keeps in it; it does not *)
(* rely on the request naming known clients only.  The second, on top of   *)
(* it, is about the clients one by one: each is registered when it was     *)
(* said to be, none is passed over, none is configured twice, and none     *)
(* loses its entry without a word.                                         *)
(***************************************************************************)
EXTENDS Integration, NaturalsInduction, WellFoundedInduction, SequenceTheorems, TLAPS

-----------------------------------------------------------------------------
(* The first inductive invariant: the files.                               *)

Record ==
    run = [pc |-> run.pc, todo |-> run.todo, asked |-> run.asked, want |-> run.want,
           dry |-> run.dry, path |-> run.path, temp |-> run.temp, report |-> run.report,
           calm |-> run.calm, before |-> run.before, base |-> run.base]

\* What a run will rename over a file was merged from that file, which is usable.
MergedFrom(f) ==
    /\ run.temp \in Configs
    /\ run.temp.shape = "fine"
    /\ run.temp.others >= run.base[f].others
    /\ Whole(file[f])

Merging ==
    /\ ~At("idle") => run.want \in Servers
    /\ (At("write") \/ At("rename")) /\ run.path \in Files => MergedFrom(run.path)

\* Only a usable file has an entry of ours.
Unusable == \A f \in Files : ~Whole(file[f]) => file[f].entry = NoEntry

IntegrationInv == TypeOK /\ Record /\ Merging /\ Unusable /\ SettingsKept

-----------------------------------------------------------------------------
(* What the parts of the actions do to the run.                            *)

LEMMA MergedIsEntry ==
    ASSUME NEW f, NEW want \in Servers
    PROVE  Merged(f, want) \in Entries
  BY DEF Merged, Entries, Form

LEMMA ReportRun ==
    ASSUME Record, NEW status, NEW calm, Report(status, calm)
    PROVE  /\ Record'
           /\ run'.pc = "look" /\ run'.want = run.want /\ run'.base = run.base
  BY DEF Record, Report

LEMMA StepRun ==
    ASSUME Record, NEW pc, NEW path, Step(pc, path)
    PROVE  /\ Record'
           /\ run'.pc = pc /\ run'.path = path /\ run'.want = run.want
           /\ run'.base = run.base /\ run'.temp = run.temp
  BY DEF Record, Step

-----------------------------------------------------------------------------
(* What a step does to the files.                                          *)

\* A step keeps every file usable or untouched, and what the clients keep there.
Keeps ==
    /\ file' \in [Files -> Configs]
    /\ \A f \in Files : /\ Whole(file[f]) => Whole(file'[f])
                        /\ ~Whole(file[f]) => file'[f] = file[f]
    /\ ~At("idle") => \A f \in Files : file'[f].others >= run.base[f].others

\* The run goes on with the request it began with, and with its copy if it has one.
GoesOn ==
    /\ Record'
    /\ run'.pc \in Phases
    /\ run'.want = run.want /\ run'.base = run.base
    /\ run'.pc = "idle" <=> run.pc = "idle"
    /\ run'.pc \in {"write", "rename"} =>
           /\ run.pc \in {"write", "rename"}
           /\ run'.path = run.path /\ run'.temp = run.temp

LEMMA SameFiles ==
    ASSUME IntegrationInv, file' = file
    PROVE  Keeps
  BY DEF IntegrationInv, TypeOK, Keeps, SettingsKept, At

LEMMA StepKeepsInv ==
    ASSUME IntegrationInv, Keeps, GoesOn
    PROVE  IntegrationInv'
<1>1. TypeOK'
  BY DEF IntegrationInv, TypeOK, Keeps, GoesOn
<1>2. Merging'
  <2>1. ~At("idle")' => run'.want \in Servers
    BY DEF IntegrationInv, Merging, GoesOn, At
  <2>2. ASSUME run'.pc \in {"write", "rename"}, run'.path \in Files
        PROVE  /\ run'.temp \in Configs
               /\ run'.temp.shape = "fine"
               /\ run'.temp.others >= run'.base[run'.path].others
               /\ Whole(file'[run'.path])
    <3>1. MergedFrom(run.path) /\ run.path \in Files /\ run'.path = run.path /\ run'.temp = run.temp
      BY <2>2 DEF IntegrationInv, Merging, GoesOn, At
    <3>2. Whole(file'[run.path])
      BY <3>1 DEF Keeps, MergedFrom
    <3> QED
      BY <3>1, <3>2 DEF MergedFrom, GoesOn
  <2> QED
    BY <2>1, <2>2 DEF Merging, MergedFrom, At, Whole
<1>3. Unusable'
  BY DEF IntegrationInv, Unusable, Keeps, Whole
<1>4. SettingsKept'
  BY DEF SettingsKept, Keeps, GoesOn, At
<1> QED
  BY <1>1, <1>2, <1>3, <1>4 DEF IntegrationInv, GoesOn

\* No command runs any more: nothing is promised of the next one yet.
LEMMA RunEnds ==
    ASSUME IntegrationInv, file' = file, run' = NoRun
    PROVE  IntegrationInv'
<1>1. Record' /\ run'.pc = "idle" /\ run'.want = NoServer /\ run'.base \in [Files -> [others : Nat, notes : BOOLEAN]]
  BY DEF NoRun, Record
<1> QED
  BY <1>1 DEF IntegrationInv, TypeOK, Phases, Merging, Unusable, SettingsKept, At, Whole, MergedFrom

-----------------------------------------------------------------------------
(* The steps that change no file.                                          *)

LEMMA ReportGoesOn ==
    ASSUME IntegrationInv, ~At("idle"), NEW status, NEW calm, Report(status, calm)
    PROVE  GoesOn
  BY ReportRun DEF IntegrationInv, GoesOn, Phases, At

LEMMA StepGoesOn ==
    ASSUME IntegrationInv, ~At("idle"), NEW pc \in {"remove", "add", "verify"}, NEW path,
           Step(pc, path)
    PROVE  GoesOn
  BY StepRun DEF IntegrationInv, GoesOn, Phases, At

LooksFail == LookCodexFails \/ LookGeminiFails \/ LookClaudeFails

Quiet ==
    \/ NotInstalled \/ LookCodex \/ LookGemini \/ LookClaude \/ LooksFail
    \/ ReadFails \/ RemoveFails \/ Verify \/ CommandFails \/ WriteTemporary \/ WriteFails \/ Finish

LEMMA QuietSteps ==
    ASSUME IntegrationInv, Quiet
    PROVE  Keeps /\ GoesOn
<1>1. Keeps
  <2>1. file' = file
    BY DEF Quiet, NotInstalled, LookCodex, LookGemini, LookClaude, LooksFail, LookCodexFails,
           LookGeminiFails, LookClaudeFails, LookFails, ReadFails, RemoveFails, Verify, CommandFails, WriteTemporary, WriteFails, Finish
  <2> QED
    BY <2>1, SameFiles
<1>2. GoesOn
  <2>1. CASE NotInstalled
    BY <2>1 DEF NotInstalled, Looking, IntegrationInv, GoesOn, Record, Phases, At
  <2>2. CASE LookCodex
    <3>1. CASE Step(IF file[Client].entry # NoEntry THEN "remove" ELSE "add", Client)
      BY <2>2, <3>1, StepGoesOn DEF LookCodex, Looking, At
    <3>2. CASE \E status, calm : Report(status, calm)
      BY <2>2, <3>2, ReportGoesOn DEF LookCodex, Looking, At
    <3> QED
      BY <2>2, <3>1, <3>2 DEF LookCodex, Decide
  <2>3. CASE LooksFail
    <3>1. PICK next \in {"add", "remove"} : \E c : LookFails(c, next)
      BY <2>3 DEF LooksFail, LookCodexFails, LookGeminiFails, LookClaudeFails
    <3>2. CASE run.dry
      BY <3>1, <3>2, ReportGoesOn DEF LookFails, Looking, At
    <3>3. CASE ~run.dry
      BY <3>1, <3>3 DEF LookFails, Looking, IntegrationInv, GoesOn, Record, Phases, At
    <3> QED
      BY <3>2, <3>3
  <2>4. CASE LookGemini
    <3>1. CASE Step(IF file[Client].entry # NoEntry THEN "remove" ELSE "add", Client)
      BY <2>4, <3>1, StepGoesOn DEF LookGemini, Looking, At
    <3>2. CASE \E status, calm : Report(status, calm)
      BY <2>4, <3>2, ReportGoesOn DEF LookGemini, Looking, At
    <3> QED
      BY <2>4, <3>1, <3>2 DEF LookGemini, Decide
  <2>5. CASE LookClaude
    <3>1. CASE Step("remove", Client)
      BY <2>5, <3>1, StepGoesOn DEF LookClaude, Looking, At
    <3>2. CASE \E status, calm : Report(status, calm)
      BY <2>5, <3>2, ReportGoesOn DEF LookClaude, Looking, At
    <3> QED
      BY <2>5, <3>1, <3>2 DEF LookClaude, Decide
  <2>6. CASE RemoveFails
    <3>1. CASE Step("add", run.path)
      BY <2>6, <3>1, StepGoesOn DEF RemoveFails, At
    <3>2. CASE \E status, calm : Report(status, calm)
      BY <2>6, <3>2, ReportGoesOn DEF RemoveFails, At
    <3> QED
      BY <2>6, <3>1, <3>2 DEF RemoveFails
  <2>7. CASE Verify
    BY <2>7, ReportGoesOn DEF Verify, At
  <2>8. CASE CommandFails
    BY <2>8, ReportGoesOn DEF CommandFails, At
  <2>9. CASE WriteTemporary
    BY <2>9, StepRun DEF WriteTemporary, IntegrationInv, GoesOn, Phases, At
  <2>10. CASE WriteFails
    BY <2>10, ReportGoesOn DEF WriteFails, At
  <2>11. CASE ReadFails
    BY <2>11, ReportGoesOn DEF ReadFails, Looking, At
  <2>12. CASE Finish
    BY <2>12 DEF Finish, IntegrationInv, GoesOn, Record, Phases, At
  <2> QED
    BY <2>1, <2>2, <2>3, <2>4, <2>5, <2>6, <2>7, <2>8, <2>9, <2>10, <2>11, <2>12 DEF Quiet
<1> QED
  BY <1>1, <1>2

-----------------------------------------------------------------------------
(* The steps of a run that make or write a copy, and of commands that edit. *)

LEMMA MergeStep ==
    ASSUME IntegrationInv, Merge
    PROVE  IntegrationInv' /\ Keeps
<1> DEFINE path == PathOf(Client)
<1>1. file' = file /\ Looking
  BY DEF Merge
<1>2. Keeps
  BY <1>1, SameFiles
<1>3. CASE \E status, calm : Report(status, calm)
  BY <1>1, <1>2, <1>3, ReportGoesOn, StepKeepsInv DEF Looking, At
<1>4. CASE ~\E status, calm : Report(status, calm)
  <2>1. /\ file[path].shape \notin {"broken", "odd"}
        /\ run' = [run EXCEPT !.pc = "write", !.path = path,
                              !.temp = [file[path] EXCEPT !.shape = "fine", !.notes = FALSE,
                                                          !.entry = Merged(path, run.want)]]
    BY <1>4 DEF Merge, Decide
  <2>2. /\ Record'
        /\ run'.pc = "write" /\ run'.path = path /\ run'.want = run.want /\ run'.base = run.base
        /\ run'.temp = [file[path] EXCEPT !.shape = "fine", !.notes = FALSE,
                                             !.entry = Merged(path, run.want)]
    BY <2>1 DEF IntegrationInv, Record
  <2>3. run.want \in Servers
    BY <1>1 DEF IntegrationInv, Merging, Looking, At
  <2>4. TypeOK'
    BY <1>1, <2>2 DEF IntegrationInv, TypeOK, Phases
  <2>5. ASSUME path \in Files
        PROVE  /\ run'.temp \in Configs
               /\ run'.temp.shape = "fine"
               /\ run'.temp.others >= run.base[path].others
               /\ Whole(file[path])
    <3>1. file[path] \in Configs /\ file[path].others >= run.base[path].others
      BY <1>1, <2>5 DEF IntegrationInv, TypeOK, SettingsKept, Looking, At
    <3>2. Merged(path, run.want) \in Entries
      BY <2>3, MergedIsEntry
    <3>3. Whole(file[path])
      BY <2>1, <3>1 DEF Configs, Whole
    <3> HIDE DEF path
    <3> QED
      BY <2>2, <3>1, <3>2, <3>3 DEF Configs
  <2>6. Merging'
    <3> HIDE DEF path
    <3> QED
      BY <1>1, <2>2, <2>3, <2>5 DEF Merging, MergedFrom, Whole, At
  <2>7. Unusable' /\ SettingsKept'
    BY <1>1, <2>2 DEF IntegrationInv, Unusable, SettingsKept, Looking, At, Whole
  <2> QED
    BY <1>2, <2>2, <2>4, <2>6, <2>7 DEF IntegrationInv
<1> QED
  BY <1>3, <1>4

LEMMA RenameStep ==
    ASSUME IntegrationInv, Rename
    PROVE  Keeps /\ GoesOn
<1>1. GoesOn
  BY ReportGoesOn DEF Rename, At
<1>2. Keeps
  <2>1. /\ file \in [Files -> Configs]
        /\ file' = [file EXCEPT ![run.path] = run.temp]
        /\ \A f \in Files : file[f].others >= run.base[f].others
    BY DEF Rename, IntegrationInv, TypeOK, SettingsKept, At
  <2>2. run.path \in Files => MergedFrom(run.path)
    BY DEF Rename, IntegrationInv, Merging
  <2> QED
    BY <2>1, <2>2 DEF Keeps, MergedFrom, Whole
<1> QED
  BY <1>1, <1>2

\* One file keeps its shape, or becomes usable if it was, and gets another entry.
LEMMA EntryKeeps ==
    ASSUME IntegrationInv, NEW f, NEW shape \in {"absent", "broken", "odd", "fine"},
           NEW entry \in Entries,
           f \in Files => Whole(file[f]) /\ shape \in {"absent", "fine"},
           file' = [file EXCEPT ![f].shape = shape, ![f].entry = entry]
    PROVE  Keeps
<1>1. file \in [Files -> Configs] /\ (~At("idle") => \A g \in Files : file[g].others >= run.base[g].others)
  BY DEF IntegrationInv, TypeOK, SettingsKept
<1>2. file' \in [Files -> Configs] /\ \A g \in Files : g # f => file'[g] = file[g]
  BY <1>1 DEF Configs
<1>3. f \in Files => file'[f].shape = shape /\ file'[f].others = file[f].others
  BY <1>1 DEF Configs
<1> QED
  BY <1>1, <1>2, <1>3 DEF Keeps, Whole

LEMMA RemoveAndAdd ==
    ASSUME IntegrationInv, RemoveEntry \/ AddEntry
    PROVE  Keeps /\ GoesOn
<1>1. CASE RemoveEntry
  <2>1. GoesOn
    BY <1>1, StepGoesOn DEF RemoveEntry, At
  <2>2. /\ file \in [Files -> Configs]
        /\ ~At("idle") => \A g \in Files : file[g].others >= run.base[g].others
        /\ file' = [file EXCEPT ![run.path].entry = NoEntry]
        /\ Whole(file[run.path])
    BY <1>1 DEF RemoveEntry, Removable, IntegrationInv, TypeOK, SettingsKept
  <2>3. CASE run.path \in Files
    <3> NoEntry \in Entries
      BY DEF Entries
    <3> QED
      BY <2>1, <2>2, <2>3 DEF Keeps, Configs, Whole
  <2>4. CASE run.path \notin Files
    <3>1. file' = file
      BY <2>2, <2>4
    <3> QED
      BY <2>1, <3>1, SameFiles
  <2> QED
    BY <2>3, <2>4
<1>2. CASE AddEntry
  <2>1. GoesOn
    <3>1. CASE Step("verify", run.path)
      BY <1>2, <3>1, StepGoesOn DEF AddEntry, At
    <3>2. CASE Report("configured", TRUE)
      BY <1>2, <3>2, ReportGoesOn DEF AddEntry, At
    <3> QED
      BY <1>2, <3>1, <3>2 DEF AddEntry
  <2>2. Merged(run.path, run.want) \in Entries
    BY <1>2, MergedIsEntry DEF AddEntry, IntegrationInv, Merging, At
  <2>3. Keeps
    BY <1>2, <2>2, EntryKeeps DEF AddEntry
  <2> QED
    BY <2>1, <2>3
<1> QED
  BY <1>1, <1>2

-----------------------------------------------------------------------------
(* The clients and their users.                                            *)

LEMMA OutsideSteps ==
    ASSUME IntegrationInv, Outside
    PROVE  Keeps /\ GoesOn
<1>1. /\ file \in [Files -> Configs]
      /\ ~At("idle") => \A g \in Files : file[g].others >= run.base[g].others
      /\ run.base \in [Files -> [others : Nat, notes : BOOLEAN]]
  BY DEF IntegrationInv, TypeOK, SettingsKept
<1>2. /\ run' = run => GoesOn
      /\ run' = [run EXCEPT !.calm = FALSE] => GoesOn
  BY DEF IntegrationInv, TypeOK, Record, GoesOn
<1>3. ASSUME NEW f \in Files, AddOther(f)  PROVE Keeps /\ GoesOn
  BY <1>1, <1>2, <1>3 DEF AddOther, Keeps, Configs, Whole
<1>4. ASSUME NEW f \in Files, SwitchOff(f)  PROVE Keeps /\ GoesOn
  <2>1. /\ Whole(file[f]) /\ file[f].entry # NoEntry
        /\ file' = [file EXCEPT ![f].entry.on = FALSE]
        /\ run' = [run EXCEPT !.calm = FALSE]
    BY <1>4 DEF SwitchOff, Undone, IntegrationInv, Unusable
  <2>2. [file[f].entry EXCEPT !.on = FALSE] \in Entries
    <3>1. file[f].entry \in [cmd : Servers, form : {"flat", "argv", "nested"},
                             kind : {"none", "local", "remote"}, on : BOOLEAN]
      BY <1>1, <2>1 DEF Configs, Entries
    <3> QED
      BY <3>1 DEF Entries
  <2>3. file' = [file EXCEPT ![f] = [file[f] EXCEPT !.entry = [file[f].entry EXCEPT !.on = FALSE]]]
    BY <2>1
  <2>4. /\ file[f] \in Configs
        /\ [file[f] EXCEPT !.entry = [file[f].entry EXCEPT !.on = FALSE]] \in Configs
        /\ file'[f].shape = file[f].shape /\ file'[f].others = file[f].others
    <3> DEFINE entry == [file[f].entry EXCEPT !.on = FALSE]
    <3>1. file[f] \in Configs
      BY <1>1
    <3>2. entry \in Entries /\ file'[f] = [file[f] EXCEPT !.entry = entry]
      BY <1>1, <2>2, <2>3
    <3> HIDE DEF entry
    <3>3. /\ [file[f] EXCEPT !.entry = entry] \in Configs
          /\ file'[f].shape = file[f].shape /\ file'[f].others = file[f].others
      BY <3>1, <3>2 DEF Configs
    <3> QED
      BY <3>1, <3>3 DEF entry
  <2>5. /\ file' \in [Files -> Configs]
        /\ \A g \in Files : g # f => file'[g] = file[g]
    BY <1>1, <2>3, <2>4
  <2>6. Keeps
    BY <1>1, <2>1, <2>4, <2>5 DEF Keeps, Whole
  <2> QED
    BY <1>2, <2>1, <2>6
<1>5. ASSUME NEW f \in Files, Drop(f)  PROVE Keeps /\ GoesOn
  <2>1. /\ Whole(file[f])
        /\ file' = [file EXCEPT ![f].entry = NoEntry]
        /\ run' = [run EXCEPT !.calm = FALSE]
    BY <1>5 DEF Drop, Undone, IntegrationInv, Unusable
  <2>2. Keeps
    BY <1>1, <2>1 DEF Keeps, Configs, Entries, Whole
  <2> QED
    BY <1>2, <2>1, <2>2
<1>6. ASSUME NEW c \in Clients, InstallCli(c)  PROVE Keeps /\ GoesOn
  BY <1>2, <1>6, SameFiles DEF InstallCli, Undone
<1> QED
  BY <1>3, <1>4, <1>5, <1>6 DEF Outside

-----------------------------------------------------------------------------
(* The beginning and the end of a run.                                     *)

LEMMA StartStep ==
    ASSUME IntegrationInv, NEW asked, NEW want \in Servers, NEW dry \in BOOLEAN,
           Start(asked, want, dry)
    PROVE  IntegrationInv' /\ Keeps
<1>1. /\ file' = file
      /\ Record'
      /\ run'.pc = "look" /\ run'.want = want
      /\ run'.base = [f \in Files |-> [others |-> file[f].others, notes |-> file[f].notes]]
  BY DEF Start, NoRun, Record
<1>2. run'.base \in [Files -> [others : Nat, notes : BOOLEAN]]
  BY <1>1 DEF IntegrationInv, TypeOK, Configs
<1>3. TypeOK' /\ Merging' /\ Unusable'
  BY <1>1, <1>2 DEF IntegrationInv, TypeOK, Phases, Merging, Unusable, At, Whole
<1>4. SettingsKept'
  BY <1>1, <1>2 DEF IntegrationInv, TypeOK, Configs, SettingsKept
<1> QED
  BY <1>1, <1>3, <1>4, SameFiles DEF IntegrationInv

LEMMA EndSteps ==
    ASSUME IntegrationInv, Leave \/ Kill
    PROVE  IntegrationInv' /\ Keeps
  BY RunEnds, SameFiles DEF Leave, Kill

\* The files a machine may have at first.
LEMMA LeftIsConfig ==
    ASSUME NEW f, NEW label \in Labels
    PROVE  /\ Left(f, label) \in Configs
           /\ ~Whole(Left(f, label)) => Left(f, label).entry = NoEntry
<1> DEFINE server == CHOOSE s \in Servers : TRUE
<1>1. server \in Servers
  BY ServersNamed
<1>2. DEFINE mine == Merged(f, server)
<1>3. mine \in Entries /\ mine.cmd \in Servers
  BY <1>1, MergedIsEntry DEF Merged
<1>4. /\ [mine EXCEPT !.on = FALSE] \in Entries
      /\ [mine EXCEPT !.kind = "remote"] \in Entries
      /\ NoEntry \in Entries
  BY <1>1, <1>3, ServersNamed DEF Entries, Merged, Form, NoEntry
<1>5. Left(f, label) =
        CASE label = "bare" -> [shape |-> "fine", entry |-> NoEntry, others |-> 1, notes |-> TRUE]
          [] label = "mine" -> [shape |-> "fine", entry |-> mine, others |-> 1, notes |-> TRUE]
          [] label = "off" -> [shape |-> "fine", entry |-> [mine EXCEPT !.on = FALSE], others |-> 1, notes |-> TRUE]
          [] label = "remote" ->
               [shape |-> "fine", entry |-> [mine EXCEPT !.kind = "remote"], others |-> 1, notes |-> TRUE]
          [] OTHER -> [shape |-> label, entry |-> NoEntry, others |-> 0, notes |-> FALSE]
  BY DEF Left
<1> HIDE DEF mine, server
<1> QED
  BY <1>3, <1>4, <1>5 DEF Labels, Configs, Whole

LEMMA InitIsConsistent == Init => IntegrationInv
<1> SUFFICES ASSUME Init PROVE IntegrationInv
  OBVIOUS
<1>1. run = NoRun
  BY DEF Init
<1>2. \A f \in Files : /\ file[f] \in Configs
                       /\ ~Whole(file[f]) => file[f].entry = NoEntry
  <2> DEFINE here == { c \in Clients : present[c] # "no" }
  <2>1. PICK label \in [here -> Labels], place \in [here -> Files] :
          file = [f \in Files |->
                    IF \E c \in here : place[c] = f
                    THEN Left(f, label[CHOOSE c \in here : place[c] = f])
                    ELSE Left(f, "absent")]
    BY DEF Init
  <2> HIDE DEF here
  <2>2. "absent" \in Labels
    BY DEF Labels
  <2>3. TAKE f \in Files
  <2>4. CASE \E c \in here : place[c] = f
    <3>1. label[CHOOSE c \in here : place[c] = f] \in Labels
      BY <2>4
    <3> QED
      BY <2>1, <2>4, <3>1, LeftIsConfig
  <2>5. CASE ~\E c \in here : place[c] = f
    BY <2>1, <2>2, <2>5, LeftIsConfig
  <2> QED
    BY <2>4, <2>5
<1>3. file \in [Files -> Configs]
  <2>1. file = [f \in Files |-> file[f]]
    BY DEF Init
  <2> QED
    BY <1>2, <2>1
<1>4. Record /\ run.pc = "idle" /\ run.want = NoServer /\ run.base \in [Files -> [others : Nat, notes : BOOLEAN]]
  BY <1>1 DEF NoRun, Record
<1> QED
  BY <1>2, <1>3, <1>4 DEF IntegrationInv, TypeOK, Phases, Merging, Unusable, SettingsKept, At

-----------------------------------------------------------------------------
(* The theorems about the files.                                           *)

LEMMA NextIsConsistent ==
    ASSUME IntegrationInv, [Next]_vars
    PROVE  IntegrationInv' /\ Keeps
<1>1. CASE Command
  <2>1. CASE \E asked \in Requests, want \in Servers, dry \in BOOLEAN : Start(asked, want, dry)
    BY <2>1, StartStep
  <2>2. CASE Quiet
    BY <2>2, QuietSteps, StepKeepsInv
  <2>3. CASE RemoveEntry \/ AddEntry
    BY <2>3, RemoveAndAdd, StepKeepsInv
  <2>4. CASE Merge
    BY <2>4, MergeStep
  <2>5. CASE Rename
    BY <2>5, RenameStep, StepKeepsInv
  <2>6. CASE Leave \/ Kill
    BY <2>6, EndSteps
  <2> QED
    BY <1>1, <2>1, <2>2, <2>3, <2>4, <2>5, <2>6 DEF Command, Quiet, LooksFail
<1>2. CASE Outside
  BY <1>2, OutsideSteps, StepKeepsInv
<1>3. CASE UNCHANGED vars
  BY <1>3, SameFiles DEF vars, IntegrationInv, TypeOK, Record, Merging, MergedFrom, Unusable,
                         SettingsKept, At, Whole
<1> QED
  BY <1>1, <1>2, <1>3 DEF Next

\* The invariant holds in every reachable state.
THEOREM IntegrationInvariance == Spec => []IntegrationInv
<1>1. IntegrationInv /\ [Next]_vars => IntegrationInv'
  BY NextIsConsistent
<1> QED
  BY InitIsConsistent, <1>1, PTL DEF Spec

\* No step tears a file, and none touches one that cannot be used (write_json_atomic and
\* the bails of the merge functions of integration.rs).
THEOREM FilesStayWhole == Spec => WholeStaysWhole
<1> DEFINE A == \A f \in Files : /\ Whole(file[f]) => Whole(file'[f])
                                 /\ ~Whole(file[f]) => file'[f] = file[f]
<1>1. IntegrationInv /\ [Next]_vars => [A]_vars
  BY NextIsConsistent DEF Keeps
<1>2. Spec => [][A]_vars
  BY <1>1, IntegrationInvariance, PTL DEF Spec
<1> QED
  BY <1>2 DEF WholeStaysWhole

-----------------------------------------------------------------------------
(* What a request names: the recursion of Once, by induction over the list. *)

(* Induction over the naturals, for a set rather than a predicate. *)
Less == { pair \in Nat \X Nat : pair[1] < pair[2] }

LEMMA SetInduction ==
    ASSUME NEW T, 0 \in T, \A n \in Nat : n \in T => n + 1 \in T
    PROVE  Nat \subseteq T
<1>1. SUFFICES ASSUME Nat \ T # {} PROVE FALSE
  OBVIOUS
<1>2. IsWellFoundedOn(Less, Nat)
  BY NatLessThanWellFounded DEF Less, OpToRel
<1>3. PICK n \in Nat \ T : \A m \in Nat \ T : << m, n >> \notin Less
  BY <1>1, <1>2, WFMin
<1>4. n # 0 /\ n - 1 \in Nat /\ << n - 1, n >> \in Less
  BY <1>3 DEF Less
<1> QED
  BY <1>3, <1>4

NoRepeats(s) == \A i, j \in DOMAIN s : s[i] = s[j] => i = j

\* How far the list is read, and what it names so far.
After(seen, name) ==
    IF name \in Clients /\ ~Contains(seen, name) THEN Append(seen, name) ELSE seen

LEMMA OneMore ==
    ASSUME NEW seen \in Seq(Clients), NoRepeats(seen), NEW name
    PROVE  After(seen, name) \in Seq(Clients) /\ NoRepeats(After(seen, name))
<1>1. CASE name \in Clients /\ ~Contains(seen, name)
  <2>1. After(seen, name) = Append(seen, name)
    BY <1>1 DEF After
  <2>2. Append(seen, name) \in Seq(Clients)
    BY <1>1
  <2>3. NoRepeats(Append(seen, name))
    BY <1>1 DEF NoRepeats, Contains
  <2> QED
    BY <2>1, <2>2, <2>3
<1>2. CASE ~(name \in Clients /\ ~Contains(seen, name))
  BY <1>2 DEF After
<1> QED
  BY <1>1, <1>2

Reads(names, f, k) ==
  /\ f \in [0..k -> Seq(Clients)]
  /\ f[0] = << >>
  /\ \A n \in 1..k : f[n] = After(f[n - 1], names[n])
  /\ \A n \in 0..k : NoRepeats(f[n])

LEMMA OnceNames ==
    ASSUME NEW names, Len(names) \in Nat
    PROVE  Once(names) \in Seq(Clients) /\ NoRepeats(Once(names))
<1> DEFINE T == { k \in Nat : \E f : Reads(names, f, k) }
           K == Len(names)
<1>1. 0 \in T
  <2>1. Reads(names, [n \in 0..0 |-> << >>], 0)
    BY DEF Reads, NoRepeats
  <2> QED
    BY <2>1
<1>2. ASSUME NEW k \in Nat, k \in T  PROVE k + 1 \in T
  <2>1. PICK f : Reads(names, f, k)
    BY <1>2
  <2> DEFINE next == After(f[k], names[k + 1])
             g == [n \in 0..(k + 1) |-> IF n = k + 1 THEN next ELSE f[n]]
  <2>2. next \in Seq(Clients) /\ NoRepeats(next)
    BY <2>1, OneMore DEF Reads
  <2>3. g[k + 1] = next /\ \A n \in 0..k : g[n] = f[n]
    OBVIOUS
  <2>5. g \in [0..(k + 1) -> Seq(Clients)]
    BY <2>1, <2>2 DEF Reads
  <2>6. next = After(g[k], names[k + 1])
    BY <2>3
  <2> HIDE DEF g, next
  <2>4. Reads(names, g, k + 1)
    <3>1. \A n \in 1..k : n \in 0..k /\ n - 1 \in 0..k
      OBVIOUS
    <3>2. \A n \in 0..(k + 1) : n \in 0..k \/ n = k + 1
      OBVIOUS
    <3>3. \A n \in 1..(k + 1) : n \in 1..k \/ (n = k + 1 /\ n - 1 = k)
      OBVIOUS
    <3>4. g[0] = << >>
      BY <2>1, <2>3 DEF Reads
    <3>5. \A n \in 1..(k + 1) : g[n] = After(g[n - 1], names[n])
      BY <2>1, <2>3, <2>6, <3>1, <3>3 DEF Reads
    <3>6. \A n \in 0..(k + 1) : NoRepeats(g[n])
      BY <2>1, <2>2, <2>3, <3>2 DEF Reads
    <3> QED
      BY <2>5, <3>4, <3>5, <3>6 DEF Reads
  <2> QED
    BY <2>4
<1>3. PICK f : Reads(names, f, K)
  <2> HIDE DEF T
  <2>1. K \in T
    BY <1>1, <1>2, SetInduction
  <2> QED
    BY <2>1 DEF T
<1> DEFINE Fixed(g) == g = [n \in 0..K |-> IF n = 0 THEN << >> ELSE After(g[n - 1], names[n])]
           once == CHOOSE g : Fixed(g)
<1>4. Once(names) = once[K]
  BY DEF Once, After
<1>5. Fixed(f)
  <2>1. \A n \in 0..K : f[n] = IF n = 0 THEN << >> ELSE After(f[n - 1], names[n])
    BY <1>3 DEF Reads
  <2>2. f = [n \in 0..K |-> f[n]]
    BY <1>3 DEF Reads
  <2> QED
    BY <2>1, <2>2
<1>6. Fixed(once)
  BY <1>5
<1> DEFINE S == { k \in Nat : k \in 0..K => once[k] = f[k] }
<1> HIDE DEF once
<1>7. 0 \in S
  BY <1>3, <1>6 DEF Reads
<1>8. ASSUME NEW k \in Nat, k \in S  PROVE k + 1 \in S
  <2>1. SUFFICES ASSUME k + 1 \in 0..K PROVE once[k + 1] = f[k + 1]
    OBVIOUS
  <2>2. once[k + 1] = After(once[k], names[k + 1])
    BY <1>6, <2>1
  <2>3. k \in 0..K /\ k + 1 \in 1..K /\ (k + 1) - 1 = k
    BY <2>1
  <2> QED
    BY <1>3, <1>8, <2>2, <2>3 DEF Reads
<1>9. once[K] = f[K]
  <2> HIDE DEF S
  <2>1. K \in S
    BY <1>7, <1>8, SetInduction
  <2> QED
    BY <2>1 DEF S
<1> QED
  BY <1>3, <1>4, <1>9 DEF Reads

-----------------------------------------------------------------------------
(* The clients one by one: the second inductive invariant.                 *)

\* The pass is at this client.
Current(c) == run.todo # << >> /\ Client = c

\* Every client has one last word.
OneWordEach(words) == DOMAIN words = Clients /\ words = [c \in Clients |-> words[c]]

Request ==
    /\ present \in [Clients -> {"no", "dir", "cli"}]
    /\ settled \in [Clients -> Servers \cup {NoServer}]
    /\ OneWordEach(told)
    /\ gone \subseteq Clients
    /\ run.todo \in Seq(Clients) /\ NoRepeats(run.todo)
    /\ run.dry \in BOOLEAN /\ run.calm \in BOOLEAN
    /\ run.before \in [Clients -> Servers \cup {NoServer}]
    /\ run.asked \subseteq Clients
    /\ DOMAIN run.report \cup ToSet(run.todo) = run.asked
    /\ DOMAIN run.report \cap ToSet(run.todo) = {}
    /\ At("idle") => DOMAIN run.report = {}
    /\ At("done") => run.todo = << >>
    /\ At("look") => run.path = "none"

\* Where a command of the client's own is at work.
Commanding ==
    run.pc \in {"remove", "add", "verify"} =>
        /\ run.todo # << >> /\ ~run.dry
        /\ Client \in Commanded /\ run.path = Client /\ present[Client] = "cli"
        /\ run.calm => run.before[Client] # run.want
        /\ At("remove") /\ Client # "claude" => settled[Client] = NoServer
        /\ At("remove") /\ run.calm /\ Client # "claude" => file[Client].entry # NoEntry
        /\ At("verify") /\ run.calm => Matches(Client, file[Client].entry, run.want)

\* Where a copy of the client's file is written.
Writing ==
    run.pc \in {"write", "rename"} =>
        /\ run.todo # << >> /\ ~run.dry
        /\ Client \notin Commanded /\ run.path \in Places(Client) \cap Files
        /\ run.temp.entry = Merged(run.path, run.want)
        /\ run.calm => run.before[Client] # run.want

\* An entry that was taken out, and the word the user has of it.
Missing(c) ==
    c \in gone => /\ c \in Commanded /\ present[c] = "cli" /\ file[c].entry = NoEntry
                  /\ \/ Current(c) /\ At("add")
                     \/ told[c] \in {"failed", "killed", "would_configure"}

\* A client said to be registered is, or it is Claude and its entry was taken out unseen.
Holds(c) == settled[c] # NoServer => \/ Matches(PathOf(c), file[PathOf(c)].entry, settled[c])
                                     \/ c = "claude" /\ c \in gone

\* What is still promised of a client while a run goes on.
Promised(c) ==
    ~At("idle") =>
        /\ ~run.dry /\ c \in run.asked => settled[c] \in {NoServer, run.want}
        /\ run.calm /\ run.before[c] = run.want => settled[c] = run.want /\ c \notin gone

\* The status a clean run gave a client is the right one.
Answer(c) ==
    run.calm /\ c \in DOMAIN run.report =>
        /\ run.before[c] = run.want => run.report[c] # "configured"
        /\ ~run.dry => \/ run.report[c] \in Registers
                       \/ ~Installed(c)
                       \/ ~Whole(file[PathOf(c)])

Sound(c) == Missing(c) /\ Holds(c) /\ Promised(c) /\ Answer(c)

PassInv ==
    /\ IntegrationInv
    /\ Request /\ Commanding /\ Writing
    /\ \A c \in Clients : Sound(c)

-----------------------------------------------------------------------------
(* The clients and their places.                                           *)

\* The second places are no clients.
LEMMA SecondPlaces == {"opencode-jsonc", "cline-legacy", "none"} \cap Clients = {}
<1>1. ASSUME NEW c \in ToSet(Order)  PROVE c \notin {"opencode-jsonc", "cline-legacy", "none"}
  <2>1. PICK i \in 1..16 : c = Order[i]
    BY DEF ToSet, Order
  <2> QED
    BY <2>1 DEF Order
<1> QED
  BY <1>1, ClientsKnown

LEMMA PlacesOf ==
    ASSUME NEW c \in Clients
    PROVE  PathOf(c) \in Places(c) \cap Files /\ c \in Places(c) \cap Files
  BY DEF PathOf, Places, Files

LEMMA PlacesApart ==
    ASSUME NEW c \in Clients, NEW d \in Clients, c # d
    PROVE  Places(c) \cap Places(d) = {}
  BY SecondPlaces DEF Places

LEMMA CommandedPath ==
    ASSUME NEW c \in Clients, c \in Commanded
    PROVE  PathOf(c) = c /\ Places(c) = {c}
  BY DEF PathOf, Places, Commanded

LEMMA OwnerOfPlace ==
    ASSUME NEW f \in Files
    PROVE  Owner(f) \in Clients /\ f \in Places(Owner(f))
  BY SecondPlaces DEF Owner, Places, Files

\* What is merged into a file is recognised there.
LEMMA MergedMatches ==
    ASSUME NEW f, NEW want
    PROVE  Matches(f, Merged(f, want), want)
  BY DEF Matches, Merged, Form, Typed

LEMMA MatchesNamed ==
    ASSUME NEW f, NEW entry, NEW want \in Servers, Matches(f, entry, want)
    PROVE  entry # NoEntry
  BY ServersNamed DEF Matches, NoEntry

LEMMA HeadAndTail ==
    ASSUME NEW s \in Seq(Clients), NoRepeats(s), s # << >>
    PROVE  /\ Head(s) \in Clients /\ Head(s) \in ToSet(s)
           /\ Tail(s) \in Seq(Clients) /\ NoRepeats(Tail(s))
           /\ ToSet(Tail(s)) = ToSet(s) \ {Head(s)}
<1>1. /\ Len(s) \in Nat \ {0} /\ Head(s) = s[1] /\ s \in [1..Len(s) -> Clients]
      /\ Tail(s) \in Seq(Clients) /\ Len(Tail(s)) = Len(s) - 1
      /\ \A i \in 1..(Len(s) - 1) : Tail(s)[i] = s[i + 1]
  OBVIOUS
<1>2. DOMAIN s = 1..Len(s) /\ DOMAIN Tail(s) = 1..(Len(s) - 1)
  BY <1>1
<1>3. NoRepeats(Tail(s))
  BY <1>1, <1>2 DEF NoRepeats
<1>4. \A e : e \in ToSet(Tail(s)) <=> e \in ToSet(s) \ {Head(s)}
  <2>1. ASSUME NEW i \in 1..(Len(s) - 1)  PROVE s[i + 1] \in ToSet(s) /\ s[i + 1] # Head(s)
    BY <1>1, <1>2 DEF NoRepeats, ToSet
  <2>2. ASSUME NEW i \in 1..Len(s), s[i] # Head(s)  PROVE s[i] \in ToSet(Tail(s))
    <3>1. i - 1 \in 1..(Len(s) - 1) /\ Tail(s)[i - 1] = s[i]
      BY <1>1, <2>2
    <3> QED
      BY <1>2, <3>1 DEF ToSet
  <2> QED
    BY <1>1, <1>2, <2>1, <2>2 DEF ToSet
<1> QED
  BY <1>1, <1>2, <1>3, <1>4 DEF ToSet

-----------------------------------------------------------------------------
(* What a step leaves alone.                                               *)

\* Nothing of what a client is judged by changes on the machine.
SameOf(c) ==
    /\ PathOf(c)' = PathOf(c)
    /\ present'[c] = present[c]
    /\ file'[PathOf(c)].entry = file[PathOf(c)].entry
    /\ file'[PathOf(c)].shape = file[PathOf(c)].shape

LEMMA SamePlaces ==
    ASSUME NEW c \in Clients, present'[c] = present[c],
           \A f \in Places(c) \cap Files :
               file'[f].shape = file[f].shape /\ file'[f].entry = file[f].entry
    PROVE  SameOf(c)
<1>1. PathOf(c)' = PathOf(c)
  <2>1. c = "opencode" => /\ file'["opencode"].shape = file["opencode"].shape
                          /\ file'["opencode-jsonc"].shape = file["opencode-jsonc"].shape
    BY DEF Places, Files
  <2> QED
    BY <2>1 DEF PathOf
<1> QED
  BY <1>1, PlacesOf DEF SameOf

LEMMA SameMachine ==
    ASSUME NEW c \in Clients, file' = file, present' = present
    PROVE  SameOf(c)
  BY SamePlaces

\* The same run, clean or no longer so.
SameRequest ==
    /\ run'.asked = run.asked /\ run'.want = run.want /\ run'.dry = run.dry
    /\ run'.before = run.before
    /\ run'.pc = "idle" <=> run.pc = "idle"

\* A client the step is not about is as sound as it was.
LEMMA StaysSound ==
    ASSUME NEW c \in Clients, Sound(c), SameOf(c), SameRequest,
           run'.calm => run.calm,
           c \in gone => ~(Current(c) /\ At("add")) \/ (Current(c) /\ At("add"))',
           c \in gone' <=> c \in gone,
           told'[c] = told[c] \/ told'[c] \in {"failed", "killed", "would_configure"},
           settled'[c] = settled[c],
           c \in DOMAIN run'.report => c \in DOMAIN run.report /\ run'.report[c] = run.report[c]
    PROVE  Sound(c)'
<1>1. Missing(c)'
  BY CommandedPath DEF Sound, Missing, SameOf
<1>2. Holds(c)'
  BY DEF Sound, Holds, SameOf
<1>3. Promised(c)'
  BY DEF Sound, Promised, SameRequest, At
<1>4. Answer(c)'
  BY DEF Sound, Answer, SameRequest, SameOf, Installed, Whole
<1> QED
  BY <1>1, <1>2, <1>3, <1>4 DEF Sound

-----------------------------------------------------------------------------
(* A client gets its status.                                               *)

Answered(said, calm) ==
    /\ SameRequest
    /\ run'.pc = "look" /\ run'.path = "none"
    /\ run'.todo = Tail(run.todo)
    /\ run'.calm = (run.calm /\ calm)
    /\ DOMAIN run'.report = DOMAIN run.report \cup {Client}
    /\ run'.report[Client] = said
    /\ \A c \in DOMAIN run.report : c # Client => run'.report[c] = run.report[c]
    /\ told' = [told EXCEPT ![Client] = said]
    /\ settled' = IF said \in Registers /\ run.path \in {"none", PathOf(Client)}
                  THEN [settled EXCEPT ![Client] = run.want] ELSE settled

LEMMA ReportAnswers ==
    ASSUME Record, ~At("idle"), NEW status, NEW calm \in BOOLEAN, run.calm \in BOOLEAN,
           Report(status, calm)
    PROVE  \E said \in Said(Client, status) : Answered(said, calm)
<1>1. PICK said \in Said(Client, status) :
        /\ run' = [run EXCEPT !.pc = "look", !.todo = Tail(@), !.temp = Torn, !.path = "none",
                              !.calm = @ /\ calm,
                              !.report = [c \in DOMAIN @ \cup {Client} |->
                                            IF c = Client THEN said ELSE @[c]]]
        /\ told' = [told EXCEPT ![Client] = said]
        /\ settled' = IF said \in Registers /\ run.path \in {"none", PathOf(Client)}
                      THEN [settled EXCEPT ![Client] = run.want] ELSE settled
  BY DEF Report
<1> DEFINE report == [c \in DOMAIN run.report \cup {Client} |->
                        IF c = Client THEN said ELSE run.report[c]]
<1>2. /\ SameRequest
      /\ run'.pc = "look" /\ run'.path = "none"
      /\ run'.todo = Tail(run.todo)
      /\ run'.calm = (run.calm /\ calm)
      /\ run'.report = report
  BY <1>1 DEF Record, SameRequest, At
<1>3. /\ DOMAIN report = DOMAIN run.report \cup {Client}
      /\ report[Client] = said
      /\ \A c \in DOMAIN run.report : c # Client => report[c] = run.report[c]
  OBVIOUS
<1> HIDE DEF report
<1>4. Answered(said, calm)
  BY <1>1, <1>2, <1>3 DEF Answered
<1> QED
  BY <1>4

\* The status a client gets fits what is now on the machine.
Fits(c, said, calm) ==
    /\ c \in gone' => /\ c \in gone
                      /\ said \in {"failed", "killed", "would_configure"}
                      /\ file'[c].entry = NoEntry
    /\ \/ Matches(PathOf(c)', file'[PathOf(c)'].entry, run.want)
       \/ /\ ~(said \in Registers /\ run.path \in {"none", PathOf(c)})
          /\ SameOf(c) /\ gone' = gone
    /\ calm /\ run.calm =>
         /\ run.before[c] = run.want => said # "configured"
         /\ ~run.dry => \/ said \in Registers
                        \/ ~Installed(c)'
                        \/ ~Whole(file'[PathOf(c)'])

LEMMA AnswerStep ==
    ASSUME PassInv, IntegrationInv', ~At("idle"), present' = present,
           NEW c \in Clients, Current(c),
           NEW said, NEW calm \in BOOLEAN, Answered(said, calm), Fits(c, said, calm),
           gone' \subseteq gone, \A d \in Clients : d # c => (d \in gone' <=> d \in gone),
           ~run.dry \/ (SameOf(c) /\ gone' = gone),
           \A d \in Clients : d # c => SameOf(d)
    PROVE  PassInv'
<1>1. /\ Client = c /\ run.todo # << >> /\ c \in ToSet(run.todo)
      /\ Tail(run.todo) \in Seq(Clients) /\ NoRepeats(Tail(run.todo))
      /\ ToSet(Tail(run.todo)) = ToSet(run.todo) \ {c}
      /\ c \in run.asked
  BY HeadAndTail DEF PassInv, Request, Client, Current
<1>2. run.want \in Servers
  BY DEF PassInv, IntegrationInv, Merging
<1>3. /\ settled' \in [Clients -> Servers \cup {NoServer}]
      /\ \A d \in Clients : d # c => settled'[d] = settled[d]
      /\ settled'[c] = IF said \in Registers /\ run.path \in {"none", PathOf(c)}
                       THEN run.want ELSE settled[c]
  BY <1>1, <1>2 DEF PassInv, Request, Answered
<1>4. /\ OneWordEach(told')
      /\ \A d \in Clients : d # c => told'[d] = told[d]
      /\ told'[c] = said
  BY <1>1 DEF PassInv, Request, Answered, OneWordEach
<1>5. Request'
  <2>1. /\ DOMAIN run'.report \cup ToSet(run'.todo) = run'.asked
        /\ DOMAIN run'.report \cap ToSet(run'.todo) = {}
        /\ run'.asked \subseteq Clients
    BY <1>1 DEF PassInv, Request, Answered, SameRequest
  <2>2. /\ run'.dry \in BOOLEAN /\ run'.calm \in BOOLEAN
        /\ run'.before \in [Clients -> Servers \cup {NoServer}]
        /\ run'.pc = "look" /\ run'.path = "none"
        /\ run'.todo \in Seq(Clients) /\ NoRepeats(run'.todo)
    BY <1>1 DEF PassInv, Request, Answered, SameRequest
  <2>3. present' \in [Clients -> {"no", "dir", "cli"}] /\ gone' \subseteq Clients
    BY DEF PassInv, Request
  <2> QED
    BY <1>3, <1>4, <2>1, <2>2, <2>3 DEF Request, At
<1>6. Commanding' /\ Writing'
  BY DEF Answered, Commanding, Writing
<1>7. ASSUME NEW d \in Clients, d # c  PROVE Sound(d)'
  <2>1. Sound(d) /\ SameOf(d) /\ SameRequest
    BY <1>7 DEF PassInv, Answered
  <2>2. ~Current(d)
    BY <1>1, <1>7 DEF Current
  <2>3. /\ run'.calm => run.calm
        /\ d \in DOMAIN run'.report => d \in DOMAIN run.report /\ run'.report[d] = run.report[d]
    BY <1>1, <1>7 DEF PassInv, Request, Answered
  <2> QED
    BY <1>3, <1>4, <1>7, <2>1, <2>2, <2>3, StaysSound
<1>8. Sound(c)'
  <2>1. Sound(c) /\ SameRequest
    BY DEF PassInv, Answered
  <2>2. Missing(c)'
    BY <1>4, <2>1 DEF Sound, Missing, Fits
  <2>3. Holds(c)'
    <3>1. CASE said \in Registers /\ run.path \in {"none", PathOf(c)}
      BY <1>3, <3>1 DEF Holds, Fits
    <3>2. CASE settled'[c] = settled[c] /\ SameOf(c) /\ gone' = gone
      BY <2>1, <3>2 DEF Sound, Holds, SameOf
    <3>3. CASE settled'[c] = settled[c] /\ ~(SameOf(c) /\ gone' = gone)
      <4>1. settled[c] \in {NoServer, run.want}
        BY <1>1, <2>1, <3>3 DEF Sound, Promised
      <4> QED
        BY <3>3, <4>1 DEF Holds, Fits
    <3> QED
      BY <1>3, <3>1, <3>2, <3>3
  <2>4. run'.calm => run.calm /\ calm
    BY DEF Answered, PassInv, Request
  <2>5. Promised(c)'
    BY <1>1, <1>3, <2>1, <2>4 DEF Sound, Promised, SameRequest
  <2>6. Answer(c)'
    BY <1>1, <2>4 DEF Answer, Fits, Answered, SameRequest
  <2> QED
    BY <2>2, <2>3, <2>5, <2>6 DEF Sound
<1> QED
  BY <1>5, <1>6, <1>7, <1>8 DEF PassInv

-----------------------------------------------------------------------------
(* The steps at which a client is looked at.                               *)

LEMMA TheClient ==
    ASSUME PassInv, run.todo # << >>
    PROVE  \E c \in Clients : Current(c) /\ c = Client /\ c \in run.asked /\ c \notin DOMAIN run.report
  BY HeadAndTail DEF PassInv, Request, Client, Current

\* What a client may be told when it was only looked at.
Seen(c, said) ==
    \/ said = "not_installed" /\ ~Installed(c) /\ c \notin gone
    \/ /\ Matches(PathOf(c), file[PathOf(c)].entry, run.want)
       /\ said \in {"already_configured", "needs_attention"} \cup
                   (IF run.dry THEN {"would_configure"} ELSE {})
    \/ said = "would_configure" /\ run.dry
    \/ said = "failed" /\ ~Whole(file[PathOf(c)])

LEMMA LookAnswer ==
    ASSUME PassInv, IntegrationInv', At("look"), UNCHANGED << file, present, gone >>,
           NEW c \in Clients, Current(c),
           NEW said, NEW calm \in BOOLEAN, Answered(said, calm), Seen(c, said)
    PROVE  PassInv'
<1>1. SameOf(c) /\ \A d \in Clients : SameOf(d)
  BY SameMachine
<1>2. run.want \in Servers
  BY DEF PassInv, IntegrationInv, Merging, At
<1>3. Missing(c)
  BY DEF PassInv, Sound
<1>4. Installed(c)' <=> Installed(c)
  BY <1>1 DEF Installed, SameOf
<1>5. c \in gone => ~Matches(PathOf(c), file[PathOf(c)].entry, run.want)
  BY <1>2, <1>3, CommandedPath, MatchesNamed DEF Missing
<1>6. Fits(c, said, calm)
  <2>1. c \in gone' => /\ c \in gone
                       /\ said \in {"failed", "killed", "would_configure"}
                       /\ file'[c].entry = NoEntry
    BY <1>3, <1>5 DEF Seen, Missing
  <2>2. \/ Matches(PathOf(c)', file'[PathOf(c)'].entry, run.want)
        \/ /\ ~(said \in Registers /\ run.path \in {"none", PathOf(c)})
           /\ SameOf(c) /\ gone' = gone
    <3>1. CASE Matches(PathOf(c), file[PathOf(c)].entry, run.want)
      BY <1>1, <3>1 DEF SameOf
    <3>2. CASE said \notin Registers
      BY <1>1, <3>2
    <3> QED
      BY <3>1, <3>2 DEF Seen, Registers
  <2>3. said # "configured"
    BY DEF Seen
  <2>4. ~run.dry => \/ said \in Registers
                    \/ ~Installed(c)'
                    \/ ~Whole(file'[PathOf(c)'])
    BY <1>1, <1>4 DEF Seen, Registers, SameOf
  <2> QED
    BY <2>1, <2>2, <2>3, <2>4 DEF Fits
<1> QED
  BY <1>1, <1>6, AnswerStep DEF At

\* A client with a command of its own, or a copy, is worked on next.
GoesTo(pc, path) ==
    /\ SameRequest
    /\ run'.pc = pc /\ run'.path = path
    /\ run'.todo = run.todo /\ run'.report = run.report
    /\ run'.calm \in BOOLEAN
    /\ run'.calm => run.calm
    /\ UNCHANGED << settled, told >>

LEMMA WorkOn ==
    ASSUME PassInv, IntegrationInv', ~At("idle"), UNCHANGED << present >>,
           NEW pc \in {"remove", "add", "verify", "write", "rename"}, NEW path, GoesTo(pc, path),
           NEW c \in Clients, Current(c),
           \A d \in Clients : d # c => SameOf(d),
           \A d \in Clients : d # c => (d \in gone' <=> d \in gone),
           gone' \subseteq Clients,
           Commanding', Writing', Sound(c)'
    PROVE  PassInv'
<1>1. Request'
  BY DEF PassInv, Request, GoesTo, SameRequest, At
<1>2. ASSUME NEW d \in Clients, d # c  PROVE Sound(d)'
  <2>1. Sound(d) /\ SameOf(d) /\ SameRequest
    BY <1>2 DEF PassInv, GoesTo
  <2>2. ~Current(d)
    BY <1>2 DEF Current
  <2> QED
    BY <1>2, <2>1, <2>2, StaysSound DEF GoesTo
<1> QED
  BY <1>1, <1>2 DEF PassInv

\* The same when nothing but the run changes.
LEMMA WorkStarts ==
    ASSUME PassInv, IntegrationInv', ~At("idle"), ~At("add"),
           UNCHANGED << file, present, gone >>,
           NEW pc \in {"remove", "add", "verify", "write", "rename"}, NEW path, GoesTo(pc, path),
           NEW c \in Clients, Current(c), Commanding', Writing'
    PROVE  PassInv'
<1>1. SameOf(c) /\ \A d \in Clients : SameOf(d)
  BY SameMachine
<1>2. Sound(c)'
  <2>1. Sound(c) /\ c \notin DOMAIN run.report
    BY TheClient DEF PassInv, Current
  <2> QED
    BY <1>1, <2>1, StaysSound DEF GoesTo
<1>3. gone' \subseteq Clients
  BY DEF PassInv, Request
<1> QED
  BY <1>1, <1>2, <1>3, WorkOn

LEMMA SaidOf ==
    /\ \A c : \A said \in Said(c, "already_configured") :
          said \in {"already_configured", "needs_attention"} \cup
                   (IF run.dry THEN {"would_configure"} ELSE {})
    /\ \A c : \A said \in Said(c, "configured") :
          said \in {"configured", "needs_attention"} \cup
                   (IF run.dry THEN {"would_configure"} ELSE {})
    /\ \A c : \A said \in Said(c, "would_configure") : run.dry => said = "would_configure"
    /\ \A c : \A said \in Said(c, "failed") : said = "failed"
  BY DEF Said

LEMMA LookReport ==
    ASSUME PassInv, IntegrationInv', At("look"), UNCHANGED << file, present, gone >>,
           NEW c \in Clients, Current(c),
           NEW status, NEW calm \in BOOLEAN, Report(status, calm),
           \/ status = "already_configured" /\ Matches(PathOf(c), file[PathOf(c)].entry, run.want)
           \/ status = "would_configure" /\ run.dry
           \/ status = "failed" /\ ~Whole(file[PathOf(c)])
    PROVE  PassInv'
<1>1. Record /\ run.calm \in BOOLEAN /\ ~At("idle")
  BY DEF PassInv, IntegrationInv, Request, At
<1>2. PICK said \in Said(Client, status) : Answered(said, calm)
  BY <1>1, ReportAnswers
<1>3. Seen(c, said)
  BY <1>2, SaidOf DEF Seen
<1> QED
  BY <1>2, <1>3, LookAnswer

LEMMA NotInstalledStep ==
    ASSUME PassInv, IntegrationInv', NotInstalled
    PROVE  PassInv'
<1>1. PICK c \in Clients : Current(c) /\ c = Client
  BY TheClient DEF NotInstalled, Looking
<1>2. c \notin gone
  BY <1>1 DEF PassInv, Sound, Missing, NotInstalled, Installed
<1> DEFINE report == [d \in DOMAIN run.report \cup {Client} |->
                        IF d = Client THEN "not_installed" ELSE run.report[d]]
<1>3. Answered("not_installed", TRUE)
  <2>1. /\ SameRequest
        /\ run'.pc = "look" /\ run'.path = "none"
        /\ run'.todo = Tail(run.todo)
        /\ run'.calm = run.calm
        /\ run'.report = report
    BY DEF PassInv, IntegrationInv, Record, Request, NotInstalled, Looking, SameRequest, At
  <2>2. /\ DOMAIN report = DOMAIN run.report \cup {Client}
        /\ report[Client] = "not_installed"
        /\ \A d \in DOMAIN run.report : d # Client => report[d] = run.report[d]
    OBVIOUS
  <2>3. run.calm \in BOOLEAN
    BY DEF PassInv, Request
  <2> HIDE DEF report
  <2> QED
    BY <2>1, <2>2, <2>3 DEF Answered, NotInstalled, Registers
<1>4. Seen(c, "not_installed")
  BY <1>1, <1>2 DEF Seen, NotInstalled
<1> QED
  BY <1>1, <1>3, <1>4, LookAnswer DEF NotInstalled, Looking

LEMMA StepGoes ==
    ASSUME PassInv, ~At("idle"), NEW pc, pc # "idle", NEW path, Step(pc, path)
    PROVE  GoesTo(pc, path) /\ run'.calm = run.calm /\ run'.temp = run.temp
  BY DEF PassInv, IntegrationInv, Record, Request, Step, GoesTo, SameRequest, At

LEMMA CommandStarts ==
    ASSUME PassInv, IntegrationInv', At("look"), UNCHANGED << file, present, gone >>,
           NEW c \in Clients, Current(c), c \in Commanded, Installed(c), ~run.dry,
           NEW pc \in {"remove", "add"}, GoesTo(pc, c),
           run'.calm \/ (pc = "remove" /\ c # "claude") => ~Matches(c, file[c].entry, run.want),
           pc = "remove" /\ run'.calm /\ c # "claude" => file[c].entry # NoEntry
    PROVE  PassInv'
<1>1. PathOf(c) = c /\ present[c] = "cli"
  BY CommandedPath DEF Installed
<1>2. Sound(c) /\ c \in run.asked
  BY TheClient DEF PassInv, Current
<1>3. run'.calm => run.before[c] # run.want
  <2>1. run.want # NoServer
    BY ServersNamed DEF PassInv, IntegrationInv, Merging, At
  <2> QED
    BY <1>1, <1>2, <2>1 DEF Sound, Holds, Promised, GoesTo, At
<1>4. pc = "remove" /\ c # "claude" => settled[c] = NoServer
  BY <1>1, <1>2 DEF Sound, Holds, Promised, At
<1>5. Commanding'
  <2>1. run'.todo = run.todo /\ Client' = c /\ run.todo # << >>
    BY DEF GoesTo, Client, Current
  <2>2. /\ run'.pc = pc /\ run'.path = c /\ ~run'.dry /\ settled' = settled
        /\ run'.before = run.before /\ run'.want = run.want
    BY DEF GoesTo, SameRequest
  <2> QED
    BY <1>1, <1>3, <1>4, <2>1, <2>2 DEF Commanding, At
<1>6. Writing'
  BY DEF GoesTo, Writing
<1> QED
  BY <1>5, <1>6, WorkStarts DEF At

LEMMA LookCommandedStep ==
    ASSUME PassInv, IntegrationInv', LookCodex \/ LookGemini \/ LookClaude \/ LooksFail
    PROVE  PassInv'
<1>1. Looking /\ UNCHANGED << file, present, gone >> /\ Client \in Commanded /\ Installed(Client)
  BY DEF LookCodex, LookGemini, LookClaude, LooksFail, LookCodexFails, LookGeminiFails,
         LookClaudeFails, LookFails, Commanded
<1>2. PICK c \in Clients : Current(c) /\ c = Client
  BY <1>1, TheClient DEF Looking
<1>3. PathOf(c) = c /\ At("look") /\ ~At("idle")
  BY <1>1, <1>2, CommandedPath DEF Looking, At
<1>4. ASSUME NEW status, NEW calm \in BOOLEAN, Report(status, calm),
             \/ status = "already_configured" /\ Matches(c, file[c].entry, run.want)
             \/ status = "would_configure" /\ run.dry
      PROVE  PassInv'
  BY <1>1, <1>2, <1>3, <1>4, LookReport
<1>5. ASSUME NEW pc \in {"remove", "add"}, GoesTo(pc, c), ~run.dry,
             run'.calm \/ (pc = "remove" /\ c # "claude") => ~Matches(c, file[c].entry, run.want),
             pc = "remove" /\ run'.calm /\ c # "claude" => file[c].entry # NoEntry
      PROVE  PassInv'
  BY <1>1, <1>2, <1>3, <1>5, CommandStarts
<1>6. CASE LooksFail
  <2>0. PICK next \in {"add", "remove"} : LookFails(c, next) /\ (next = "remove" => c = "claude")
    BY <1>2, <1>6 DEF LooksFail, LookCodexFails, LookGeminiFails, LookClaudeFails, LookFails
  <2>1. CASE run.dry
    BY <1>4, <2>0, <2>1 DEF LookFails
  <2>2. CASE ~run.dry
    <3>1. GoesTo(next, c) /\ ~run'.calm
      BY <1>2, <1>3, <2>0, <2>2
         DEF LookFails, PassInv, IntegrationInv, Record, GoesTo, SameRequest, At
    <3> QED
      BY <1>5, <2>0, <2>2, <3>1
  <2> QED
    BY <2>1, <2>2
<1>7. CASE LookCodex \/ LookGemini \/ LookClaude
  <2>1. PICK pc \in {"remove", "add"} :
          /\ Decide(c, Step(pc, c))
          /\ pc = "remove" /\ c # "claude" => file[c].entry # NoEntry
    BY <1>2, <1>7 DEF LookCodex, LookGemini, LookClaude
  <2>2. CASE Matches(c, file[c].entry, run.want)
    BY <1>4, <2>1, <2>2 DEF Decide
  <2>3. CASE ~Matches(c, file[c].entry, run.want) /\ run.dry
    BY <1>4, <2>1, <2>3 DEF Decide
  <2>4. CASE ~Matches(c, file[c].entry, run.want) /\ ~run.dry
    <3>1. Step(pc, c)
      BY <2>1, <2>4 DEF Decide
    <3>2. GoesTo(pc, c)
      BY <1>3, <3>1, StepGoes
    <3> QED
      BY <1>5, <2>1, <2>4, <3>2
  <2> QED
    BY <2>2, <2>3, <2>4
<1> QED
  BY <1>6, <1>7

LEMMA MergePassStep ==
    ASSUME PassInv, IntegrationInv', Merge
    PROVE  PassInv'
<1>1. Looking /\ UNCHANGED << file, present, gone >> /\ Client \notin Commanded
  BY DEF Merge
<1>2. PICK c \in Clients : Current(c) /\ c = Client
  BY <1>1, TheClient DEF Looking
<1>3. At("look") /\ ~At("idle")
  BY <1>1 DEF Looking, At
<1> DEFINE path == PathOf(c)
<1>4. path \in Places(c) \cap Files /\ file[path] \in Configs
  BY PlacesOf DEF PassInv, IntegrationInv, TypeOK
<1>5. ASSUME NEW status, NEW calm \in BOOLEAN, Report(status, calm),
             \/ status = "already_configured" /\ Matches(path, file[path].entry, run.want)
             \/ status = "would_configure" /\ run.dry
             \/ status = "failed" /\ ~Whole(file[path])
      PROVE  PassInv'
  BY <1>1, <1>2, <1>3, <1>5, LookReport
<1>6. CASE /\ ~run.dry /\ ~Matches(path, file[path].entry, run.want)
           /\ run' = [run EXCEPT !.pc = "write", !.path = path,
                                 !.temp = [file[path] EXCEPT !.shape = "fine", !.notes = FALSE,
                                              !.entry = Merged(path, run.want)]]
           /\ UNCHANGED << settled, told >>
  <2> HIDE DEF path
  <2>1. /\ GoesTo("write", path) /\ run'.calm = run.calm
        /\ run'.temp = [file[path] EXCEPT !.shape = "fine", !.notes = FALSE,
                                           !.entry = Merged(path, run.want)]
    BY <1>3, <1>6 DEF PassInv, IntegrationInv, Record, Request, GoesTo, SameRequest, At
  <2>2. run'.temp.entry = Merged(path, run.want)
    BY <1>4, <2>1 DEF Configs
  <2>3. run.calm => run.before[c] # run.want
    <3>1. run.want # NoServer
      BY <1>3, ServersNamed DEF PassInv, IntegrationInv, Merging
    <3>2. Sound(c)
      BY DEF PassInv
    <3> QED
      BY <1>3, <1>6, <3>1, <3>2 DEF Sound, Holds, Promised, path
  <2>4. Writing'
    <3>1. run'.todo = run.todo /\ Client' = c /\ run.todo # << >>
      BY <1>2, <2>1 DEF GoesTo, Client, Current
    <3>2. /\ run'.path = path /\ ~run'.dry
          /\ run'.before = run.before /\ run'.want = run.want
      BY <1>6, <2>1 DEF GoesTo, SameRequest
    <3> QED
      BY <1>1, <1>2, <1>4, <2>1, <2>2, <2>3, <3>1, <3>2 DEF Writing
  <2>5. Commanding'
    BY <2>1 DEF GoesTo, Commanding
  <2> QED
    BY <1>1, <1>2, <1>3, <2>1, <2>4, <2>5, WorkStarts DEF At
<1> QED
  BY <1>2, <1>5, <1>6 DEF Merge, Decide, Whole

-----------------------------------------------------------------------------
(* The steps of a client's command.                                        *)

\* One file of a client changes, and no other client's.
LEMMA OthersSame ==
    ASSUME NEW c \in Clients, NEW f \in Places(c), NEW content,
           file \in [Files -> Configs],
           file' = [file EXCEPT ![f] = content],
           UNCHANGED present
    PROVE  \A d \in Clients : d # c => SameOf(d)
<1>1. ASSUME NEW d \in Clients, d # c  PROVE SameOf(d)
  <2>1. f \notin Places(d)
    BY <1>1, PlacesApart
  <2>2. \A g \in Places(d) \cap Files : file'[g] = file[g]
    BY <2>1
  <2> QED
    BY <2>2, SamePlaces
<1> QED
  BY <1>1

\* The command of this client is at work.
CommandAt(c) ==
    /\ Current(c) /\ c = Client /\ c \in Commanded /\ c \in Files
    /\ run.path = c /\ PathOf(c) = c /\ PathOf(c)' = c /\ Places(c) = {c}
    /\ c \in run.asked /\ c \notin DOMAIN run.report
    /\ run.todo # << >> /\ ~run.dry /\ present[c] = "cli"
    /\ run.calm => run.before[c] # run.want
    /\ run.want \in Servers /\ run.calm \in BOOLEAN
    /\ settled[c] \in {NoServer, run.want}
    /\ Sound(c)
    /\ file \in [Files -> Configs] /\ Record

LEMMA AtCommand ==
    ASSUME PassInv, At("remove") \/ At("add") \/ At("verify")
    PROVE  \E c \in Clients : CommandAt(c)
<1>1. PICK c \in Clients : /\ Current(c) /\ c = Client
                           /\ c \in run.asked /\ c \notin DOMAIN run.report
  BY TheClient DEF PassInv, Commanding, At
<1>2. /\ c \in Commanded /\ run.path = c /\ run.todo # << >> /\ ~run.dry /\ present[c] = "cli"
      /\ run.calm => run.before[c] # run.want
  BY <1>1 DEF PassInv, Commanding, At
<1>3. PathOf(c) = c /\ PathOf(c)' = c /\ Places(c) = {c} /\ c \in Files
  BY <1>2 DEF PathOf, Places, Commanded, Files
<1>4. /\ run.want \in Servers /\ run.calm \in BOOLEAN /\ Sound(c)
      /\ file \in [Files -> Configs] /\ Record
  BY DEF PassInv, IntegrationInv, Merging, TypeOK, Request, At
<1>5. settled[c] \in {NoServer, run.want}
  BY <1>1, <1>2, <1>4 DEF Sound, Promised, At
<1> QED
  BY <1>1, <1>2, <1>3, <1>4, <1>5 DEF CommandAt

LEMMA RemoveEntryPass ==
    ASSUME PassInv, IntegrationInv', RemoveEntry
    PROVE  PassInv'
<1> USE DEF CommandAt
<1>1. PICK c \in Clients : CommandAt(c)
  BY AtCommand DEF RemoveEntry
<1>2. /\ file' = [file EXCEPT ![c].entry = NoEntry]
      /\ gone' = gone \cup {c} /\ UNCHANGED present
      /\ At("remove") /\ Step("add", c) /\ ~At("idle")
  BY <1>1 DEF RemoveEntry, At
<1>3. GoesTo("add", c)
  BY <1>2, StepGoes
<1>4. \A d \in Clients : d # c => SameOf(d)
  BY <1>1, <1>2, OthersSame
<1>5. file'[c].entry = NoEntry
  BY <1>1, <1>2 DEF Configs
<1>6. c # "claude" => settled'[c] = NoServer
  BY <1>1, <1>2, <1>3 DEF PassInv, Commanding, GoesTo, At
<1>7. run'.todo = run.todo /\ Client' = c
  BY <1>1, <1>3 DEF GoesTo, Client
<1>8. Commanding' /\ Writing'
  BY <1>1, <1>2, <1>3, <1>7 DEF Commanding, Writing, GoesTo, SameRequest, At
<1>9. Sound(c)'
  <2>1. Missing(c)'
    BY <1>1, <1>2, <1>3, <1>5, <1>7 DEF Missing, GoesTo, Current, At
  <2>2. Holds(c)' /\ Promised(c)' /\ Answer(c)'
    BY <1>1, <1>2, <1>3, <1>6 DEF Holds, Promised, Answer, Sound, GoesTo, SameRequest, At
  <2> QED
    BY <2>1, <2>2 DEF Sound
<1>10. gone' \subseteq Clients /\ \A d \in Clients : d # c => (d \in gone' <=> d \in gone)
  BY <1>2 DEF PassInv, Request
<1> QED
  BY <1>1, <1>2, <1>3, <1>4, <1>8, <1>9, <1>10, WorkOn

LEMMA RemoveFailsPass ==
    ASSUME PassInv, IntegrationInv', RemoveFails
    PROVE  PassInv'
<1> USE DEF CommandAt
<1>1. PICK c \in Clients : CommandAt(c)
  BY AtCommand DEF RemoveFails
<1>2. UNCHANGED << file, present, gone >> /\ At("remove") /\ ~At("idle") /\ ~At("add")
  BY DEF RemoveFails, At
<1>3. CASE c = "claude"
  <2>1. Step("add", c)
    BY <1>1, <1>3 DEF RemoveFails
  <2>2. GoesTo("add", c)
    BY <1>2, <2>1, StepGoes
  <2>3. run'.todo = run.todo /\ Client' = c
    BY <1>1, <2>2 DEF GoesTo, Client
  <2>4. Commanding' /\ Writing'
    BY <1>1, <1>2, <2>2, <2>3 DEF Commanding, Writing, GoesTo, SameRequest, At
  <2> QED
    BY <1>1, <1>2, <2>2, <2>4, WorkStarts
<1>4. CASE c # "claude"
  <2>1. PICK said \in Said(Client, "failed") : Answered(said, ~Removable)
    BY <1>1, <1>2, <1>4, ReportAnswers DEF RemoveFails
  <2>2. said = "failed"
    BY <2>1, SaidOf
  <2>3. SameOf(c) /\ \A d \in Clients : SameOf(d)
    BY <1>2, SameMachine
  <2>4. run.calm => file[c].entry # NoEntry
    BY <1>1, <1>2, <1>4 DEF PassInv, Commanding, At
  <2>5. run.calm /\ ~Removable => ~Whole(file[c])
    BY <1>1, <2>4 DEF Removable
  <2>6. Fits(c, said, ~Removable)
    BY <1>1, <1>2, <2>2, <2>3, <2>5 DEF Fits, Registers, Sound, Missing
  <2> QED
    BY <1>1, <1>2, <2>1, <2>3, <2>6, AnswerStep
<1> QED
  BY <1>3, <1>4

\* A command fails, or a copy cannot be written: the client is told so.
LEMMA FailsPass ==
    ASSUME PassInv, IntegrationInv', CommandFails \/ ReadFails \/ WriteFails
    PROVE  PassInv'
<1>1. /\ Report("failed", FALSE) /\ UNCHANGED << file, present, gone >>
      /\ run.todo # << >> /\ ~At("idle") /\ Record /\ run.calm \in BOOLEAN
  BY DEF CommandFails, ReadFails, Looking, WriteFails, PassInv, IntegrationInv, Request,
         Commanding, Writing, At
<1>2. PICK c \in Clients : Current(c) /\ c = Client
  BY <1>1, TheClient
<1>3. PICK said \in Said(Client, "failed") : Answered(said, FALSE)
  BY <1>1, ReportAnswers
<1>4. said = "failed"
  BY <1>3, SaidOf
<1>5. SameOf(c) /\ \A d \in Clients : SameOf(d)
  BY <1>1, SameMachine
<1>6. Fits(c, said, FALSE)
  BY <1>1, <1>4, <1>5 DEF Fits, Registers, PassInv, Sound, Missing
<1> QED
  BY <1>1, <1>2, <1>3, <1>5, <1>6, AnswerStep

LEMMA AddEntryPass ==
    ASSUME PassInv, IntegrationInv', AddEntry
    PROVE  PassInv'
<1> USE DEF CommandAt
<1>1. PICK c \in Clients : CommandAt(c)
  BY AtCommand DEF AddEntry
<1>2. /\ file' = [file EXCEPT ![c].shape = "fine", ![c].entry = Merged(c, run.want)]
      /\ gone' = gone \ {c} /\ UNCHANGED present
      /\ At("add") /\ ~At("idle")
  BY <1>1 DEF AddEntry, At
<1>3. \A d \in Clients : d # c => SameOf(d)
  <2>1. \E content : file' = [file EXCEPT ![c] = content]
    <3> DEFINE content == [file[c] EXCEPT !.shape = "fine", !.entry = Merged(c, run.want)]
    <3>1. file' = [file EXCEPT ![c] = content]
      BY <1>1, <1>2 DEF Configs
    <3> QED
      BY <3>1
  <2> QED
    BY <1>1, <1>2, <2>1, OthersSame
<1>4. Matches(c, file'[c].entry, run.want)
  <2>1. file'[c].entry = Merged(c, run.want)
    BY <1>1, <1>2 DEF Configs
  <2> QED
    BY <2>1, MergedMatches
<1>5. CASE c = "claude"
  <2>1. PICK said \in Said(Client, "configured") : Answered(said, TRUE)
    BY <1>1, <1>2, <1>5, ReportAnswers DEF AddEntry
  <2>2. said \in Registers
    BY <1>1, <2>1, SaidOf DEF Registers
  <2>3. Fits(c, said, TRUE)
    BY <1>1, <1>2, <1>4, <2>2 DEF Fits
  <2> QED
    BY <1>1, <1>2, <1>3, <2>1, <2>3, AnswerStep
<1>6. CASE c # "claude"
  <2>1. GoesTo("verify", c)
    BY <1>1, <1>2, <1>6, StepGoes DEF AddEntry
  <2>2. run'.todo = run.todo /\ Client' = c
    BY <1>1, <2>1 DEF GoesTo, Client
  <2>3. Commanding' /\ Writing'
    BY <1>1, <1>2, <1>4, <2>1, <2>2 DEF Commanding, Writing, GoesTo, SameRequest, At
  <2>4. Sound(c)'
    <3>1. Missing(c)'
      BY <1>2 DEF Missing
    <3>2. Holds(c)' /\ Promised(c)' /\ Answer(c)'
      BY <1>1, <1>4, <2>1 DEF Holds, Promised, Answer, Sound, GoesTo, SameRequest
    <3> QED
      BY <3>1, <3>2 DEF Sound
  <2>5. gone' \subseteq Clients /\ \A d \in Clients : d # c => (d \in gone' <=> d \in gone)
    BY <1>2 DEF PassInv, Request
  <2> QED
    BY <1>1, <1>2, <1>3, <2>1, <2>3, <2>4, <2>5, WorkOn
<1> QED
  BY <1>5, <1>6

LEMMA VerifyPass ==
    ASSUME PassInv, IntegrationInv', Verify
    PROVE  PassInv'
<1> USE DEF CommandAt
<1>1. PICK c \in Clients : CommandAt(c)
  BY AtCommand DEF Verify
<1>2. UNCHANGED << file, present, gone >> /\ At("verify") /\ ~At("idle")
  BY DEF Verify, At
<1>3. SameOf(c) /\ \A d \in Clients : SameOf(d)
  BY <1>2, SameMachine
<1>4. CASE Matches(c, file[c].entry, run.want)
  <2>1. PICK said \in Said(Client, "configured") : Answered(said, TRUE)
    BY <1>1, <1>2, <1>4, ReportAnswers DEF Verify
  <2>2. said \in Registers
    BY <1>1, <2>1, SaidOf DEF Registers
  <2>3. c \notin gone
    BY <1>1, <1>4, MatchesNamed DEF Sound, Missing
  <2>4. Fits(c, said, TRUE)
    BY <1>1, <1>2, <1>4, <2>2, <2>3 DEF Fits
  <2> QED
    BY <1>1, <1>2, <1>3, <2>1, <2>4, AnswerStep
<1>5. CASE ~Matches(c, file[c].entry, run.want)
  <2>1. PICK said \in Said(Client, "failed") : Answered(said, TRUE)
    BY <1>1, <1>2, <1>5, ReportAnswers DEF Verify
  <2>2. said = "failed"
    BY <2>1, SaidOf
  <2>3. ~run.calm
    BY <1>1, <1>2, <1>5 DEF PassInv, Commanding, At
  <2>4. Fits(c, said, TRUE)
    BY <1>1, <1>2, <1>3, <2>2, <2>3 DEF Fits, Registers, Sound, Missing
  <2> QED
    BY <1>1, <1>2, <1>3, <2>1, <2>4, AnswerStep
<1> QED
  BY <1>4, <1>5

-----------------------------------------------------------------------------
(* The steps that write a copy and rename it.                              *)

LEMMA AtCopy ==
    ASSUME PassInv, At("write") \/ At("rename")
    PROVE  \E c \in Clients :
             /\ Current(c) /\ c = Client /\ c \notin Commanded
             /\ run.path \in Places(c) \cap Files
             /\ run.temp.entry = Merged(run.path, run.want)
             /\ run.todo # << >> /\ ~run.dry
             /\ run.calm => run.before[c] # run.want
             /\ run.calm \in BOOLEAN
             /\ Sound(c)
             /\ file \in [Files -> Configs] /\ Record
<1>1. PICK c \in Clients : Current(c) /\ c = Client
  BY TheClient DEF PassInv, Writing, At
<1> QED
  BY <1>1 DEF PassInv, Writing, At, IntegrationInv, TypeOK, Request

LEMMA WriteTemporaryPass ==
    ASSUME PassInv, IntegrationInv', WriteTemporary
    PROVE  PassInv'
<1>1. PICK c \in Clients :
             /\ Current(c) /\ c = Client /\ c \notin Commanded
             /\ run.path \in Places(c) \cap Files
             /\ run.temp.entry = Merged(run.path, run.want)
             /\ run.todo # << >> /\ ~run.dry
             /\ run.calm => run.before[c] # run.want
  BY AtCopy DEF WriteTemporary
<1>2. /\ GoesTo("rename", run.path) /\ run'.temp = run.temp
      /\ UNCHANGED << file, present, gone >> /\ ~At("idle") /\ ~At("add")
  BY StepGoes DEF WriteTemporary, At
<1>3. run'.todo = run.todo /\ Client' = c
  BY <1>1, <1>2 DEF GoesTo, Client
<1>4. Commanding' /\ Writing'
  BY <1>1, <1>2, <1>3 DEF Commanding, Writing, GoesTo, SameRequest, At
<1> QED
  BY <1>1, <1>2, <1>4, WorkStarts

\* The renamed copy is where the client looks, or the client looks elsewhere and
\* finds what it found before.
LEMMA CopyInPlace ==
    ASSUME NEW c \in Clients, NEW path \in Places(c) \cap Files, NEW temp,
           file \in [Files -> Configs], UNCHANGED present,
           file' = [file EXCEPT ![path] = temp], temp.shape = "fine"
    PROVE  PathOf(c)' = path \/ (PathOf(c) # path /\ SameOf(c))
<1>1. CASE c = "opencode"
  <2>1. {"opencode", "opencode-jsonc"} \subseteq Files /\ path \in {"opencode", "opencode-jsonc"}
    BY <1>1 DEF Files, Places
  <2>2. CASE path = "opencode"
    <3>1. file'["opencode"].shape = "fine"
      BY <2>1, <2>2
    <3>2. PathOf(c)' = c
      BY <1>1, <3>1 DEF PathOf
    <3> QED
      BY <1>1, <2>2, <3>2
  <2>3. CASE path = "opencode-jsonc"
    <3>1. file'["opencode"] = file["opencode"] /\ file'["opencode-jsonc"].shape = "fine"
      BY <2>1, <2>3
    <3>2. CASE file["opencode"].shape = "absent"
      BY <1>1, <2>3, <3>1, <3>2 DEF PathOf
    <3>3. CASE file["opencode"].shape # "absent"
      <4>1. PathOf(c) = "opencode" /\ PathOf(c)' = "opencode"
        BY <1>1, <3>1, <3>3 DEF PathOf
      <4> QED
        BY <1>1, <2>3, <3>1, <4>1 DEF SameOf
    <3> QED
      BY <3>2, <3>3
  <2> QED
    BY <2>1, <2>2, <2>3
<1>2. CASE c # "opencode"
  <2>1. PathOf(c)' = PathOf(c)
    BY <1>2 DEF PathOf
  <2>2. PathOf(c) # path => file'[PathOf(c)] = file[PathOf(c)]
    BY PlacesOf
  <2> QED
    BY <2>1, <2>2 DEF SameOf
<1> QED
  BY <1>1, <1>2

LEMMA RenamePass ==
    ASSUME PassInv, IntegrationInv', Rename
    PROVE  PassInv'
<1>1. PICK c \in Clients :
             /\ Current(c) /\ c = Client /\ c \notin Commanded
             /\ run.path \in Places(c) \cap Files
             /\ run.temp.entry = Merged(run.path, run.want)
             /\ run.todo # << >> /\ ~run.dry
             /\ run.calm => run.before[c] # run.want
             /\ run.calm \in BOOLEAN
             /\ Sound(c)
             /\ file \in [Files -> Configs] /\ Record
  BY AtCopy DEF Rename
<1>2. /\ file' = [file EXCEPT ![run.path] = run.temp] /\ UNCHANGED << present, gone >>
      /\ ~At("idle") /\ Report("configured", TRUE) /\ run.temp.shape = "fine"
  BY <1>1 DEF Rename, PassInv, IntegrationInv, Merging, MergedFrom, At
<1>3. \A d \in Clients : d # c => SameOf(d)
  BY <1>1, <1>2, OthersSame
<1>4. PICK said \in Said(Client, "configured") : Answered(said, TRUE)
  BY <1>1, <1>2, ReportAnswers
<1>5. said \in Registers
  BY <1>1, <1>4, SaidOf DEF Registers
<1>6. c \notin gone
  BY <1>1 DEF Sound, Missing
<1>7. Matches(run.path, file'[run.path].entry, run.want)
  BY <1>1, <1>2, MergedMatches
<1>8. run.path # "none"
  BY <1>1, SecondPlaces DEF Places
<1>9. Fits(c, said, TRUE)
  <2>1. PathOf(c)' = run.path \/ (PathOf(c) # run.path /\ SameOf(c))
    BY <1>1, <1>2, CopyInPlace
  <2>2. \/ Matches(PathOf(c)', file'[PathOf(c)'].entry, run.want)
        \/ /\ ~(said \in Registers /\ run.path \in {"none", PathOf(c)})
           /\ SameOf(c) /\ gone' = gone
    BY <1>2, <1>7, <1>8, <2>1
  <2> QED
    BY <1>1, <1>2, <1>5, <1>6, <2>2 DEF Fits
<1> QED
  BY <1>1, <1>2, <1>3, <1>4, <1>9, AnswerStep

-----------------------------------------------------------------------------
(* The beginning and the end of a run, and what happens outside it.        *)

LEMMA FinishPass ==
    ASSUME PassInv, IntegrationInv', Finish
    PROVE  PassInv'
<1>1. /\ SameRequest /\ run'.pc = "done"
      /\ run'.todo = run.todo /\ run'.report = run.report /\ run'.calm = run.calm
      /\ run.todo = << >> /\ UNCHANGED << file, present, settled, told, gone >>
  BY DEF Finish, PassInv, IntegrationInv, Record, SameRequest, At
<1>2. Request'
  BY <1>1 DEF PassInv, Request, SameRequest, At
<1>3. Commanding' /\ Writing'
  BY <1>1 DEF Commanding, Writing
<1>4. ASSUME NEW c \in Clients  PROVE Sound(c)'
  <2>1. ~Current(c) /\ Sound(c)
    BY <1>1 DEF Current, PassInv
  <2> QED
    BY <1>1, <2>1, SameMachine, StaysSound
<1> QED
  BY <1>2, <1>3, <1>4 DEF PassInv

LEMMA EndPass ==
    ASSUME PassInv, IntegrationInv', Leave \/ Kill
    PROVE  PassInv'
<1>1. /\ run' = NoRun /\ UNCHANGED << file, present, settled, gone >>
  BY DEF Leave, Kill
<1>2. /\ run'.pc = "idle" /\ run'.todo = << >> /\ run'.report = << >> /\ run'.asked = {}
      /\ run'.dry = FALSE /\ run'.calm = TRUE
      /\ run'.before = [c \in Clients |-> NoServer]
  BY <1>1 DEF NoRun
<1>3. OneWordEach(told') /\ \A c \in Clients : \/ told'[c] = told[c] /\ ~(Current(c) /\ At("add"))
                                               \/ told'[c] = "killed"
  <2>1. CASE Leave
    BY <2>1 DEF Leave, PassInv, Request, At
  <2>2. CASE Kill /\ run.todo = << >>
    BY <2>2 DEF Kill, PassInv, Request, Current
  <2>3. CASE Kill /\ run.todo # << >>
    <3>1. PICK c \in Clients : Current(c) /\ c = Client
      BY <2>3, TheClient
    <3>2. told' = [told EXCEPT ![c] = "killed"] /\ OneWordEach(told)
      BY <2>3, <3>1 DEF Kill, PassInv, Request
    <3>3. OneWordEach(told') /\ told'[c] = "killed" /\ \A d \in Clients : d # c => told'[d] = told[d]
      BY <3>2 DEF OneWordEach
    <3> QED
      BY <3>1, <3>3 DEF Current
  <2> QED
    BY <2>1, <2>2, <2>3
<1>4. Request'
  <2>1. NoRepeats(<< >>) /\ ToSet(<< >>) = {} /\ DOMAIN << >> = {} /\ << >> \in Seq(Clients)
    BY DEF NoRepeats, ToSet
  <2>2. present' \in [Clients -> {"no", "dir", "cli"}] /\ gone' \subseteq Clients
        /\ settled' \in [Clients -> Servers \cup {NoServer}]
    BY <1>1 DEF PassInv, Request
  <2> QED
    BY <1>2, <1>3, <2>1, <2>2 DEF Request, At
<1>5. Commanding' /\ Writing'
  BY <1>2 DEF Commanding, Writing
<1>6. ASSUME NEW c \in Clients  PROVE Sound(c)'
  <2>1. Sound(c) /\ SameOf(c)
    BY <1>1, SameMachine DEF PassInv
  <2>2. Missing(c)'
    BY <1>1, <1>3, <2>1 DEF Sound, Missing
  <2>3. Holds(c)'
    BY <1>1, <2>1 DEF Sound, Holds, SameOf
  <2>4. Promised(c)' /\ Answer(c)'
    BY <1>2 DEF Promised, Answer, At
  <2> QED
    BY <2>2, <2>3, <2>4 DEF Sound
<1> QED
  BY <1>4, <1>5, <1>6 DEF PassInv

\* A request has a length, and so has the list of all clients.
LEMMA ExpandNames ==
    ASSUME NEW asked \in Requests
    PROVE  Expand(asked) \in Seq(Clients) /\ NoRepeats(Expand(asked))
<1>1. Len(Order) \in Nat
  BY DEF Order
<1>2. Len(asked) \in Nat
  BY DEF Requests
<1> QED
  BY <1>1, <1>2, OnceNames DEF Expand

LEMMA StartPass ==
    ASSUME PassInv, IntegrationInv', NEW asked \in Requests, NEW want \in Servers,
           NEW dry \in BOOLEAN, Start(asked, want, dry)
    PROVE  PassInv'
<1> DEFINE todo == Expand(asked)
<1>1. todo \in Seq(Clients) /\ NoRepeats(todo)
  BY ExpandNames
<1> HIDE DEF todo
<1>2. /\ run'.pc = "look" /\ run'.todo = todo /\ run'.asked = ToSet(todo) /\ run'.want = want
      /\ run'.dry = dry /\ run'.report = << >> /\ run'.path = "none"
      /\ run'.calm = TRUE
      /\ run'.before = [c \in Clients |-> IF c \in gone THEN NoServer ELSE settled[c]]
      /\ settled' = [c \in Clients |-> IF ~dry /\ c \in ToSet(todo) /\ settled[c] # want
                                       THEN NoServer ELSE settled[c]]
      /\ UNCHANGED << file, present, told, gone >> /\ At("idle")
  BY DEF Start, NoRun, todo
<1>3. /\ settled' \in [Clients -> Servers \cup {NoServer}]
      /\ settled \in [Clients -> Servers \cup {NoServer}]
      /\ \A c \in Clients :
           settled'[c] = IF ~dry /\ c \in ToSet(todo) /\ settled[c] # want
                         THEN NoServer ELSE settled[c]
  BY <1>2 DEF PassInv, Request
<1>4. Request'
  <2>1. present' \in [Clients -> {"no", "dir", "cli"}] /\ gone' \subseteq Clients /\ OneWordEach(told')
    BY <1>2 DEF PassInv, Request
  <2>2. DOMAIN << >> = {} /\ ToSet(todo) \subseteq Clients
    BY <1>1 DEF ToSet
  <2> QED
    BY <1>1, <1>2, <1>3, <2>1, <2>2 DEF Request, At
<1>5. Commanding' /\ Writing'
  BY <1>2 DEF Commanding, Writing
<1>6. ASSUME NEW c \in Clients  PROVE Sound(c)'
  <2>1. Sound(c) /\ SameOf(c)
    BY <1>2, SameMachine DEF PassInv
  <2>2. Missing(c)'
    BY <1>2, <2>1 DEF Sound, Missing, At
  <2>3. Holds(c)'
    BY <1>2, <1>3, <2>1 DEF Sound, Holds, SameOf
  <2>4. Promised(c)'
    <3>1. want # NoServer
      BY ServersNamed
    <3> QED
      BY <1>2, <1>3, <3>1 DEF Promised
  <2>5. Answer(c)'
    BY <1>2 DEF Answer
  <2> QED
    BY <2>2, <2>3, <2>4, <2>5 DEF Sound
<1> QED
  BY <1>4, <1>5, <1>6 DEF PassInv

\* Somebody changes what is known of one client: nothing is promised of it any more, and the
\* run is not a clean one.
LEMMA EditPass ==
    ASSUME PassInv, IntegrationInv', NEW c \in Clients, Undone(c), UNCHANGED << told, gone >>,
           \A d \in Clients : d # c => SameOf(d),
           present' \in [Clients -> {"no", "dir", "cli"}],
           \A d \in Clients : present[d] = "cli" => present'[d] = "cli",
           c \in gone => file'[c].entry = NoEntry
    PROVE  PassInv'
<1>1. /\ SameRequest /\ run'.pc = run.pc /\ run'.path = run.path /\ run'.temp = run.temp
      /\ run'.todo = run.todo /\ run'.report = run.report /\ run'.calm = FALSE
      /\ Client' = Client
  BY DEF Undone, PassInv, IntegrationInv, Record, SameRequest, Client
<1>2. /\ settled' \in [Clients -> Servers \cup {NoServer}]
      /\ settled'[c] = NoServer
      /\ \A d \in Clients : d # c => settled'[d] = settled[d]
  BY DEF Undone, PassInv, Request
<1>3. Request'
  BY <1>1, <1>2 DEF PassInv, Request, SameRequest, At
<1>4. Commanding'
  <2>1. run.todo # << >> => Client \in Clients
    BY TheClient
  <2> QED
    BY <1>1, <1>2, <2>1 DEF PassInv, Commanding, SameRequest, At
<1>5. Writing'
  BY <1>1 DEF PassInv, Writing, SameRequest, At
<1>6. ASSUME NEW d \in Clients, d # c  PROVE Sound(d)'
  <2>1. Sound(d) /\ SameOf(d) /\ ((Current(d) /\ At("add"))' <=> Current(d) /\ At("add"))
    BY <1>1, <1>6 DEF PassInv, Current, At
  <2> QED
    BY <1>1, <1>2, <1>6, <2>1, StaysSound
<1>7. Sound(c)'
  <2>1. Sound(c) /\ ((Current(c) /\ At("add"))' <=> Current(c) /\ At("add"))
    BY <1>1 DEF PassInv, Current, At
  <2>2. Missing(c)'
    BY <2>1 DEF Sound, Missing
  <2>3. Holds(c)' /\ Promised(c)' /\ Answer(c)'
    BY <1>1, <1>2 DEF Holds, Promised, Answer
  <2> QED
    BY <2>2, <2>3 DEF Sound
<1> QED
  BY <1>3, <1>4, <1>5, <1>6, <1>7 DEF PassInv

\* Nobody changes anything a client is judged by.
LEMMA NothingPass ==
    ASSUME PassInv, IntegrationInv', UNCHANGED << present, run, settled, told, gone >>,
           \A d \in Clients : SameOf(d)
    PROVE  PassInv'
<1>1. Request'
  BY DEF PassInv, Request, At
<1>2. Commanding'
  <2>1. run.todo # << >> => Client \in Clients
    BY TheClient
  <2>2. ASSUME NEW d \in Clients, d \in Commanded  PROVE file'[d].entry = file[d].entry
    BY <2>2, CommandedPath DEF SameOf
  <2>3. Client' = Client
    BY DEF Client
  <2> QED
    BY <2>1, <2>2, <2>3 DEF PassInv, Commanding, At
<1>3. Writing'
  BY DEF PassInv, Writing, At, Client
<1>4. ASSUME NEW d \in Clients  PROVE Sound(d)'
  <2>1. Sound(d) /\ SameOf(d) /\ SameRequest /\ ((Current(d) /\ At("add"))' <=> Current(d) /\ At("add"))
    BY DEF PassInv, Current, At, SameRequest, Client
  <2> QED
    BY <2>1, StaysSound
<1> QED
  BY <1>1, <1>2, <1>3, <1>4 DEF PassInv

LEMMA OutsidePass ==
    ASSUME PassInv, IntegrationInv', Outside
    PROVE  PassInv'
<1>1. file \in [Files -> Configs] /\ present \in [Clients -> {"no", "dir", "cli"}]
  BY DEF PassInv, IntegrationInv, TypeOK, Request
<1>2. ASSUME NEW f \in Files, AddOther(f)  PROVE PassInv'
  <2>1. /\ file' = [file EXCEPT ![f].others = @ + 1]
        /\ UNCHANGED << present, run, settled, told, gone >>
    BY <1>2 DEF AddOther
  <2>2. \A g \in Files : file'[g].shape = file[g].shape /\ file'[g].entry = file[g].entry
    BY <1>1, <2>1 DEF Configs
  <2>3. \A d \in Clients : SameOf(d)
    BY <2>1, <2>2, SamePlaces
  <2> QED
    BY <2>1, <2>3, NothingPass
<1>3. ASSUME NEW f \in Files, SwitchOff(f) \/ Drop(f)  PROVE PassInv'
  <2> DEFINE c == Owner(f)
  <2>1. c \in Clients /\ f \in Places(c)
    BY OwnerOfPlace
  <2> HIDE DEF c
  <2>2. /\ file[f].entry # NoEntry
        /\ Undone(c) /\ UNCHANGED << present, told, gone >>
        /\ \E content : file' = [file EXCEPT ![f] = content]
    BY <1>3 DEF SwitchOff, Drop, c
  <2>3. \A d \in Clients : d # c => SameOf(d)
    BY <1>1, <2>1, <2>2, OthersSame
  <2>4. c \notin gone
    <3>1. Missing(c)
      BY <2>1 DEF PassInv, Sound
    <3> QED
      BY <2>1, <2>2, <3>1, CommandedPath DEF Missing
  <2> QED
    BY <1>1, <2>1, <2>2, <2>3, <2>4, EditPass
<1>4. ASSUME NEW c \in Clients, InstallCli(c)  PROVE PassInv'
  <2>1. /\ present' = [present EXCEPT ![c] = "cli"]
        /\ Undone(c) /\ UNCHANGED << file, told, gone >>
    BY <1>4 DEF InstallCli
  <2>2. \A d \in Clients : d # c => SameOf(d)
    BY <1>1, <2>1, SamePlaces
  <2>3. c \in gone => file'[c].entry = NoEntry
    BY <2>1 DEF PassInv, Sound, Missing
  <2> QED
    BY <1>1, <2>1, <2>2, <2>3, EditPass
<1> QED
  BY <1>2, <1>3, <1>4 DEF Outside

LEMMA InitPass ==
    ASSUME Init
    PROVE  PassInv
<1>1. /\ run.pc = "idle" /\ run.todo = << >> /\ run.report = << >> /\ run.asked = {}
      /\ run.dry = FALSE /\ run.calm = TRUE
      /\ run.before = [c \in Clients |-> NoServer]
  BY DEF Init, NoRun
<1>2. Request
  <2>1. NoRepeats(<< >>) /\ ToSet(<< >>) = {} /\ DOMAIN << >> = {} /\ << >> \in Seq(Clients)
    BY DEF NoRepeats, ToSet
  <2>2. present \in [Clients -> {"no", "dir", "cli"}]
    BY DEF Init
  <2>3. OneWordEach(told)
    BY DEF Init, OneWordEach
  <2> QED
    BY <1>1, <2>1, <2>2, <2>3 DEF Request, Init, At
<1>3. Commanding /\ Writing
  BY <1>1 DEF Commanding, Writing
<1>4. ASSUME NEW c \in Clients  PROVE Sound(c)
  BY <1>1 DEF Sound, Missing, Holds, Promised, Answer, Init, At
<1> QED
  BY <1>2, <1>3, <1>4, InitIsConsistent DEF PassInv

LEMMA NextPass ==
    ASSUME PassInv, [Next]_vars
    PROVE  PassInv'
<1>1. IntegrationInv'
  BY NextIsConsistent DEF PassInv
<1>2. CASE Command
  <2>1. CASE \E asked \in Requests, want \in Servers, dry \in BOOLEAN : Start(asked, want, dry)
    BY <1>1, <2>1, StartPass
  <2>2. CASE NotInstalled \/ Merge
    BY <1>1, <2>2, NotInstalledStep, MergePassStep
  <2>3. CASE LookCodex \/ LookGemini \/ LookClaude \/ LooksFail
    BY <1>1, <2>3, LookCommandedStep
  <2>4. CASE RemoveEntry \/ RemoveFails \/ AddEntry \/ Verify
    BY <1>1, <2>4, RemoveEntryPass, RemoveFailsPass, AddEntryPass, VerifyPass
  <2>5. CASE CommandFails \/ ReadFails \/ WriteFails
    BY <1>1, <2>5, FailsPass
  <2>6. CASE WriteTemporary \/ Rename
    BY <1>1, <2>6, WriteTemporaryPass, RenamePass
  <2>7. CASE Finish
    BY <1>1, <2>7, FinishPass
  <2>8. CASE Leave \/ Kill
    BY <1>1, <2>8, EndPass
  <2> QED
    BY <1>2, <2>1, <2>2, <2>3, <2>4, <2>5, <2>6, <2>7, <2>8 DEF Command, LooksFail
<1>3. CASE Outside
  BY <1>1, <1>3, OutsidePass
<1>4. CASE UNCHANGED vars
  BY <1>1, <1>4, SameMachine, NothingPass DEF vars
<1> QED
  BY <1>2, <1>3, <1>4 DEF Next

-----------------------------------------------------------------------------
(* The theorems about the clients.                                         *)

\* At every moment of every pass each client is in order: an entry that is missing was
\* reported or is about to be put back, a client said to be registered is, what a run
\* still owes it holds, and the status it got is right (the integrate_* functions).
THEOREM PassInvariance == Spec => []PassInv
<1>1. PassInv /\ [Next]_vars => PassInv'
  BY NextPass
<1> QED
  BY InitPass, <1>1, PTL DEF Spec

\* The comments of a file go only when its client is told that its entry was merged in.
ToldMerged(c) ==
    /\ c \in DOMAIN run'.report
    /\ run'.report[c] \in {"configured", "needs_attention"}
    /\ \A d \in DOMAIN run.report : d \in DOMAIN run'.report /\ run'.report[d] = run.report[d]
    /\ run.path \in Places(c) \cap Files
    /\ run'.base = run.base

LEMMA MergeIsTold ==
    ASSUME PassInv, Rename
    PROVE  \E c \in Clients : ToldMerged(c)
<1>1. PICK c \in Clients :
             /\ Current(c) /\ c = Client /\ run.path \in Places(c) \cap Files
             /\ ~run.dry /\ run.calm \in BOOLEAN /\ Record /\ run.todo # << >>
  BY AtCopy DEF Rename
<1>2. c \notin DOMAIN run.report
  BY <1>1, TheClient
<1>3. Report("configured", TRUE) /\ ~At("idle")
  BY DEF Rename, At
<1>4. PICK said \in Said(Client, "configured") : Answered(said, TRUE)
  BY <1>1, <1>3, ReportAnswers
<1>5. said \in {"configured", "needs_attention"}
  BY <1>1, <1>4, SaidOf
<1>6. run'.base = run.base
  BY <1>1, <1>3, ReportRun
<1> QED
  BY <1>1, <1>2, <1>4, <1>5, <1>6 DEF Answered, ToldMerged

\* Any other step leaves the comments, and what was said.
SaidStays ==
    /\ run'.base = run.base /\ (run'.pc = "idle" <=> run.pc = "idle")
    /\ \A c \in DOMAIN run.report : c \in DOMAIN run'.report /\ run'.report[c] = run.report[c]

LEMMA ReportSays ==
    ASSUME PassInv, run.todo # << >>, ~At("idle"), NEW status, NEW calm \in BOOLEAN,
           Report(status, calm)
    PROVE  SaidStays
<1>1. Record /\ run.calm \in BOOLEAN
  BY DEF PassInv, IntegrationInv, Request
<1>2. PICK said \in Said(Client, status) : Answered(said, calm)
  BY <1>1, ReportAnswers
<1>3. run'.base = run.base
  BY <1>1, ReportRun
<1>4. Client \notin DOMAIN run.report
  BY TheClient
<1> QED
  BY <1>2, <1>3, <1>4 DEF Answered, SaidStays, SameRequest

LEMMA StepSays ==
    ASSUME PassInv, ~At("idle"), NEW pc, pc # "idle", NEW path, Step(pc, path)
    PROVE  SaidStays
  BY DEF PassInv, IntegrationInv, Record, Step, SaidStays, At

SameNotes == \A f \in Files : file'[f].notes = file[f].notes

LEMMA EntryKeepsNotes ==
    ASSUME PassInv, NEW f, NEW shape, NEW entry,
           \/ file' = [file EXCEPT ![f].entry = entry]
           \/ file' = [file EXCEPT ![f].shape = shape, ![f].entry = entry]
    PROVE  SameNotes
  BY DEF PassInv, IntegrationInv, TypeOK, Configs, SameNotes

LEMMA NotesStay ==
    ASSUME PassInv, CommentsKept, SameNotes, SaidStays
    PROVE  CommentsKept'
<1>1. SUFFICES ASSUME ~At("idle"), NEW f \in Files, run.base[f].notes
               PROVE  file'[f].notes \/ Rewritten(f)'
  BY DEF CommentsKept, SaidStays, At
<1>2. CASE file[f].notes
  BY <1>2 DEF SameNotes
<1>3. CASE Rewritten(f)
  BY <1>3 DEF Rewritten, SaidStays, Owner
<1> QED
  BY <1>1, <1>2, <1>3 DEF CommentsKept

LEMMA CommandKeepsComments ==
    ASSUME PassInv, CommentsKept, Command
    PROVE  CommentsKept'
<1>1. CASE \E asked \in Requests, want \in Servers, dry \in BOOLEAN : Start(asked, want, dry)
  <2>1. /\ file' = file
        /\ run'.base = [f \in Files |-> [others |-> file[f].others, notes |-> file[f].notes]]
    BY <1>1 DEF Start, NoRun
  <2> QED
    BY <2>1 DEF CommentsKept
<1>2. CASE Rename
  <2>1. PICK c \in Clients : ToldMerged(c)
    BY <1>2, MergeIsTold
  <2>2. file' = [file EXCEPT ![run.path] = run.temp] /\ ~At("idle")
    BY <1>2 DEF Rename, At
  <2>3. Owner(run.path) = c
    BY <2>1, OwnerOfPlace, PlacesApart DEF ToldMerged
  <2>4. ASSUME NEW f \in Files, run.base[f].notes  PROVE file'[f].notes \/ Rewritten(f)'
    <3>1. CASE f = run.path
      BY <2>1, <2>3, <3>1 DEF ToldMerged, Rewritten, Owner
    <3>2. CASE f # run.path /\ file[f].notes
      BY <2>2, <3>2 DEF PassInv, IntegrationInv, TypeOK
    <3>3. CASE Rewritten(f)
      BY <2>1, <3>3 DEF ToldMerged, Rewritten, Owner
    <3> QED
      BY <2>2, <2>4, <3>1, <3>2, <3>3 DEF CommentsKept
  <2> QED
    BY <2>1, <2>4 DEF ToldMerged, CommentsKept
<1>3. CASE Leave \/ Kill
  BY <1>3 DEF Leave, Kill, NoRun, CommentsKept, At
<1>4. CASE RemoveEntry \/ AddEntry
  <2>1. SameNotes
    BY <1>4, EntryKeepsNotes DEF RemoveEntry, AddEntry
  <2>2. run.todo # << >> /\ ~At("idle")
    BY <1>4 DEF PassInv, Commanding, RemoveEntry, AddEntry, At
  <2>3. SaidStays
    BY <1>4, <2>2, StepSays, ReportSays DEF RemoveEntry, AddEntry
  <2> QED
    BY <2>1, <2>3, NotesStay
<1>5. CASE NotInstalled \/ Finish \/ Merge \/ LookCodex \/ LookGemini \/ LookClaude \/ LooksFail
           \/ ReadFails \/ RemoveFails \/ Verify \/ CommandFails \/ WriteTemporary \/ WriteFails
  <2>1. SameNotes
    BY <1>5 DEF NotInstalled, Finish, Merge, LookCodex, LookGemini, LookClaude, LooksFail,
                LookCodexFails, LookGeminiFails, LookClaudeFails, LookFails, ReadFails,
                RemoveFails, Verify, CommandFails, WriteTemporary, WriteFails, SameNotes
  <2>2. ~At("idle") /\ Record /\ (run.todo # << >> \/ Finish)
    BY <1>5 DEF PassInv, IntegrationInv, Commanding, Writing, At, Looking,
                NotInstalled, Finish, Merge, LookCodex, LookGemini, LookClaude, LooksFail,
                LookCodexFails, LookGeminiFails, LookClaudeFails, LookFails, ReadFails,
                RemoveFails, Verify, CommandFails, WriteTemporary, WriteFails
  <2>3. SaidStays
    <3>1. CASE NotInstalled
      <4>1. Client \notin DOMAIN run.report
        BY <3>1, TheClient DEF NotInstalled, Looking
      <4> DEFINE report == [c \in DOMAIN run.report \cup {Client} |->
                              IF c = Client THEN "not_installed" ELSE run.report[c]]
      <4>2. /\ run'.base = run.base /\ run'.pc = run.pc /\ run'.report = report
        BY <2>2, <3>1 DEF NotInstalled, Record
      <4>3. \A c \in DOMAIN run.report : c \in DOMAIN report /\ report[c] = run.report[c]
        BY <4>1
      <4> HIDE DEF report
      <4> QED
        BY <4>2, <4>3 DEF SaidStays
    <3>2. CASE Finish
      BY <2>2, <3>2 DEF Finish, Record, SaidStays, At
    <3>3. CASE LooksFail /\ ~run.dry
      BY <2>2, <3>3 DEF LooksFail, LookCodexFails, LookGeminiFails, LookClaudeFails, LookFails,
                        Record, SaidStays, Looking, At
    <3>4. CASE LooksFail /\ run.dry
      BY <2>2, <3>4, ReportSays
         DEF LooksFail, LookCodexFails, LookGeminiFails, LookClaudeFails, LookFails, Looking
    <3>5. CASE ReadFails \/ Verify \/ CommandFails \/ WriteFails \/ WriteTemporary \/ RemoveFails
      BY <2>2, <3>5, ReportSays, StepSays
         DEF ReadFails, Verify, CommandFails, WriteFails, WriteTemporary, RemoveFails, Looking,
             Finish, At
    <3>6. CASE LookCodex \/ LookGemini \/ LookClaude
      <4>1. \/ \E status : Report(status, TRUE)
            \/ \E pc \in {"remove", "add"} : Step(pc, Client)
        BY <3>6 DEF LookCodex, LookGemini, LookClaude, Decide
      <4> QED
        BY <2>2, <3>6, <4>1, ReportSays, StepSays DEF LookCodex, LookGemini, LookClaude, Looking
    <3>7. CASE Merge
      <4>1. \/ \E status : Report(status, TRUE)
            \/ run' = [run EXCEPT !.pc = "write", !.path = PathOf(Client),
                         !.temp = [file[PathOf(Client)] EXCEPT !.shape = "fine", !.notes = FALSE,
                                     !.entry = Merged(PathOf(Client), run.want)]]
        BY <3>7 DEF Merge, Decide
      <4>2. CASE \E status : Report(status, TRUE)
        BY <2>2, <3>7, <4>2, ReportSays DEF Merge, Looking
      <4>3. CASE ~\E status : Report(status, TRUE)
        BY <2>2, <4>1, <4>3 DEF Record, SaidStays, At
      <4> QED
        BY <4>2, <4>3
    <3> QED
      BY <1>5, <3>1, <3>2, <3>3, <3>4, <3>5, <3>6, <3>7
  <2> QED
    BY <2>1, <2>3, NotesStay
<1> QED
  BY <1>1, <1>2, <1>3, <1>4, <1>5 DEF Command, LooksFail

LEMMA NextKeepsComments ==
    ASSUME PassInv, CommentsKept, [Next]_vars
    PROVE  CommentsKept'
<1>1. CASE Outside
  <2>1. SameNotes
    BY <1>1 DEF Outside, AddOther, SwitchOff, Drop, InstallCli, SameNotes, PassInv,
                IntegrationInv, TypeOK, Configs
  <2>2. SaidStays
    BY <1>1 DEF Outside, AddOther, SwitchOff, Drop, InstallCli, Undone, SaidStays, PassInv,
                IntegrationInv, Record
  <2> QED
    BY <2>1, <2>2, NotesStay
<1>2. CASE UNCHANGED vars
  BY <1>2, NotesStay DEF vars, SameNotes, SaidStays
<1> QED
  BY <1>1, <1>2, CommandKeepsComments DEF Next

\* What a client kept in its file when a run began is there until the run has ended,
\* whatever fails and is killed in between; only comments go, and only where the client is
\* reported as configured (the merge functions and write_json_atomic of integration.rs).
THEOREM OthersAreKept == Spec => []OthersKept
<1>1. Init => CommentsKept
  BY DEF Init, NoRun, CommentsKept, At
<1>2. PassInv /\ CommentsKept /\ [Next]_vars => CommentsKept'
  BY NextKeepsComments
<1>3. PassInv /\ CommentsKept => OthersKept
  BY DEF PassInv, IntegrationInv, OthersKept
<1> QED
  BY <1>1, <1>2, <1>3, PassInvariance, PTL DEF Spec

\* A client the command called registered is, until somebody edits its entry, moves the
\* client or asks for another server, whatever later runs, failed looks and commands, and
\* kills do; only Claude's entry may be taken out, which the user is then told of.
THEOREM RegisteredStays == Spec => []Registered
<1>1. PassInv => Registered
  BY DEF PassInv, Sound, Holds, Registered
<1> QED
  BY <1>1, PassInvariance, PTL

\* "The command is idempotent" (README.md:346): a clean run does not configure a client
\* again that an earlier run registered, whatever its way of writing the entry.
THEOREM RepeatsAreQuiet == Spec => []RepeatIsQuiet
<1>1. PassInv => RepeatIsQuiet
  <2>1. SUFFICES ASSUME PassInv, run.calm, NEW c \in DOMAIN run.report,
                        run.before[c] = run.want
                 PROVE  run.report[c] # "configured"
    BY DEF RepeatIsQuiet
  <2>2. c \in Clients
    BY <2>1 DEF PassInv, Request
  <2> QED
    BY <2>1, <2>2 DEF PassInv, Sound, Answer
<1> QED
  BY <1>1, PassInvariance, PTL

\* No client asked for is passed over, and a clean run leaves every installed client with a
\* usable file registered, from whatever was there (the loop of integrate).
THEOREM PassesAreComplete == Spec => []PassIsComplete
<1>1. PassInv => PassIsComplete
  <2>1. SUFFICES ASSUME PassInv, At("done") PROVE PassIsComplete
    BY DEF PassIsComplete
  <2>2. DOMAIN run.report = run.asked /\ run.asked \subseteq Clients
    <3>1. ToSet(<< >>) = {}
      BY DEF ToSet
    <3> QED
      BY <2>1, <3>1 DEF PassInv, Request
  <2>3. ~run.dry /\ run.calm =>
          \A c \in run.asked :
             Installed(c) /\ Whole(file[PathOf(c)]) => run.report[c] \in Registers
    BY <2>1, <2>2 DEF PassInv, Sound, Answer
  <2> QED
    BY <2>2, <2>3 DEF PassIsComplete
<1> QED
  BY <1>1, PassInvariance, PTL

\* An entry that was taken out to be replaced is missing only while the command is about
\* to add it, or after the user was told of a failure or killed the command.
THEOREM NothingLostSilently == Spec => []NotLostSilently
<1>1. PassInv => NotLostSilently
  BY DEF PassInv, Request, Sound, Missing, NotLostSilently, Current
<1> QED
  BY <1>1, PassInvariance, PTL
=============================================================================
