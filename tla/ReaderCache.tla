---------------------------- MODULE ReaderCache -----------------------------
(***************************************************************************)
(* The serving side of a published collection.  A daemon follows           *)
(* collection.json and the pointers of its shards (src/src/daemon.rs,      *)
(* SnapshotFollower), copies the snapshots they name into a local cache    *)
(* (src/src/snapshot.rs, materialize_pointer) and describes each           *)
(* combination it activated in a directory of its own, a set               *)
(* (src/src/collection.rs, refresh).  Query workers and the status         *)
(* refresher open sets by path, at their own pace, and hold a shared lock  *)
(* in the set they serve, their lease (src/src/reader.rs,                  *)
(* open_with_previous).  The refresh thread ends each refresh by pruning   *)
(* the cache around the leases (prune_cache).                              *)
(*                                                                         *)
(* A set is identified by its content, the generation pinned for each      *)
(* shard; in the code, by the hash of that.  A copy is made under a        *)
(* temporary name and renamed, so it is whole or absent, except when the   *)
(* process dies while removing it.  What is inside a snapshot, and the     *)
(* shards' exclusions, are left out.                                       *)
(***************************************************************************)
EXTENDS Naturals, FiniteSets, Sequences, SequencesExt

CONSTANTS
    Shards,       \* the names a collection may list
    Workers,      \* query workers
    Status,       \* the status refresher
    Keep,         \* activations kept without a lease (3 in the code)
    Retain,       \* generations a producer keeps of its shard
    MaxPublish,   \* bound: publications, of all the shards together
    MaxReconf,    \* bound: edits of collection.json
    MaxFaults,    \* bound: opens that fail and deaths of the daemon
    MaxLag        \* bound: prunes between reading a path and opening it

Main == "main"                 \* the workspace of the accept loop
Followers == Workers \cup {Status}
Readers == Followers \cup {Main}

NoSet == <<>>                  \* the function with no shard
Gens == 1..MaxPublish + 1
Sets == UNION {[D -> Gens] : D \in (SUBSET Shards) \ {{}}}
Copies == Shards \X Gens

ASSUME ReaderAssumption ==
    /\ Shards # {}
    /\ Main \notin Followers /\ Status \notin Workers /\ IsFiniteSet(Workers)
    /\ Keep \in Nat \ {0} /\ Retain \in Nat \ {0}
    /\ {MaxPublish, MaxReconf, MaxFaults, MaxLag} \subseteq Nat

VARIABLES
    \* what is published
    pointer,      \* generation named by current.json of each shard
    conf,         \* the shards collection.json lists
    published, reconfs,   \* how often they changed
    \* the cache
    whole,        \* copies of snapshots, complete
    broken,       \* copies whose removal was interrupted
    dirs,         \* set directories
    recent,       \* sets with a descriptor, the newest first
    \* the daemon
    up,           \* the accept loop runs
    path,         \* active_path
    lease,        \* the set each reader serves, NoSet if it has none
    scratch,      \* readers serving the empty index an absent set opens as
    asked,        \* the path a follower read and has not opened, or NoSet
    touched,      \* followers that opened the lock file of that path
    lag,          \* prunes since it read the path
    used,         \* history: sets served at any time since the prune under way began
    \* the refresh thread
    pc,
    want,         \* conf when the descriptor was read
    pinned,       \* the pointers read so far
    ready,        \* shards of the new set whose copy is there
    todo, rank,   \* set directories prune_cache has not looked at
    retained,     \* copies named by the sets it kept
    faults, misses   \* of them, sets the accept loop failed to open

source == <<pointer, conf, published, reconfs>>
cache == <<whole, broken, dirs, recent>>
serving == <<lease, scratch>>
opening == <<asked, touched, lag, used>>
refresh == <<pc, want, pinned, ready, todo, rank, retained>>
faulty == <<faults, misses>>
vars == <<source, cache, up, path, serving, opening, refresh, faulty>>

Described == ToSet(recent)
Contents(set) == {<<s, set[s]>> : s \in DOMAIN set}
Active == lease[Main]          \* what the follower has activated

Init ==
    /\ pointer = [s \in Shards |-> 1] /\ conf = Shards
    /\ published = 0 /\ reconfs = 0
    /\ whole = {} /\ broken = {} /\ dirs = {} /\ recent = <<>>
    /\ up = FALSE /\ path = NoSet
    /\ lease = [r \in Readers |-> NoSet] /\ scratch = {}
    /\ asked = [r \in Followers |-> NoSet] /\ touched = {}
    /\ lag = [r \in Followers |-> 0] /\ used = {}
    /\ pc = "idle" /\ want = {} /\ pinned = NoSet /\ ready = {}
    /\ todo = <<>> /\ rank = 0 /\ retained = {}
    /\ faults = 0 /\ misses = 0

-----------------------------------------------------------------------------
(* The producers and the operator. *)

\* A producer publishes a generation of its shard and prunes older ones.
Publish(s) ==
    /\ published < MaxPublish
    /\ pointer' = [pointer EXCEPT ![s] = @ + 1]
    /\ published' = published + 1
    /\ UNCHANGED <<conf, reconfs, cache, up, path, serving, opening, refresh, faulty>>

\* The operator rewrites collection.json.
Reconfigure ==
    /\ reconfs < MaxReconf
    /\ conf' \in (SUBSET Shards) \ {{}, conf}
    /\ reconfs' = reconfs + 1
    /\ UNCHANGED <<pointer, published, cache, up, path, serving, opening, refresh, faulty>>

\* The generation the follower pinned is still in the publish directory.
Available(s, g) == g + Retain > pointer[s]

-----------------------------------------------------------------------------
(* The refresh thread: collection.rs refresh, one file operation a step.   *)
(* At start the daemon runs the same code before it serves.                *)

Idle == /\ pc' = "idle" /\ pinned' = NoSet /\ ready' = {} /\ want' = {}
        /\ todo' = <<>> /\ rank' = 0 /\ retained' = {}

\* The poll interval has passed and no refresh is pending.
Poll ==
    /\ pc = "idle"
    /\ pc' = "pin" /\ want' = conf
    /\ UNCHANGED <<source, cache, up, path, serving, opening, pinned, ready,
                   todo, rank, retained, faulty>>

\* Mutant: a pointer is read through a stale cache.
PinStale(s) ==
    /\ pc = "pin" /\ s \in want \ DOMAIN pinned
    /\ \E g \in 1..pointer[s] :
         pinned' = [t \in DOMAIN pinned \cup {s} |-> IF t = s THEN g ELSE pinned[t]]
    /\ UNCHANGED <<source, cache, up, path, serving, opening, pc, want, ready,
                   todo, rank, retained, faulty>>

\* Every pointer is read before anything is copied.
Pin(s) ==
    /\ pc = "pin" /\ s \in want \ DOMAIN pinned
    /\ pinned' = [t \in DOMAIN pinned \cup {s} |-> IF t = s THEN pointer[s] ELSE pinned[t]]
    /\ UNCHANGED <<source, cache, up, path, serving, opening, pc, want, ready,
                   todo, rank, retained, faulty>>

\* Mutant: the identity of a set is that of its pointers alone.
SamePointers ==
    /\ up /\ DOMAIN pinned \cap DOMAIN Active # {}
    /\ \A s \in DOMAIN pinned \cap DOMAIN Active : pinned[s] = Active[s]

\* The set is the active one: nothing to do.
Unchanged == up /\ pinned = Active

Pinned ==
    /\ pc = "pin" /\ DOMAIN pinned = want
    /\ IF Unchanged THEN Idle
       ELSE pc' = "copy" /\ UNCHANGED <<want, pinned, ready, todo, rank, retained>>
    /\ UNCHANGED <<source, cache, up, path, serving, opening, faulty>>

\* A shard of the active set with the same pointer is used as it is, without
\* reading it; anything else is verified or copied anew.
Reusable(s) ==
    /\ up /\ s \in DOMAIN Active /\ Active[s] = pinned[s]
    /\ <<s, pinned[s]>> \in whole \cup broken

\* The files of the copy have the sizes and hashes of its manifest.
Verified(c) == c \in whole

\* A copy that does not verify is removed and made again, verified and renamed.
Fetched(c) == whole' = whole \cup {c} /\ broken' = broken \ {c}

Materialize(s) ==
    /\ pc = "copy" /\ s \in want \ ready
    /\ LET c == <<s, pinned[s]>> IN
       \/ /\ Reusable(s)
          /\ ready' = ready \cup {s}
          /\ UNCHANGED <<whole, broken, pc, want, pinned, todo, rank, retained>>
       \/ /\ ~ Reusable(s) /\ Available(s, pinned[s])
          /\ IF Verified(c) THEN UNCHANGED <<whole, broken>> ELSE Fetched(c)
          /\ ready' = ready \cup {s}
          /\ UNCHANGED <<pc, want, pinned, todo, rank, retained>>
       \/ /\ ~ Reusable(s) /\ ~ Available(s, pinned[s])
          /\ Idle
          /\ UNCHANGED <<whole, broken>>
    /\ UNCHANGED <<source, dirs, recent, up, path, serving, opening, faulty>>

\* The directory of the set exists before its descriptor does.
MakeSet ==
    /\ pc = "copy" /\ ready = want
    /\ dirs' = dirs \cup {pinned}
    /\ pc' = "describe"
    /\ UNCHANGED <<source, whole, broken, recent, up, path, serving, opening, want,
                   pinned, ready, todo, rank, retained, faulty>>

\* The descriptor is renamed into place; prune_cache then lists the sets, those
\* without a descriptor last.
Describe ==
    /\ pc = "describe"
    /\ recent' = <<pinned>> \o RemoveFirst(recent, pinned)
    /\ pc' = "prune" /\ rank' = 0 /\ retained' = {}
    /\ todo' = recent' \o SetToSeq(dirs \ ToSet(recent'))
    /\ lag' = [r \in Followers |-> IF asked[r] = NoSet THEN 0 ELSE lag[r] + 1]
    /\ \A r \in Followers : lag'[r] <= MaxLag
    /\ used' = {lease[r] : r \in Readers}
    /\ UNCHANGED <<source, whole, broken, dirs, up, path, serving, asked, touched,
                   want, pinned, ready, faulty>>

\* Mutants: it counts one activation too few, or one too many; it does not try
\* the lock.
KeepsMore(set) == rank <= Keep \/ set = pinned \/ (up /\ set = Active)
KeepsFewer(set) == rank + 1 < Keep \/ set = pinned \/ (up /\ set = Active)
NotTried(set) == FALSE

\* The sets prune_cache keeps whether or not somebody holds them.
Protected(set) == rank < Keep \/ set = pinned \/ (up /\ set = Active)

Leased(set) == \E r \in Readers : lease[r] = set

\* It removes a set under its exclusive lock, and gives up if a set it keeps
\* has no descriptor.
PruneSet ==
    /\ pc = "prune" /\ todo # <<>>
    /\ LET set == Head(todo) IN
       \/ /\ ~ Protected(set) /\ ~ Leased(set)
          /\ dirs' = dirs \ {set}
          /\ recent' = RemoveFirst(recent, set)
          /\ todo' = Tail(todo) /\ rank' = rank + 1
          /\ UNCHANGED <<retained, pc>>
       \/ /\ Protected(set) \/ Leased(set)
          /\ IF set \in Described
             THEN /\ retained' = retained \cup Contents(set)
                  /\ todo' = Tail(todo) /\ rank' = rank + 1
                  /\ UNCHANGED pc
             ELSE /\ pc' = "done"
                  /\ UNCHANGED <<todo, rank, retained>>
          /\ UNCHANGED <<dirs, recent>>
    /\ UNCHANGED <<source, whole, broken, up, path, serving, opening, want, pinned,
                   ready, faulty>>

\* Mutant: copies that cannot be read are passed over.
WholeOnly == whole \ retained

Doomed == (whole \cup broken) \ retained

\* Then the copies no kept set names.
PruneCopy ==
    /\ pc = "prune" /\ todo = <<>>
    /\ \/ \E c \in Doomed :
            /\ whole' = whole \ {c} /\ broken' = broken \ {c}
            /\ UNCHANGED pc
       \/ /\ Doomed = {}
          /\ pc' = "done"
          /\ UNCHANGED <<whole, broken>>
    /\ UNCHANGED <<source, dirs, recent, up, path, serving, opening, want, pinned,
                   ready, todo, rank, retained, faulty>>

-----------------------------------------------------------------------------
(* The accept loop takes the result.  It opens the new set before it drops  *)
(* the old one; after a failure the old one stays active.  At start the     *)
(* workers and the status refresher open the same set before serving.       *)

Activate ==
    /\ pc = "done"
    /\ path' = pinned /\ up' = TRUE
    /\ lease' = IF up THEN [lease EXCEPT ![Main] = pinned]
                ELSE [r \in Readers |-> pinned]
    /\ Idle /\ used' = {}
    /\ UNCHANGED <<source, cache, scratch, asked, touched, lag, faulty>>

ActivateFails ==
    /\ pc = "done" /\ faults < MaxFaults
    /\ faults' = faults + 1 /\ misses' = misses + 1
    /\ Idle /\ used' = {}
    /\ UNCHANGED <<source, cache, up, path, serving, asked, touched, lag>>

-----------------------------------------------------------------------------
(* A worker that takes a request, and the status refresher on its timer,   *)
(* read active_path and reopen if it is not what they serve.               *)

ReadPath(r) ==
    /\ up /\ asked[r] = NoSet
    /\ path # lease[r]
    /\ asked' = [asked EXCEPT ![r] = path]
    /\ lag' = [lag EXCEPT ![r] = 0]
    /\ UNCHANGED <<source, cache, up, path, serving, touched, used, refresh, faulty>>

\* create_dir_all and the lock file.
Touch(r) ==
    /\ asked[r] # NoSet /\ r \notin touched
    /\ dirs' = dirs \cup {asked[r]}
    /\ touched' = touched \cup {r}
    /\ UNCHANGED <<source, whole, broken, recent, up, path, serving, asked, lag, used,
                   refresh, faulty>>

Opened(r) == /\ asked' = [asked EXCEPT ![r] = NoSet]
             /\ touched' = touched \ {r}
             /\ lag' = [lag EXCEPT ![r] = 0]

\* The shared lock, then the descriptor.  Without one, the directory opens as
\* an empty index of its own.
Open(r) ==
    /\ r \in touched
    /\ lease' = [lease EXCEPT ![r] = asked[r]]
    /\ scratch' = IF asked[r] \in Described THEN scratch \ {r} ELSE scratch \cup {r}
    /\ Opened(r)
    /\ used' = IF pc \in {"prune", "done"} THEN used \cup {asked[r]} ELSE used
    /\ UNCHANGED <<source, cache, up, path, refresh, faulty>>

\* A worker whose open fails keeps its reader; the status refresher has given
\* its own away.
OpenFails(r) ==
    /\ r \in touched /\ faults < MaxFaults
    /\ faults' = faults + 1
    /\ lease' = IF r = Status THEN [lease EXCEPT ![r] = NoSet] ELSE lease
    /\ scratch' = IF r = Status THEN scratch \ {r} ELSE scratch
    /\ Opened(r)
    /\ UNCHANGED <<source, cache, up, path, used, refresh, misses>>

-----------------------------------------------------------------------------
\* The daemon dies, possibly while it removes a copy, and is started again.
Crash ==
    /\ faults < MaxFaults
    /\ faults' = faults + 1
    /\ \/ UNCHANGED <<whole, broken>>
       \/ /\ pc = "prune" /\ todo = <<>>
          /\ \E c \in Doomed : whole' = whole \ {c} /\ broken' = broken \cup {c}
    /\ up' = FALSE /\ path' = NoSet
    /\ lease' = [r \in Readers |-> NoSet] /\ scratch' = {}
    /\ asked' = [r \in Followers |-> NoSet] /\ touched' = {}
    /\ lag' = [r \in Followers |-> 0]
    /\ Idle /\ used' = {}
    /\ UNCHANGED <<source, dirs, recent, misses>>

-----------------------------------------------------------------------------
Refresh ==
    \/ Poll \/ Pinned \/ MakeSet \/ Describe \/ PruneSet \/ PruneCopy \/ Activate
    \/ \E s \in Shards : Pin(s) \/ Materialize(s)

Follow(r) == ReadPath(r) \/ Touch(r) \/ Open(r)

Next ==
    \/ Refresh \/ ActivateFails \/ Crash \/ Reconfigure
    \/ \E s \in Shards : Publish(s)
    \/ \E r \in Followers : Follow(r) \/ OpenFails(r)

Spec == Init /\ [][Next]_vars

\* The poll timer fires, the refresh thread and the status refresher run.  A
\* worker reopens only when a request reaches it.
LiveSpec == /\ Spec /\ WF_vars(Refresh)
            /\ \A r \in Followers : WF_vars(Touch(r) \/ Open(r))
            /\ WF_vars(ReadPath(Status))

-----------------------------------------------------------------------------
TypeOK ==
    /\ pointer \in [Shards -> Gens] /\ conf \in (SUBSET Shards) \ {{}}
    /\ published \in 0..MaxPublish /\ reconfs \in 0..MaxReconf
    /\ whole \subseteq Copies /\ broken \subseteq Copies
    /\ dirs \subseteq Sets /\ recent \in Seq(Sets)
    /\ up \in BOOLEAN /\ path \in Sets \cup {NoSet}
    /\ lease \in [Readers -> Sets \cup {NoSet}] /\ scratch \subseteq Readers
    /\ asked \in [Followers -> Sets \cup {NoSet}] /\ touched \subseteq Followers
    /\ lag \in [Followers -> 0..MaxLag] /\ used \subseteq Sets \cup {NoSet}
    /\ pc \in {"idle", "pin", "copy", "describe", "prune", "done"}
    /\ want \subseteq Shards /\ ready \subseteq want
    /\ pinned \in Sets \cup {NoSet} /\ DOMAIN pinned \subseteq want
    /\ todo \in Seq(Sets) /\ rank \in Nat /\ retained \subseteq Copies
    /\ faults \in 0..MaxFaults /\ misses \in 0..faults

\* A reader that serves a set has its descriptor and a whole copy of every
\* shard in it, for as long as it serves it: collection.rs:187, "GC never
\* removes an in-flight version".
LeasedStaysWhole ==
    \A r \in Readers : lease[r] # NoSet /\ r \notin scratch =>
        lease[r] \in Described /\ Contents(lease[r]) \subseteq whole

\* Nobody serves the empty index that a removed set would open as, even a
\* follower that opens a path up to MaxLag prunes after it read it.  A set
\* whose activation failed takes one of the Keep places all the same, so each
\* such failure costs the follower a prune.
NeverScratch == misses = 0 => scratch = {}

\* A prune leaves nothing behind that is neither new nor in use: once it is done,
\* beyond the newest Keep sets only those are left that a reader served while it
\* ran, and no copy that no set names.  It gives up at a set without a descriptor
\* (a daemon died before writing it) only while fewer than Keep sets are
\* described, or if a reader serves that set as the empty index it opened as.
CacheBounded ==
    pc = "done" =>
        /\ \A i \in DOMAIN recent : i > Keep => recent[i] \in used
        /\ IF todo = <<>>
           THEN whole \cup broken \subseteq UNION {Contents(set) : set \in Described}
           ELSE Len(recent) < Keep \/ Head(todo) \in used

\* No reader that goes from one set to another sees an older generation of a
\* shard they share, although pointers are read one by one, copies and sets are
\* reused and paths are opened late.
GenerationsMoveForward ==
    [][\A r \in Readers : \A s \in DOMAIN lease[r] \cap DOMAIN lease'[r] :
           lease'[r][s] >= lease[r][s]]_vars

\* Through errors, restarts and snapshots pruned while they were copied, the
\* daemon ends up serving what is published, and so does its status.
Converges ==
    <>[](up /\ lease[Main] = [s \in conf |-> pointer[s]] /\ lease[Status] = lease[Main])
=============================================================================
