--------------------------- MODULE PluginRegistry ---------------------------
(***************************************************************************)
(* The plugin registry (src/src/plugin.c) and the tool that fills it        *)
(* (create_plugin, src/src/tools.c).  The main thread scans the directory   *)
(* and loads what changed; builder sessions compile from memory, register,  *)
(* and then write the source; owners and other tools edit and delete files  *)
(* whenever they like.  compile_lock covers a whole compilation, the        *)
(* registry's own lock one access to the tables, and nothing covers the     *)
(* files.                                                                   *)
(*                                                                         *)
(* A source text is its number and the tool name it declares; a text that   *)
(* does not build (compile error, no tc_execute, a bad or built-in name)    *)
(* declares NoName.  The registry stores a name cut to its 63 characters,   *)
(* although a declared one may have 64.  Times are whole seconds, as time_t *)
(* is.  The registry is a set: the order of its slots decides nothing here. *)
(***************************************************************************)
EXTENDS Naturals, Sequences, FiniteSets

CONSTANTS Files,      \* source paths in the plugin directory
          Names,      \* tool names
          Cut,        \* a name as plugin_entry_t.name holds it
          Builders,   \* builder agents (one session each)
          MaxPlugins, \* TC_MAX_PLUGINS
          Faults,     \* which of "check", "save" can happen
          MaxTexts,   \* bound: texts written
          MaxTime,    \* bound: the clock, in seconds
          MaxRemoves  \* bound: files deleted

ASSUME PluginAssumption ==
    /\ Files # {} /\ "main" \notin Builders
    /\ Cut \in [Names -> Names]
    /\ MaxPlugins \in Nat \ {0}
    /\ MaxTexts \in Nat
    /\ MaxTime \in Nat
    /\ MaxRemoves \in Nat

Main   == "main"              \* the main thread, in plugin_scan
Procs  == Builders \cup {Main}
NoName == "none"
NoText == [id |-> 0, name |-> NoName]
NoFile == [text |-> NoText, mtime |-> 0]

Text  == [id : 1..MaxTexts, name : Names \cup {NoName}]
File  == [text : Text \cup {NoText}, mtime : 0..MaxTime]
Entry == [src : Files, name : Names, text : Text, mtime : 0..MaxTime]

VARIABLES
    disk,         \* the directory: NoFile or a text and its mtime
    plugins,      \* r->plugins
    failed,       \* r->failed_src and failed_mtime, n_failed long
    compileLock,  \* "free" or its holder
    job,          \* per process: where it is in plugin_compile and around it
    todo,         \* main thread: files readdir still returns
    clock

(* History, read by properties and bounds only. *)
VARIABLES
    stamps,       \* <<file, mtime, text>>: a text carried this mtime
    rejected,     \* <<file, text>>: a compilation of it failed
    texts, removes

history == <<stamps, rejected, texts, removes>>
vars == <<disk, plugins, failed, compileLock, job, todo, clock, history>>

\* job[p].text is the code argument (NoText: compile the file), built the
\* text the daemon's own build saw.
NoJob(f) == [pc |-> "idle", src |-> f, text |-> NoText, built |-> NoText, mtime |-> 0]
Job == [pc : {"idle", "dir", "loaded", "known", "check", "build", "install",
              "record", "save", "stamp"},
        src : Files, text : Text \cup {NoText}, built : Text \cup {NoText},
        mtime : 0..MaxTime]

Exists(f) == disk[f] # NoFile
Builds(t) == t.name # NoName
At(p, pc) == job[p].pc = pc
Goto(p, pc) == job' = [job EXCEPT ![p].pc = pc]

-----------------------------------------------------------------------------
(* plugin_init: an empty registry; the scan it ends with is the first one   *)
(* below.                                                                   *)
Init ==
    /\ disk = [f \in Files |-> NoFile]
    /\ plugins = {} /\ failed = <<>>
    /\ compileLock = "free"
    /\ job = [p \in Procs |-> NoJob(CHOOSE f \in Files : TRUE)]
    /\ todo = {}
    /\ clock = 0
    /\ stamps = {} /\ rejected = {}
    /\ texts = 0 /\ removes = 0

-----------------------------------------------------------------------------
(* plugin_scan.  Forget the plugins whose file is gone, then open the       *)
(* directory.  readdir returns every file that is there all along; one that *)
(* appears while it is read may be returned or not.                         *)

\* Mutant: everything is unloaded before the files are read again.
UnloadsAll(set) == {}

StillThere(set) == {e \in set : Exists(e.src)}

ScanBegin ==
    /\ At(Main, "idle")
    /\ plugins' = StillThere(plugins)
    /\ \E late \in SUBSET {f \in Files : ~Exists(f)} :
         todo' = {f \in Files : Exists(f)} \cup late
    /\ Goto(Main, "dir")
    /\ UNCHANGED <<disk, failed, compileLock, clock, history>>

\* stat, which also skips a file deleted meanwhile.
ScanStat(f) ==
    /\ At(Main, "dir")
    /\ f \in todo
    /\ todo' = todo \ {f}
    /\ job' = IF Exists(f)
              THEN [job EXCEPT ![Main] = [NoJob(f) EXCEPT !.pc = "loaded",
                                                          !.mtime = disk[f].mtime]]
              ELSE job
    /\ UNCHANGED <<disk, plugins, failed, compileLock, clock, history>>

UpToDate(f, t) == \E e \in plugins : e.src = f /\ e.mtime = t

ScanLoaded ==
    /\ At(Main, "loaded")
    /\ Goto(Main, IF UpToDate(job[Main].src, job[Main].mtime) THEN "dir" ELSE "known")
    /\ UNCHANGED <<disk, plugins, failed, compileLock, todo, clock, history>>

\* Mutant: a failure is remembered for the file, whatever its mtime.
FailedEver(f, t) == \E i \in 1..Len(failed) : failed[i].src = f

IsKnownFailure(f, t) == \E i \in 1..Len(failed) : failed[i] = [src |-> f, mtime |-> t]

ScanKnown ==
    /\ At(Main, "known")
    /\ Goto(Main, IF IsKnownFailure(job[Main].src, job[Main].mtime) THEN "dir" ELSE "check")
    /\ UNCHANGED <<disk, plugins, failed, compileLock, todo, clock, history>>

ScanEnd ==
    /\ At(Main, "dir")
    /\ todo = {}
    /\ Goto(Main, "idle")
    /\ UNCHANGED <<disk, plugins, failed, compileLock, todo, clock, history>>

-----------------------------------------------------------------------------
(* plugin_compile, the same code in both kinds of process.  The source is   *)
(* read twice: by the check child and by the daemon's own build.            *)

Source(p) == IF job[p].text = NoText THEN disk[job[p].src].text ELSE job[p].text

Reject(p, t) ==
    /\ compileLock' = "free"
    /\ Goto(p, "record")
    /\ rejected' = rejected \cup {<<job[p].src, t>>}

\* compile_check, with compile_lock taken first.  It can fail for a text
\* that builds: no pipe, no child, a compiler that hangs; and so can the
\* build that follows it, without memory.
CheckPasses(p) ==
    /\ At(p, "check")
    /\ compileLock = "free"
    /\ Builds(Source(p))
    /\ compileLock' = p
    /\ Goto(p, "build")
    /\ UNCHANGED <<disk, plugins, failed, todo, clock, history>>

CheckFails(p) ==
    /\ At(p, "check")
    /\ compileLock = "free"
    /\ ~Builds(Source(p)) \/ "check" \in Faults
    /\ Reject(p, Source(p))
    /\ UNCHANGED <<disk, plugins, failed, todo, clock, stamps, texts, removes>>

Build(p) ==
    /\ At(p, "build")
    /\ \/ /\ Builds(Source(p))
          /\ job' = [job EXCEPT ![p].pc = "install", ![p].built = Source(p)]
          /\ UNCHANGED <<compileLock, rejected>>
       \/ /\ ~Builds(Source(p)) \/ "check" \in Faults
          /\ Reject(p, Source(p))
    /\ UNCHANGED <<disk, plugins, failed, todo, clock, stamps, texts, removes>>

\* Mutant: a second file may take over a name.
NoClash(f, n) == FALSE

\* The stored names are compared with the whole declared one.
Clash(f, n) == \E e \in plugins : e.src # f /\ e.name = n

Refused(f, n) ==
    \/ Clash(f, n)
    \/ /\ \A e \in plugins : e.src # f
       /\ Cardinality(plugins) >= MaxPlugins

Replace(set, e) == {o \in set : o.src # e.src} \cup {e}

\* Mutant: the file is asked for its mtime again once it is built.
RestatMtime(p) ==
    IF p = Main /\ Exists(job[p].src) THEN disk[job[p].src].mtime ELSE job[p].mtime

EntryMtime(p) == job[p].mtime

Install(p) ==
    /\ At(p, "install")
    /\ LET j == job[p]
           e == [src |-> j.src, name |-> Cut[j.built.name], text |-> j.built,
                 mtime |-> EntryMtime(p)]
       IN  IF Refused(e.src, j.built.name)
           THEN /\ Reject(p, e.text)
                /\ UNCHANGED plugins
           ELSE /\ plugins' = Replace(plugins, e)
                /\ compileLock' = "free"
                /\ Goto(p, IF p = Main THEN "dir" ELSE "save")
                /\ UNCHANGED rejected
    /\ UNCHANGED <<disk, failed, todo, clock, stamps, texts, removes>>

\* record_failure: a full list starts again from nothing.
Remember(list, x) == IF Len(list) >= MaxPlugins THEN <<x>> ELSE Append(list, x)

RecordFailure(p) ==
    /\ At(p, "record")
    /\ failed' = Remember(failed, [src |-> job[p].src, mtime |-> job[p].mtime])
    /\ Goto(p, IF p = Main THEN "dir" ELSE "idle")
    /\ UNCHANGED <<disk, plugins, compileLock, todo, clock, history>>

-----------------------------------------------------------------------------
(* create_plugin, called by a builder's session: time() is read before the  *)
(* compilation; atomic_write gives the file the current time, and utimes    *)
(* then the time the registry holds.                                        *)

NewText(n) == [id |-> texts + 1, name |-> n]

Create(b, f, n) ==
    /\ At(b, "idle")
    /\ texts < MaxTexts
    /\ texts' = texts + 1
    /\ job' = [job EXCEPT ![b] = [NoJob(f) EXCEPT !.pc = "check", !.text = NewText(n),
                                                  !.mtime = clock]]
    /\ stamps' = stamps \cup {<<f, clock, NewText(n)>>}
    /\ UNCHANGED <<disk, plugins, failed, compileLock, todo, clock, rejected, removes>>

Write(f, t) ==
    /\ disk' = [disk EXCEPT ![f] = [text |-> t, mtime |-> clock]]
    /\ stamps' = stamps \cup {<<f, clock, t>>}

Save(b) ==
    /\ At(b, "save")
    /\ \/ /\ Write(job[b].src, job[b].text)
          /\ Goto(b, "stamp")
       \/ /\ "save" \in Faults
          /\ Goto(b, "idle")
          /\ UNCHANGED <<disk, stamps>>
    /\ UNCHANGED <<plugins, failed, compileLock, todo, clock, rejected, texts, removes>>

\* utimes goes by path: it changes whatever file is there by now.
Utimes(f, t) ==
    IF Exists(f)
    THEN /\ disk' = [disk EXCEPT ![f].mtime = t]
         /\ stamps' = stamps \cup {<<f, t, disk[f].text>>}
    ELSE UNCHANGED <<disk, stamps>>

Stamp(b) ==
    /\ At(b, "stamp")
    /\ \/ Utimes(job[b].src, job[b].mtime)
       \/ "save" \in Faults /\ UNCHANGED <<disk, stamps>>
    /\ Goto(b, "idle")
    /\ UNCHANGED <<plugins, failed, compileLock, todo, clock, rejected, texts, removes>>

-----------------------------------------------------------------------------
(* What others do to the directory: write_file, an editor, rm.              *)

Edit(f, n) ==
    /\ texts < MaxTexts
    /\ texts' = texts + 1
    /\ Write(f, NewText(n))
    /\ UNCHANGED <<plugins, failed, compileLock, job, todo, clock, rejected, removes>>

Remove(f) ==
    /\ Exists(f)
    /\ removes < MaxRemoves
    /\ removes' = removes + 1
    /\ disk' = [disk EXCEPT ![f] = NoFile]
    /\ UNCHANGED <<plugins, failed, compileLock, job, todo, clock, stamps, rejected, texts>>

Tick ==
    /\ clock < MaxTime
    /\ clock' = clock + 1
    /\ UNCHANGED <<disk, plugins, failed, compileLock, job, todo, history>>

-----------------------------------------------------------------------------
Compile(p) ==
    CheckPasses(p) \/ CheckFails(p) \/ Build(p) \/ Install(p) \/ RecordFailure(p)

Scan ==
    \/ ScanBegin \/ ScanLoaded \/ ScanKnown \/ ScanEnd
    \/ \E f \in Files : ScanStat(f)
    \/ Compile(Main)

Next ==
    \/ Scan
    \/ \E b \in Builders : Compile(b) \/ Save(b) \/ Stamp(b)
    \/ \E b \in Builders, f \in Files, n \in Names \cup {NoName} : Create(b, f, n)
    \/ \E f \in Files, n \in Names \cup {NoName} : Edit(f, n)
    \/ \E f \in Files : Remove(f)
    \/ Tick

Spec == Init /\ [][Next]_vars

(* The main loop scans again and again, and a call of create_plugin goes on *)
(* until it returns; nothing is assumed of who gets compile_lock first.     *)
Fairness ==
    /\ WF_vars(Scan)
    /\ \A b \in Builders : WF_vars(Compile(b) \/ Save(b) \/ Stamp(b))

FairSpec == Spec /\ Fairness

-----------------------------------------------------------------------------
TypeOK ==
    /\ disk \in [Files -> File]
    /\ \A e \in plugins : e \in Entry
    /\ failed \in Seq([src : Files, mtime : 0..MaxTime]) /\ Len(failed) <= MaxPlugins
    /\ compileLock \in Procs \cup {"free"}
    /\ job \in [Procs -> Job]
    /\ todo \subseteq Files
    /\ clock \in 0..MaxTime

(* The name does not fit the registry: the schema lists it whole, but the   *)
(* entry is stored, and found, under the name it was cut to.                *)
IsCut(e) == e.name # e.text.name

(* No file has two entries, and no two files share a name: a tool call, and *)
(* the API request that lists the tools, never meets a name twice, however  *)
(* scans and builders interleave; and the registry fits its table.  The     *)
(* exception is a declared name longer than the registry stores: the test   *)
(* for a clash does not see it.                                             *)
NamesUnique ==
    /\ \A e, o \in plugins : e # o =>
         e.src # o.src /\ (e.name = o.name => IsCut(e) \/ IsCut(o))
    /\ Cardinality(plugins) <= MaxPlugins

(* Two texts of the file had the mtime it has now. *)
Blurred(f) ==
    \E s, u \in stamps : /\ s[1] = f /\ s[2] = disk[f].mtime
                        /\ u[1] = f /\ u[2] = disk[f].mtime
                        /\ s[3] # u[3]

(* The types; and what lets the scan skip a file: the same mtime in the     *)
(* registry and on disk means the same text, although the scan reads the    *)
(* file after its stat and builders set mtimes back - except for two texts  *)
(* within one second.                                                       *)
MtimeTellsText ==
    /\ TypeOK
    /\ \A e \in plugins :
         Exists(e.src) /\ e.mtime = disk[e.src].mtime /\ ~Blurred(e.src)
             => e.text = disk[e.src].text

(* A plugin is never lost to a failed compilation, a refused name or a full *)
(* table: its slot is given up only when its file is gone.                  *)
LeavesWithItsFile ==
    [][\A e \in plugins :
         (\A o \in plugins' : o.src # e.src) => ~Exists(e.src)]_vars

Loaded(f) == \E e \in plugins : e.src = f /\ e.text = disk[f].text

(* "Every 5 seconds it recompiles changed files and unloads deleted ones":  *)
(* once nobody writes any more, the registry comes to hold exactly the      *)
(* texts on disk, but for those whose compilation failed and those written  *)
(* in the same second as another.                                           *)
Settles ==
    <>[](/\ \A e \in plugins : Exists(e.src)
         /\ \A f \in Files : Exists(f) /\ ~Blurred(f) =>
              Loaded(f) \/ <<f, disk[f].text>> \in rejected)


=============================================================================
