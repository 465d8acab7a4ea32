---------------------------- MODULE PluginProofs ----------------------------
(***************************************************************************)
(* Proofs about the plugin registry: files and names that fit stay unique   *)
(* and so does the table, for any files, names and builders; a plugin leaves *)
(* the registry only when its file is gone; and the scan may rely on equal  *)
(* mtimes, unless a file changed twice in one second.                       *)
(***************************************************************************)
EXTENDS PluginRegistry, FiniteSetTheorems, TLAPS

(* Uniqueness alone says nothing about a cardinality: the table must also   *)
(* be known to be finite.                                                   *)
TableInv == IsFiniteSet(plugins) /\ NamesUnique

-----------------------------------------------------------------------------
(* Only the start of a scan and a successful Install change the registry.   *)
LEMMA TableSteps ==
    ASSUME [Next]_vars
    PROVE  \/ UNCHANGED plugins
           \/ plugins' = StillThere(plugins)
           \/ \E e : ~Refused(e.src, e.text.name) /\ plugins' = Replace(plugins, e)
<1>1. ASSUME NEW p, Compile(p)
      PROVE  \/ UNCHANGED plugins
             \/ \E e : ~Refused(e.src, e.text.name) /\ plugins' = Replace(plugins, e)
  <2>1. CASE Install(p)
    <3> DEFINE ins == [src |-> job[p].src, name |-> Cut[job[p].built.name],
                       text |-> job[p].built, mtime |-> EntryMtime(p)]
    <3>1. CASE Refused(ins.src, ins.text.name)
      BY <2>1, <3>1 DEF Install
    <3>2. CASE ~Refused(ins.src, ins.text.name)
      <4>1. plugins' = Replace(plugins, ins)
        BY <2>1, <3>2 DEF Install
      <4> HIDE DEF ins
      <4> QED BY <4>1, <3>2
    <3> QED BY <3>1, <3>2
  <2>2. CASE CheckPasses(p) \/ CheckFails(p) \/ Build(p) \/ RecordFailure(p)
    BY <2>2 DEF CheckPasses, CheckFails, Build, RecordFailure
  <2> QED BY <1>1, <2>1, <2>2 DEF Compile
<1>2. CASE Scan
  <2>1. CASE ScanBegin
    BY <2>1 DEF ScanBegin
  <2>2. CASE ScanLoaded \/ ScanKnown \/ ScanEnd \/ \E f \in Files : ScanStat(f)
    BY <2>2 DEF ScanLoaded, ScanKnown, ScanEnd, ScanStat
  <2>3. CASE Compile(Main)
    BY <2>3, <1>1
  <2> QED BY <1>2, <2>1, <2>2, <2>3 DEF Scan
<1>3. CASE \E b \in Builders : Compile(b) \/ Save(b) \/ Stamp(b)
  <2>1. PICK b \in Builders : Compile(b) \/ Save(b) \/ Stamp(b)
    BY <1>3
  <2>2. CASE Compile(b)
    BY <2>2, <1>1
  <2>3. CASE Save(b) \/ Stamp(b)
    BY <2>3 DEF Save, Stamp
  <2> QED BY <2>1, <2>2, <2>3
<1>4. CASE \/ \E b \in Builders, f \in Files, n \in Names \cup {NoName} : Create(b, f, n)
           \/ \E f \in Files, n \in Names \cup {NoName} : Edit(f, n)
           \/ \E f \in Files : Remove(f)
           \/ Tick
  BY <1>4 DEF Create, Edit, Remove, Tick
<1>5. CASE UNCHANGED vars
  BY <1>5 DEF vars
<1> QED BY <1>2, <1>3, <1>4, <1>5 DEF Next

(* A replacement neither loses the uniqueness nor overflows the table: it   *)
(* takes the slot of its file, or the clash and limit tests let it in.      *)
LEMMA ReplaceKeepsTable ==
    ASSUME TableInv, NEW e, ~Refused(e.src, e.text.name), plugins' = Replace(plugins, e)
    PROVE  TableInv'
<1> DEFINE rest == {o \in plugins : o.src # e.src}
<1> USE PluginAssumption
<1>1. /\ plugins' = rest \cup {e}
      /\ rest \subseteq plugins
      /\ e \notin rest
  BY DEF Replace
<1>2. IsFiniteSet(rest) /\ Cardinality(rest) <= Cardinality(plugins)
  BY <1>1, FS_Subset DEF TableInv
<1>3. /\ Cardinality(plugins) \in Nat
      /\ Cardinality(rest) \in Nat
  BY <1>2, FS_CardinalityType DEF TableInv
<1>4. IsFiniteSet(plugins') /\ Cardinality(plugins') = Cardinality(rest) + 1
  BY <1>1, <1>2, FS_AddElement
<1>5. Cardinality(rest) < MaxPlugins
  <2>1. CASE \A o \in plugins : o.src # e.src
    <3>1. ~(Cardinality(plugins) >= MaxPlugins)
      BY <2>1 DEF Refused
    <3> QED BY <3>1, <1>2, <1>3
  <2>2. CASE \E o \in plugins : o.src = e.src
    <3>1. PICK o \in plugins : o.src = e.src
      BY <2>2
    <3>2. rest \subseteq plugins \ {o}
      BY <3>1
    <3>3. /\ IsFiniteSet(plugins \ {o})
          /\ Cardinality(plugins \ {o}) = Cardinality(plugins) - 1
      BY <3>1, FS_RemoveElement DEF TableInv
    <3>4. Cardinality(rest) <= Cardinality(plugins \ {o})
      BY <3>2, <3>3, FS_Subset
    <3> QED BY <3>3, <3>4, <1>3 DEF TableInv, NamesUnique
  <2> QED BY <2>1, <2>2
<1>6. \A o, q \in plugins' : o # q =>
        o.src # q.src /\ (o.name = q.name => IsCut(o) \/ IsCut(q))
  <2>1. \A o, q \in rest : o # q =>
          o.src # q.src /\ (o.name = q.name => IsCut(o) \/ IsCut(q))
    BY <1>1 DEF TableInv, NamesUnique
  <2>2. \A o \in rest : o.src # e.src /\ (o.name = e.name => IsCut(e))
    BY <1>1 DEF Refused, Clash, IsCut
  <2> HIDE DEF rest
  <2> QED BY <2>1, <2>2, <1>1
<1> HIDE DEF rest
<1> QED BY <1>3, <1>4, <1>5, <1>6 DEF TableInv, NamesUnique

LEMMA TableStep ==
    ASSUME TableInv, [Next]_vars
    PROVE  TableInv'
<1>1. CASE UNCHANGED plugins
  BY <1>1 DEF TableInv, NamesUnique
<1>2. CASE plugins' = StillThere(plugins)
  <2>1. plugins' \subseteq plugins
    BY <1>2 DEF StillThere
  <2>2. IsFiniteSet(plugins') /\ Cardinality(plugins') <= Cardinality(plugins)
    BY <2>1, FS_Subset DEF TableInv
  <2>3. Cardinality(plugins) \in Nat /\ Cardinality(plugins') \in Nat
    BY <2>2, FS_CardinalityType DEF TableInv
  <2> QED BY <2>1, <2>2, <2>3, PluginAssumption DEF TableInv, NamesUnique
<1>3. CASE \E e : ~Refused(e.src, e.text.name) /\ plugins' = Replace(plugins, e)
  BY <1>3, ReplaceKeepsTable
<1> QED BY <1>1, <1>2, <1>3, TableSteps

(* However scans and builders interleave, no two plugins share a file, none *)
(* share a tool name that fits the registry, and the table of               *)
(* TC_MAX_PLUGINS entries is never exceeded.                                *)
THEOREM RegistryUnique == Spec => []NamesUnique
<1>1. Init => TableInv
  BY FS_EmptySet, PluginAssumption DEF Init, TableInv, NamesUnique
<1>2. TableInv /\ [Next]_vars => TableInv'
  BY TableStep
<1>3. TableInv => NamesUnique
  BY DEF TableInv
<1> QED BY <1>1, <1>2, <1>3, PTL DEF Spec

(* No compilation, whatever its outcome, takes a plugin out of the          *)
(* registry; a scan does, and only when the plugin's file is gone.          *)
THEOREM PluginsStay == Spec => LeavesWithItsFile
<1>1. ASSUME [Next]_vars
      PROVE  [\A e \in plugins :
                (\A o \in plugins' : o.src # e.src) => ~Exists(e.src)]_vars
  <2>1. CASE UNCHANGED plugins
    BY <2>1
  <2>2. CASE plugins' = StillThere(plugins)
    BY <2>2 DEF StillThere
  <2>3. CASE \E e : ~Refused(e.src, e.text.name) /\ plugins' = Replace(plugins, e)
    BY <2>3 DEF Replace
  <2> QED BY <1>1, <2>1, <2>2, <2>3, TableSteps
<1> QED BY <1>1, PTL DEF Spec, LeavesWithItsFile

-----------------------------------------------------------------------------
(* The mtime tells the text *)

(* A create_plugin that has yet to write its text to disk.                  *)
Pending(b) == job[b].pc \in {"check", "build", "install", "save"}

(* Texts are numbered as they are made, the mtime of each file was recorded *)
(* for its text, and the text that a call of create_plugin still has to     *)
(* write is on no disk and with no other call.                              *)
TextsTold ==
    /\ texts \in 0..MaxTexts
    /\ \A s \in stamps : s[3] \in Text /\ s[3].id <= texts
    /\ \A f \in Files :
         disk[f] # NoFile => <<f, disk[f].mtime, disk[f].text>> \in stamps
    /\ \A b \in Builders : Pending(b) =>
         /\ <<job[b].src, job[b].mtime, job[b].text>> \in stamps
         /\ At(b, "install") => job[b].built = job[b].text
         /\ \A c \in Builders : Pending(c) /\ c # b => job[c].text # job[b].text
         /\ \A f \in Files : disk[f].text # job[b].text

(* The text is no longer the file's, and nobody will write it again.        *)
Gone(f, t) == disk[f].text # t /\ \A b \in Builders : Pending(b) => job[b].text # t

(* Of the texts that had mtime m in file f, one is x or will not come back. *)
Origin(f, m, x) ==
    \E s \in stamps : s[1] = f /\ s[2] = m /\ (s[3] = x \/ Gone(f, s[3]))

(* What the registry holds, and what the scan is about to put into it, goes *)
(* back to a text that had the recorded mtime.                              *)
MtimesTold ==
    /\ \A e \in plugins : Origin(e.src, e.mtime, e.text)
    /\ LET j == job[Main] IN
       /\ j.pc \in {"loaded", "known", "check", "build"} =>
            j.text = NoText /\ Origin(j.src, j.mtime, disk[j.src].text)
       /\ j.pc = "install" => Origin(j.src, j.mtime, j.built)
    /\ \A p \in Procs : At(p, "install") => Builds(job[p].built)

TextInv == TypeOK /\ TextsTold /\ MtimesTold

(* Moving a process on changes nothing else of it.                          *)
LEMMA GotoMoves ==
    ASSUME job \in [Procs -> Job], NEW p \in Procs,
           NEW x \in {"idle", "dir", "loaded", "known", "check", "build", "install",
                      "record", "save", "stamp"},
           Goto(p, x)
    PROVE  /\ job' \in [Procs -> Job]
           /\ \A q \in Procs :
                /\ job'[q].pc = IF q = p THEN x ELSE job[q].pc
                /\ job'[q].src = job[q].src /\ job'[q].text = job[q].text
                /\ job'[q].built = job[q].built /\ job'[q].mtime = job[q].mtime
BY DEF Goto, Job

LEMMA NoJobTyped ==
    ASSUME NEW f \in Files
    PROVE  NoJob(f) \in Job
BY PluginAssumption DEF NoJob, Job, NoText

(* Every step keeps the types: texts stay in their bound because Create and *)
(* Edit test it, and what is installed builds, so it has a name.            *)
LEMMA TypeStep ==
    ASSUME TextInv, [Next]_vars
    PROVE  TypeOK'
<1> DEFINE Failure == [src : Files, mtime : 0..MaxTime]
<1>1. /\ MaxTexts \in Nat /\ MaxTime \in Nat /\ MaxPlugins \in Nat \ {0}
      /\ Main \notin Builders
  BY PluginAssumption DEF Main
<1>2. /\ disk \in [Files -> File] /\ (\A e \in plugins : e \in Entry)
      /\ failed \in Seq(Failure) /\ Len(failed) <= MaxPlugins
      /\ compileLock \in Procs \cup {"free"} /\ job \in [Procs -> Job]
      /\ todo \subseteq Files /\ clock \in 0..MaxTime /\ texts \in 0..MaxTexts
  BY DEF TextInv, TypeOK, TextsTold
<1>3. Main \in Procs /\ \A b \in Builders : b \in Procs
  BY DEF Procs
<1>4. CASE UNCHANGED vars
  BY <1>2, <1>4 DEF vars, TypeOK
<1>5. ASSUME NEW p \in Procs, NEW x \in {"idle", "dir", "loaded", "known", "check",
                "build", "install", "record", "save", "stamp"}, Goto(p, x)
      PROVE  job' \in [Procs -> Job]
  BY <1>2, <1>5, GotoMoves
<1>6. CASE ScanBegin
  <2>1. job' \in [Procs -> Job]
    BY <1>3, <1>5, <1>6 DEF ScanBegin
  <2>2. (\A e \in plugins' : e \in Entry) /\ todo' \subseteq Files
    BY <1>2, <1>6 DEF ScanBegin, StillThere
  <2> QED
    BY <1>2, <1>6, <2>1, <2>2 DEF ScanBegin, TypeOK
<1>7. ASSUME NEW f \in Files, ScanStat(f)
      PROVE  TypeOK'
  <2>1. job' \in [Procs -> Job]
    <3> DEFINE j == [NoJob(f) EXCEPT !.pc = "loaded", !.mtime = disk[f].mtime]
    <3>1. disk[f].mtime \in 0..MaxTime
      BY <1>2 DEF File
    <3>2. j \in Job
      BY <1>1, <3>1 DEF NoJob, NoText, Job
    <3>3. job' = job \/ job' = [job EXCEPT ![Main] = j]
      BY <1>7 DEF ScanStat
    <3> HIDE DEF j
    <3> QED
      BY <1>2, <3>2, <3>3
  <2> QED
    BY <1>2, <1>7, <2>1 DEF ScanStat, TypeOK
<1>8. CASE ScanLoaded \/ ScanKnown \/ ScanEnd
  <2>1. job' \in [Procs -> Job]
    BY <1>3, <1>5, <1>8 DEF ScanLoaded, ScanKnown, ScanEnd
  <2> QED
    BY <1>2, <1>8, <2>1 DEF ScanLoaded, ScanKnown, ScanEnd, TypeOK
<1>9. ASSUME NEW p \in Procs, CheckPasses(p)
       PROVE  TypeOK'
  <2>1. job' \in [Procs -> Job]
    BY <1>5, <1>9 DEF CheckPasses
  <2> QED
    BY <1>2, <1>9, <2>1 DEF CheckPasses, TypeOK
<1>10. ASSUME NEW p \in Procs, CheckFails(p)
       PROVE  TypeOK'
  <2>1. job' \in [Procs -> Job]
    BY <1>5, <1>10 DEF CheckFails, Reject
  <2> QED
    BY <1>2, <1>10, <2>1 DEF CheckFails, Reject, TypeOK
<1>11. ASSUME NEW p \in Procs, Build(p)
       PROVE  TypeOK'
  <2>1. job' \in [Procs -> Job]
    <3>1. CASE Goto(p, "record")
      BY <1>5, <3>1
    <3>2. CASE job' = [job EXCEPT ![p].pc = "install", ![p].built = Source(p)]
      <4>1. Source(p) \in Text \cup {NoText}
        BY <1>2 DEF Source, Job, File
      <4> QED
        BY <1>2, <3>2, <4>1, ZenonT(60) DEF Job
    <3> QED
      BY <1>11, <3>1, <3>2 DEF Build, Reject
  <2>2. compileLock' \in Procs \cup {"free"}
    BY <1>2, <1>11 DEF Build, Reject
  <2> QED
    BY <1>2, <1>11, <2>1, <2>2 DEF Build, TypeOK
<1>12. ASSUME NEW p \in Procs, Install(p)
       PROVE  TypeOK'
  <2> DEFINE e == [src |-> job[p].src, name |-> Cut[job[p].built.name],
                   text |-> job[p].built, mtime |-> EntryMtime(p)]
  <2>1. e \in Entry
    <3>1. /\ job[p].src \in Files /\ EntryMtime(p) \in 0..MaxTime
          /\ job[p].built \in Text \cup {NoText}
      BY <1>2 DEF Job, EntryMtime
    <3>2. job[p].built.name # NoName
      BY <1>12 DEF TextInv, MtimesTold, Builds, Install
    <3>3. job[p].built \in Text /\ job[p].built.name \in Names
      BY <3>1, <3>2 DEF Text, NoText
    <3> QED
      BY <3>1, <3>3, PluginAssumption DEF Entry
  <2>2. plugins' = plugins \/ plugins' = Replace(plugins, e)
    BY <1>12 DEF Install
  <2> HIDE DEF e
  <2>3. \A o \in plugins' : o \in Entry
    BY <1>2, <2>1, <2>2 DEF Replace
  <2>4. job' \in [Procs -> Job] /\ compileLock' = "free"
    <3>1. PICK x \in {"record", "dir", "save"} : Goto(p, x)
      BY <1>12 DEF Install, Reject
    <3> QED
      BY <1>5, <1>12, <3>1 DEF Install, Reject
  <2> QED
    BY <1>2, <1>12, <2>3, <2>4 DEF Install, TypeOK
<1>13. ASSUME NEW p \in Procs, RecordFailure(p)
       PROVE  TypeOK'
  <2>1. job' \in [Procs -> Job]
    BY <1>5, <1>13 DEF RecordFailure
  <2> DEFINE x == [src |-> job[p].src, mtime |-> job[p].mtime]
  <2>2. x \in Failure
    BY <1>2 DEF Job
  <2>3. failed' = IF Len(failed) >= MaxPlugins THEN <<x>> ELSE Append(failed, x)
    BY <1>13 DEF RecordFailure, Remember
  <2> HIDE DEF x, Failure
  <2>4. failed' \in Seq(Failure) /\ Len(failed') <= MaxPlugins
    BY <1>1, <1>2, <2>2, <2>3
  <2> QED
    BY <1>2, <1>13, <2>1, <2>4 DEF RecordFailure, TypeOK, Failure
<1>14. ASSUME NEW b \in Builders, Save(b) \/ Stamp(b)
       PROVE  TypeOK'
  <2>1. job' \in [Procs -> Job]
    BY <1>3, <1>5, <1>14 DEF Save, Stamp
  <2>2. disk' \in [Files -> File]
    <3>1. job[b].text \in Text \cup {NoText} /\ job[b].mtime \in 0..MaxTime
      BY <1>2, <1>3 DEF Job
    <3>2. /\ [text |-> job[b].text, mtime |-> clock] \in File
          /\ \A f \in Files : [disk[f] EXCEPT !.mtime = job[b].mtime] \in File
      BY <1>2, <3>1 DEF File
    <3>3. \/ disk' = disk
          \/ disk' = [disk EXCEPT ![job[b].src] = [text |-> job[b].text, mtime |-> clock]]
          \/ disk' = [disk EXCEPT ![job[b].src] =
                        [disk[job[b].src] EXCEPT !.mtime = job[b].mtime]]
      BY <1>2, <1>14 DEF Save, Stamp, Write, Utimes
    <3>4. job[b].src \in Files
      BY <1>2, <1>3 DEF Job
    <3> QED
      BY <1>2, <3>2, <3>3, <3>4
  <2> QED
    BY <1>2, <1>14, <2>1, <2>2 DEF Save, Stamp, TypeOK
<1>15. ASSUME texts < MaxTexts, NEW nm \in Names \cup {NoName}
       PROVE  NewText(nm) \in Text
  BY <1>1, <1>2, <1>15 DEF NewText, Text
<1>16. ASSUME NEW b \in Builders, NEW f \in Files, NEW nm \in Names \cup {NoName},
              Create(b, f, nm)
       PROVE  TypeOK'
  <2> DEFINE j == [NoJob(f) EXCEPT !.pc = "check", !.text = NewText(nm), !.mtime = clock]
  <2>1. NewText(nm) \in Text
    BY <1>15, <1>16 DEF Create
  <2>2. j \in Job
    BY <1>1, <1>2, <2>1 DEF NoJob, NoText, Job
  <2>3. job' = [job EXCEPT ![b] = j]
    BY <1>16 DEF Create
  <2> HIDE DEF j
  <2>4. job' \in [Procs -> Job]
    BY <1>2, <2>2, <2>3
  <2> QED
    BY <1>2, <1>16, <2>4 DEF Create, TypeOK
<1>17. ASSUME NEW f \in Files, NEW nm \in Names \cup {NoName}, Edit(f, nm)
       PROVE  TypeOK'
  <2>1. NewText(nm) \in Text
    BY <1>15, <1>17 DEF Edit
  <2>2. disk' \in [Files -> File]
    BY <1>2, <1>17, <2>1 DEF Edit, Write, File
  <2> QED
    BY <1>2, <1>17, <2>2 DEF Edit, TypeOK
<1>18. ASSUME NEW f \in Files, Remove(f)
       PROVE  TypeOK'
  <2>1. disk' \in [Files -> File]
    BY <1>1, <1>2, <1>18 DEF Remove, NoFile, File
  <2> QED
    BY <1>2, <1>18, <2>1 DEF Remove, TypeOK
<1>19. CASE Tick
  BY <1>1, <1>2, <1>19 DEF Tick, TypeOK
<1> QED
  BY <1>3, <1>4, <1>6, <1>7, <1>8, <1>9, <1>10, <1>11, <1>12, <1>13, <1>14, <1>16,
     <1>17, <1>18, <1>19 DEF Next, Scan, Compile

(* plugin_compile changes nothing of its caller but where it is and what it *)
(* has built: the text it reads at that moment.                             *)
LEMMA CompileMoves ==
    ASSUME job \in [Procs -> Job], NEW p \in Procs, Compile(p)
    PROVE  /\ job'[p].src = job[p].src /\ job'[p].mtime = job[p].mtime
           /\ job'[p].text = job[p].text
           /\ job[p].pc \in {"check", "build", "install", "record"}
           /\ job[p].pc = "record" => job'[p].pc \in {"dir", "idle"}
           /\ job'[p].pc \in {"build", "install", "record", "dir", "idle", "save"}
           /\ job'[p].pc = "install" => /\ Builds(Source(p)) /\ job'[p].built = Source(p)
                                       /\ job[p].pc = "build"
           /\ job'[p].pc = "build" => job[p].pc = "check"
           /\ \A q \in Procs : q # p => job'[q] = job[q]
<1>1. ASSUME NEW x \in {"build", "record", "dir", "idle", "save"}, Goto(p, x)
      PROVE  /\ job'[p].src = job[p].src /\ job'[p].mtime = job[p].mtime
             /\ job'[p].text = job[p].text /\ job'[p].pc = x
             /\ \A q \in Procs : q # p => job'[q] = job[q]
  BY <1>1 DEF Goto, Job
<1>2. CASE CheckPasses(p)
  BY <1>1, <1>2 DEF CheckPasses, At
<1>3. CASE CheckFails(p)
  BY <1>1, <1>3 DEF CheckFails, At, Reject
<1>4. CASE Build(p)
  <2>1. CASE Goto(p, "record")
    BY <1>1, <1>4, <2>1 DEF Build, At
  <2>2. CASE /\ job' = [job EXCEPT ![p].pc = "install", ![p].built = Source(p)]
             /\ Builds(Source(p))
    BY <1>4, <2>2 DEF Build, At, Job
  <2> QED
    BY <1>4, <2>1, <2>2 DEF Build, Reject
<1>5. CASE Install(p)
  <2>1. PICK x \in {"record", "dir", "save"} : Goto(p, x)
    BY <1>5 DEF Install, Reject
  <2> QED
    BY <1>1, <1>5, <2>1 DEF Install, At
<1>6. CASE RecordFailure(p)
  <2>1. PICK x \in {"dir", "idle"} : Goto(p, x)
    BY <1>6 DEF RecordFailure
  <2> QED
    BY <1>1, <1>6, <2>1 DEF RecordFailure, At
<1> QED
  BY <1>2, <1>3, <1>4, <1>5, <1>6 DEF Compile

(* A process that does not move stays where it is.                          *)
LEMMA OthersStay ==
    ASSUME job \in [Procs -> Job], [Next]_vars
    PROVE  /\ \A b \in Builders :
                \/ b = Main \/ job'[b] = job[b]
                \/ Compile(b) \/ Save(b) \/ Stamp(b)
                \/ \E f \in Files, nm \in Names \cup {NoName} : Create(b, f, nm)
           /\ Scan \/ Main \in Builders \/ job'[Main] = job[Main]
<1>1. Main \in Procs /\ \A b \in Builders : b \in Procs
  BY DEF Procs
<1>2. CASE Scan
  <2>1. CASE Compile(Main)
    BY <1>1, <1>2, <2>1, CompileMoves
  <2>2. CASE ScanBegin \/ ScanLoaded \/ ScanKnown \/ ScanEnd \/ \E f \in Files : ScanStat(f)
    BY <1>1, <1>2, <2>2 DEF ScanBegin, ScanLoaded, ScanKnown, ScanEnd, ScanStat, Goto
  <2> QED
    BY <1>2, <2>1, <2>2 DEF Scan
<1>3. ASSUME NEW b \in Builders, Compile(b)
      PROVE  \A q \in Procs : q # b => job'[q] = job[q]
  BY <1>1, <1>3, CompileMoves
<1>4. ASSUME NEW b \in Builders, Save(b) \/ Stamp(b)
      PROVE  \A q \in Procs : q # b => job'[q] = job[q]
  <2>1. PICK x \in {"stamp", "idle"} : Goto(b, x)
    BY <1>4 DEF Save, Stamp
  <2> QED
    BY <1>1, <2>1 DEF Goto
<1>5. ASSUME NEW b \in Builders, NEW f \in Files, NEW nm \in Names \cup {NoName},
             Create(b, f, nm)
      PROVE  \A q \in Procs : q # b => job'[q] = job[q]
  BY <1>1, <1>5 DEF Create
<1>6. CASE (\E f \in Files, nm \in Names \cup {NoName} : Edit(f, nm))
           \/ (\E f \in Files : Remove(f)) \/ Tick \/ UNCHANGED vars
  BY <1>6 DEF Edit, Remove, Tick, vars
<1> QED
  BY <1>1, <1>2, <1>3, <1>4, <1>5, <1>6 DEF Next

(* What a step can do to the texts: mtimes on record stay there; a call     *)
(* that has yet to write had that text before or has just made it; and the  *)
(* text of a file stays, goes, is a new one, or is the one that a call of   *)
(* create_plugin has now written.                                           *)
TextMoves ==
    /\ stamps \subseteq stamps' /\ texts <= texts'
    /\ \A b \in Builders : Pending(b)' =>
         \/ Pending(b) /\ job'[b].text = job[b].text
         \/ job'[b].text.id = texts + 1 /\ texts' = texts + 1 /\ disk' = disk
            /\ \A c \in Builders : c # b => job'[c] = job[c]
    /\ \A f \in Files :
         \/ disk'[f].text = disk[f].text
         \/ disk'[f].text = NoText
         \/ disk'[f].text.id = texts + 1 /\ texts' = texts + 1 /\ job' = job
         \/ \E b \in Builders : /\ Pending(b) /\ disk'[f].text = job[b].text
                                /\ ~Pending(b)'

LEMMA TextsMove ==
    ASSUME TextInv, [Next]_vars
    PROVE  TextMoves
<1>1. /\ MaxTexts \in Nat /\ MaxTime \in Nat /\ Main \notin Builders
  BY PluginAssumption DEF Main
<1>2. /\ disk \in [Files -> File] /\ job \in [Procs -> Job] /\ texts \in Nat
  BY <1>1 DEF TextInv, TypeOK, TextsTold
<1>3. Main \in Procs /\ \A b \in Builders : b \in Procs
  BY DEF Procs
<1>4. ASSUME UNCHANGED <<disk, stamps, texts>>, NEW p \in Procs,
             \A q \in Procs : q # p => job'[q] = job[q],
             p \in Builders /\ Pending(p)' => Pending(p) /\ job'[p].text = job[p].text
      PROVE  TextMoves
  <2>1. \A b \in Builders : Pending(b)' => Pending(b) /\ job'[b].text = job[b].text
    BY <1>3, <1>4 DEF Pending
  <2> QED
    BY <1>2, <1>4, <2>1 DEF TextMoves
<1>5. CASE UNCHANGED vars
  BY <1>2, <1>5 DEF vars, history, TextMoves, Pending
<1>6. CASE ScanBegin \/ ScanLoaded \/ ScanKnown \/ ScanEnd
  <2>1. UNCHANGED <<disk, stamps, texts>>
    BY <1>6 DEF ScanBegin, ScanLoaded, ScanKnown, ScanEnd, history
  <2>2. \A q \in Procs : q # Main => job'[q] = job[q]
    BY <1>2, <1>6 DEF ScanBegin, ScanLoaded, ScanKnown, ScanEnd, Goto
  <2> QED
    BY <1>1, <1>3, <1>4, <2>1, <2>2
<1>7. ASSUME NEW f \in Files, ScanStat(f)
      PROVE  TextMoves
  <2>1. UNCHANGED <<disk, stamps, texts>>
    BY <1>7 DEF ScanStat, history
  <2>2. \A q \in Procs : q # Main => job'[q] = job[q]
    BY <1>2, <1>7 DEF ScanStat
  <2> QED
    BY <1>1, <1>3, <1>4, <2>1, <2>2
<1>8. ASSUME NEW p \in Procs, Compile(p)
      PROVE  TextMoves
  <2>1. UNCHANGED <<disk, stamps, texts>>
    BY <1>8 DEF Compile, CheckPasses, CheckFails, Build, Install, RecordFailure, history
  <2>2. /\ \A q \in Procs : q # p => job'[q] = job[q]
        /\ job'[p].text = job[p].text /\ (Pending(p) \/ ~Pending(p)')
    BY <1>2, <1>8, CompileMoves DEF Pending
  <2> QED
    BY <1>4, <2>1, <2>2
<1>9. ASSUME NEW b \in Builders, Save(b)
      PROVE  TextMoves
  <2>1. (\A q \in Procs : q # b => job'[q] = job[q]) /\ Pending(b) /\ ~Pending(b)'
    <3>1. PICK x \in {"stamp", "idle"} : Goto(b, x)
      BY <1>9 DEF Save
    <3> QED
      BY <1>2, <1>3, <1>9, <3>1 DEF Save, Goto, Pending, At, Job
  <2>2. \A c \in Builders : Pending(c)' => Pending(c) /\ job'[c].text = job[c].text
    BY <1>3, <2>1 DEF Pending
  <2>3. stamps \subseteq stamps' /\ texts' = texts
    BY <1>9 DEF Save, Write
  <2>4. \A f \in Files : disk'[f].text = disk[f].text \/ disk'[f].text = job[b].text
    BY <1>2, <1>9 DEF Save, Write
  <2> QED
    BY <1>2, <2>1, <2>2, <2>3, <2>4 DEF TextMoves
<1>10. ASSUME NEW b \in Builders, Stamp(b)
       PROVE  TextMoves
  <2>1. (\A q \in Procs : q # b => job'[q] = job[q]) /\ ~Pending(b)'
    BY <1>2, <1>3, <1>10 DEF Stamp, Goto, Pending
  <2>2. \A c \in Builders : Pending(c)' => Pending(c) /\ job'[c].text = job[c].text
    BY <1>3, <2>1 DEF Pending
  <2>3. stamps \subseteq stamps' /\ texts' = texts
    BY <1>10 DEF Stamp, Utimes
  <2>4. \A f \in Files : disk'[f].text = disk[f].text
    BY <1>2, <1>10 DEF Stamp, Utimes, File
  <2> QED
    BY <1>2, <2>2, <2>3, <2>4 DEF TextMoves
<1>11. ASSUME NEW b \in Builders, NEW f \in Files, NEW nm \in Names \cup {NoName},
              Create(b, f, nm)
       PROVE  TextMoves
  <2>1. /\ \A q \in Procs : q # b => job'[q] = job[q]
        /\ job'[b].text = NewText(nm)
    BY <1>2, <1>3, <1>11 DEF Create, NoJob
  <2>2. stamps \subseteq stamps' /\ texts' = texts + 1 /\ disk' = disk
    BY <1>11 DEF Create
  <2>3. NewText(nm).id = texts + 1
    BY DEF NewText
  <2>4. \A c \in Builders : c # b => job'[c] = job[c]
    BY <1>3, <2>1
  <2>5. \A c \in Builders : Pending(c)' =>
          \/ Pending(c) /\ job'[c].text = job[c].text
          \/ c = b
    BY <2>4 DEF Pending
  <2> QED
    BY <1>2, <2>1, <2>2, <2>3, <2>4, <2>5 DEF TextMoves
<1>12. ASSUME NEW f \in Files, NEW nm \in Names \cup {NoName}, Edit(f, nm)
       PROVE  TextMoves
  <2>1. stamps \subseteq stamps' /\ texts' = texts + 1 /\ job' = job
    BY <1>12 DEF Edit, Write
  <2>2. \A g \in Files : disk'[g].text = disk[g].text \/ disk'[g].text.id = texts + 1
    BY <1>2, <1>12 DEF Edit, Write, NewText
  <2>3. \A c \in Builders : Pending(c)' => Pending(c) /\ job'[c].text = job[c].text
    BY <2>1 DEF Pending
  <2> QED
    BY <1>2, <2>1, <2>2, <2>3 DEF TextMoves
<1>13. CASE Tick \/ \E f \in Files : Remove(f)
  <2>1. UNCHANGED <<job, stamps, texts>>
    BY <1>13 DEF Remove, Tick, history
  <2>2. \A g \in Files : disk'[g].text = disk[g].text \/ disk'[g].text = NoText
    BY <1>2, <1>13 DEF Remove, Tick, NoFile
  <2>3. \A c \in Builders : Pending(c)' => Pending(c) /\ job'[c].text = job[c].text
    BY <2>1 DEF Pending
  <2> QED
    BY <1>2, <2>1, <2>2, <2>3 DEF TextMoves
<1> QED
  BY <1>3, <1>5, <1>6, <1>7, <1>8, <1>9, <1>10, <1>11, <1>12, <1>13 DEF Next, Scan

(* A text that is gone never comes back, and one that a step takes off the  *)
(* disk is gone.                                                            *)
LEMMA StampStays ==
    ASSUME TextInv, TextMoves, NEW s \in stamps, NEW f \in Files
    PROVE  /\ s \in stamps'
           /\ Gone(f, s[3]) => Gone(f, s[3])'
           /\ s[3] = disk[f].text => s[3] = disk'[f].text \/ Gone(f, s[3])'
<1>1. texts \in Nat /\ s[3] \in Text /\ s[3].id <= texts
  BY PluginAssumption DEF TextInv, TextsTold
<1>2. s[3].id \in Nat /\ s[3] # NoText
  BY <1>1, PluginAssumption DEF Text, NoText
<1>3. s \in stamps'
  BY DEF TextMoves
<1>4. ASSUME \A b \in Builders : Pending(b) => job[b].text # s[3]
      PROVE  \A b \in Builders : Pending(b)' => job'[b].text # s[3]
  BY <1>1, <1>2, <1>4 DEF TextMoves
<1>5. ASSUME Gone(f, s[3])
      PROVE  Gone(f, s[3])'
  <2>1. disk'[f].text # s[3]
    BY <1>1, <1>2, <1>5 DEF TextMoves, Gone
  <2>2. \A b \in Builders : Pending(b)' => job'[b].text # s[3]
    BY <1>4, <1>5 DEF Gone
  <2> QED
    BY <2>1, <2>2 DEF Gone
<1>6. ASSUME s[3] = disk[f].text, s[3] # disk'[f].text
      PROVE  Gone(f, s[3])'
  <2>1. \A b \in Builders : Pending(b)' => job'[b].text # s[3]
    BY <1>4, <1>6, ZenonT(60) DEF TextInv, TextsTold
  <2> QED
    BY <1>6, <2>1 DEF Gone
<1> QED
  BY <1>3, <1>5, <1>6

(* Every step keeps the texts told apart.                                   *)
LEMMA TextsStep ==
    ASSUME TextInv, [Next]_vars, TextMoves
    PROVE  TextsTold'
<1>1. /\ MaxTexts \in Nat /\ MaxTime \in Nat /\ Main \notin Builders
  BY PluginAssumption DEF Main
<1>2. /\ disk \in [Files -> File] /\ job \in [Procs -> Job] /\ texts \in 0..MaxTexts
      /\ texts \in Nat
  BY <1>1 DEF TextInv, TypeOK, TextsTold
<1>3. Main \in Procs /\ \A b \in Builders : b \in Procs
  BY DEF Procs
<1>4. \A s \in stamps : s[3] \in Text /\ s[3].id <= texts /\ s[3].id \in Nat
  BY <1>1 DEF TextInv, TextsTold, Text
<1>5. ASSUME NEW b \in Builders, Pending(b)
      PROVE  /\ <<job[b].src, job[b].mtime, job[b].text>> \in stamps
             /\ job[b].text \in Text /\ job[b].text.id <= texts /\ job[b].text.id \in Nat
             /\ job[b].text # NoText
  <2>1. <<job[b].src, job[b].mtime, job[b].text>> \in stamps
    BY <1>5 DEF TextInv, TextsTold
  <2>2. job[b].text \in Text /\ job[b].text.id <= texts /\ job[b].text.id \in Nat
    BY <1>4, <2>1
  <2>3. job[b].text # NoText
    BY <2>2 DEF Text, NoText
  <2> QED
    BY <2>1, <2>2, <2>3
<1>6. \A f \in Files : disk[f].text = NoText
        \/ (disk[f].text.id <= texts /\ disk[f].text.id \in Nat)
  <2> SUFFICES ASSUME NEW f \in Files, disk[f].text # NoText
               PROVE  disk[f].text.id <= texts /\ disk[f].text.id \in Nat
    OBVIOUS
  <2>1. disk[f] # NoFile
    BY DEF NoFile
  <2>2. <<f, disk[f].mtime, disk[f].text>> \in stamps
    BY <2>1 DEF TextInv, TextsTold
  <2> QED
    BY <1>4, <2>2
<1>7. texts' \in 0..MaxTexts
  <2>1. CASE Scan \/ (\E b \in Builders : Compile(b) \/ Save(b) \/ Stamp(b))
             \/ (\E f \in Files : Remove(f)) \/ Tick \/ UNCHANGED vars
    <3>1. texts' = texts
      BY <2>1
      DEF Scan, Compile, ScanBegin, ScanStat, ScanLoaded, ScanKnown, ScanEnd,
          CheckPasses, CheckFails, Build, Install, RecordFailure, Save, Stamp, Remove,
          Tick, history, vars
    <3> QED
      BY <1>2, <3>1
  <2>2. ASSUME NEW f \in Files, NEW nm \in Names \cup {NoName},
               Edit(f, nm) \/ \E b \in Builders : Create(b, f, nm)
        PROVE  texts' \in 0..MaxTexts
    <3>1. texts < MaxTexts /\ texts' = texts + 1
      BY <2>2 DEF Edit, Create
    <3> QED
      BY <1>1, <1>2, <3>1
  <2> QED
    BY <2>1, <2>2 DEF Next
<1>8. ASSUME NEW b \in Builders, NEW c \in Builders, c # b, Pending(b)', Pending(c)'
      PROVE  job'[c].text # job'[b].text
  <2>1. CASE /\ Pending(b) /\ job'[b].text = job[b].text
             /\ Pending(c) /\ job'[c].text = job[c].text
    BY <1>8, <2>1 DEF TextInv, TextsTold
  <2>2. CASE /\ job'[b].text.id = texts + 1 /\ job'[c] = job[c]
    <3>1. Pending(c) /\ job'[c].text = job[c].text
      BY <1>8, <2>2 DEF Pending
    <3>2. job[c].text.id <= texts
      BY <1>5, <3>1
    <3>3. job'[c].text.id # job'[b].text.id
      BY <1>2, <2>2, <3>1, <3>2
    <3> QED
      BY <3>3
  <2>3. CASE /\ job'[c].text.id = texts + 1 /\ job'[b] = job[b]
    <3>1. Pending(b) /\ job'[b].text = job[b].text
      BY <1>8, <2>3 DEF Pending
    <3>2. job[b].text.id <= texts
      BY <1>5, <3>1
    <3>3. job'[b].text.id # job'[c].text.id
      BY <1>2, <2>3, <3>1, <3>2
    <3> QED
      BY <3>3
  <2> QED
    BY <1>8, <2>1, <2>2, <2>3 DEF TextMoves
<1>9. ASSUME NEW b \in Builders, Pending(b)', NEW f \in Files
      PROVE  disk'[f].text # job'[b].text
  <2>1. CASE Pending(b) /\ job'[b].text = job[b].text
    <3>1. disk[f].text # job[b].text
      BY <2>1 DEF TextInv, TextsTold
    <3>2. ASSUME NEW c \in Builders, Pending(c), disk'[f].text = job[c].text, ~Pending(c)'
          PROVE  disk'[f].text # job[b].text
      <4>1. c # b
        BY <1>9, <3>2
      <4> QED
        BY <2>1, <3>2, <4>1 DEF TextInv, TextsTold
    <3>3. job[b].text # NoText /\ job[b].text.id <= texts /\ job[b].text.id \in Nat
      BY <1>5, <2>1
    <3>4. ASSUME disk'[f].text.id = texts + 1
          PROVE  disk'[f].text # job[b].text
      <4>1. disk'[f].text.id # job[b].text.id
        BY <1>2, <3>3, <3>4
      <4> QED
        BY <4>1
    <3>5. disk'[f].text # job[b].text
      BY <3>1, <3>2, <3>3, <3>4 DEF TextMoves
    <3> QED
      BY <2>1, <3>5
  <2>2. CASE job'[b].text.id = texts + 1 /\ disk' = disk
    BY <1>2, <1>6, <2>2 DEF NoText
  <2> QED
    BY <1>9, <2>1, <2>2 DEF TextMoves
<1>10. \A s \in stamps' : s[3] \in Text /\ s[3].id <= texts'
  <2>1. ASSUME stamps' = stamps
        PROVE  \A s \in stamps' : s[3] \in Text /\ s[3].id <= texts'
    BY <1>1, <1>2, <1>4, <1>7, <2>1 DEF TextMoves
  <2>2. ASSUME NEW x, stamps' = stamps \cup {x}, x[3] \in Text, x[3].id <= texts'
        PROVE  \A s \in stamps' : s[3] \in Text /\ s[3].id <= texts'
    BY <1>1, <1>2, <1>4, <1>7, <2>2 DEF TextMoves
  <2>3. ASSUME NEW b \in Builders, Save(b)
        PROVE  \A s \in stamps' : s[3] \in Text /\ s[3].id <= texts'
    <3>1. Pending(b) /\ texts' = texts
      BY <2>3 DEF Save, At, Pending
    <3>2. CASE stamps' = stamps \cup {<<job[b].src, clock, job[b].text>>}
      BY <1>5, <2>2, <3>1, <3>2
    <3> QED
      BY <2>1, <2>3, <3>2 DEF Save, Write
  <2>4. ASSUME NEW b \in Builders, Stamp(b)
        PROVE  \A s \in stamps' : s[3] \in Text /\ s[3].id <= texts'
    <3> DEFINE f == job[b].src
    <3>1. f \in Files
      BY <1>2, <1>3 DEF Job
    <3>2. CASE Exists(f) /\ stamps' = stamps \cup {<<f, job[b].mtime, disk[f].text>>}
      <4>1. <<f, disk[f].mtime, disk[f].text>> \in stamps
        BY <3>1, <3>2 DEF TextInv, TextsTold, Exists
      <4>2. disk[f].text \in Text /\ disk[f].text.id <= texts
        BY <1>4, <4>1
      <4>3. texts' = texts
        BY <2>4 DEF Stamp
      <4> QED
        BY <2>2, <3>2, <4>2, <4>3
    <3> QED
      BY <2>1, <2>4, <3>2 DEF Stamp, Utimes
  <2>5. ASSUME NEW f \in Files, NEW nm \in Names \cup {NoName}, texts < MaxTexts,
               texts' = texts + 1, stamps' = stamps \cup {<<f, clock, NewText(nm)>>}
        PROVE  \A s \in stamps' : s[3] \in Text /\ s[3].id <= texts'
    <3>1. NewText(nm) \in Text /\ NewText(nm).id <= texts'
      BY <1>1, <1>2, <2>5 DEF NewText, Text
    <3> QED
      BY <2>2, <2>5, <3>1
  <2>6. CASE Scan \/ (\E b \in Builders : Compile(b)) \/ (\E f \in Files : Remove(f))
             \/ Tick \/ UNCHANGED vars
    <3>1. stamps' = stamps
      BY <2>6
      DEF Scan, Compile, ScanBegin, ScanStat, ScanLoaded, ScanKnown, ScanEnd,
          CheckPasses, CheckFails, Build, Install, RecordFailure, Remove, Tick,
          history, vars
    <3> QED
      BY <2>1, <3>1
  <2> QED
    BY <2>3, <2>4, <2>5, <2>6 DEF Next, Create, Edit, Write
<1>11. ASSUME NEW f \in Files, disk'[f] # NoFile
       PROVE  <<f, disk'[f].mtime, disk'[f].text>> \in stamps'
  <2>1. CASE disk'[f] = disk[f]
    BY <1>11, <2>1 DEF TextInv, TextsTold, TextMoves
  <2>2. ASSUME NEW t, Write(f, t)
        PROVE  <<f, disk'[f].mtime, disk'[f].text>> \in stamps'
    BY <1>2, <2>2 DEF Write
  <2>3. ASSUME NEW g \in Files, NEW t, Write(g, t), g # f
        PROVE  disk'[f] = disk[f]
    BY <1>2, <2>3 DEF Write
  <2>4. ASSUME NEW b \in Builders, Stamp(b), disk'[f] # disk[f]
        PROVE  <<f, disk'[f].mtime, disk'[f].text>> \in stamps'
    <3>1. /\ f = job[b].src /\ disk' = [disk EXCEPT ![f].mtime = job[b].mtime]
          /\ stamps' = stamps \cup {<<f, job[b].mtime, disk[f].text>>}
      BY <1>2, <2>4 DEF Stamp, Utimes
    <3> QED
      BY <1>2, <3>1 DEF File
  <2>5. CASE Scan \/ (\E b \in Builders : Compile(b)) \/ Tick \/ UNCHANGED vars
             \/ \E b \in Builders, g \in Files, nm \in Names \cup {NoName} :
                  Create(b, g, nm)
    <3>1. disk' = disk
      BY <2>5
      DEF Scan, Compile, ScanBegin, ScanStat, ScanLoaded, ScanKnown, ScanEnd,
          CheckPasses, CheckFails, Build, Install, RecordFailure, Create, Tick,
          history, vars
    <3> QED
      BY <2>1, <3>1
  <2>6. ASSUME NEW g \in Files, Remove(g)
        PROVE  disk'[f] = disk[f]
    BY <1>2, <1>11, <2>6 DEF Remove
  <2>7. ASSUME NEW b \in Builders, Save(b)
        PROVE  <<f, disk'[f].mtime, disk'[f].text>> \in stamps'
    <3>1. job[b].src \in Files
      BY <1>2, <1>3 DEF Job
    <3> QED
      BY <2>1, <2>2, <2>3, <2>7, <3>1 DEF Save
  <2>8. ASSUME NEW g \in Files, NEW nm \in Names \cup {NoName}, Edit(g, nm)
        PROVE  <<f, disk'[f].mtime, disk'[f].text>> \in stamps'
    BY <2>1, <2>2, <2>3, <2>8 DEF Edit
  <2> QED
    BY <2>1, <2>4, <2>5, <2>6, <2>7, <2>8 DEF Next
<1>12. ASSUME NEW b \in Builders, Pending(b)'
       PROVE  /\ <<job'[b].src, job'[b].mtime, job'[b].text>> \in stamps'
              /\ At(b, "install")' => job'[b].built = job'[b].text
  <2>1. CASE job'[b] = job[b]
    BY <1>12, <2>1 DEF TextInv, TextsTold, TextMoves, Pending, At
  <2>2. CASE Compile(b)
    <3>1. /\ job'[b].src = job[b].src /\ job'[b].mtime = job[b].mtime
          /\ job'[b].text = job[b].text
      BY <1>2, <1>3, <2>2, CompileMoves
    <3>2. Pending(b)
      BY <1>2, <1>3, <1>12, <2>2, CompileMoves DEF Pending
    <3>3. At(b, "install")' => job'[b].built = job[b].text
      <4>1. At(b, "install")' => job'[b].built = Source(b)
        BY <1>2, <1>3, <2>2, CompileMoves DEF At
      <4>2. Source(b) = job[b].text
        BY <1>5, <3>2 DEF Source
      <4> QED
        BY <4>1, <4>2
    <3> QED
      BY <1>5, <3>1, <3>2, <3>3 DEF TextMoves
  <2>3. ASSUME NEW f \in Files, NEW nm \in Names \cup {NoName}, Create(b, f, nm)
        PROVE  /\ <<job'[b].src, job'[b].mtime, job'[b].text>> \in stamps'
               /\ At(b, "install")' => job'[b].built = job'[b].text
    <3>1. /\ job'[b].pc = "check" /\ job'[b].src = f /\ job'[b].mtime = clock
          /\ job'[b].text = NewText(nm)
      BY <1>2, <1>3, <2>3 DEF Create, NoJob
    <3> QED
      BY <2>3, <3>1 DEF Create, At
  <2>4. CASE Save(b) \/ Stamp(b)
    <3>1. PICK x \in {"stamp", "idle"} : Goto(b, x)
      BY <2>4 DEF Save, Stamp
    <3> QED
      BY <1>2, <1>3, <1>12, <3>1, GotoMoves DEF Pending
  <2> QED
    BY <1>1, <1>2, <1>3, <2>1, <2>2, <2>3, <2>4, OthersStay
<1> QED
  BY <1>7, <1>8, <1>9, <1>10, <1>11, <1>12 DEF TextsTold

(* Every step keeps the registry's mtimes true to a text.                   *)
LEMMA MtimesStep ==
    ASSUME TextInv, [Next]_vars, TextMoves
    PROVE  MtimesTold'
<1>1. Main \notin Builders /\ Main \in Procs /\ \A b \in Builders : b \in Procs
  BY PluginAssumption DEF Main, Procs
<1>2. /\ disk \in [Files -> File] /\ job \in [Procs -> Job]
      /\ \A e \in plugins : e \in Entry
  BY DEF TextInv, TypeOK
<1>3. \A p \in Procs : job[p].src \in Files
  BY <1>2 DEF Job
<1>4. ASSUME NEW p \in Procs, At(p, "install")'
      PROVE  Builds(job'[p].built)
  <2>1. CASE job'[p] = job[p]
    BY <1>4, <2>1 DEF TextInv, MtimesTold, At
  <2>2. CASE Compile(p)
    BY <1>2, <1>4, <2>2, CompileMoves DEF At
  <2>3. CASE ScanBegin \/ ScanLoaded \/ ScanKnown \/ ScanEnd \/ \E f \in Files : ScanStat(f)
    <3>1. CASE p = Main
      <4>1. job'[p].pc \in {"dir", "loaded", "known", "check", "idle"} \/ job'[p] = job[p]
        BY <1>1, <1>2, <2>3, <3>1, ZenonT(60)
        DEF ScanBegin, ScanLoaded, ScanKnown, ScanEnd, ScanStat, Goto, NoJob, Job
      <4> QED
        BY <1>4, <2>1, <4>1 DEF At
    <3>2. CASE p # Main
      <4>1. job'[p] = job[p]
        BY <1>1, <1>2, <2>3, <3>2
        DEF ScanBegin, ScanLoaded, ScanKnown, ScanEnd, ScanStat, Goto
      <4> QED
        BY <2>1, <4>1
    <3> QED
      BY <3>1, <3>2
  <2>4. CASE p \in Builders /\ (Save(p) \/ Stamp(p))
    <3>1. PICK x \in {"stamp", "idle"} : Goto(p, x)
      BY <2>4 DEF Save, Stamp
    <3> QED
      BY <1>2, <1>4, <3>1, GotoMoves DEF At
  <2>5. CASE p \in Builders
             /\ \E f \in Files, nm \in Names \cup {NoName} : Create(p, f, nm)
    BY <1>2, <1>4, <2>5 DEF Create, At, NoJob
  <2> QED
    BY <1>1, <1>2, <2>1, <2>2, <2>3, <2>4, <2>5, OthersStay DEF Procs, Scan
<1>5. ASSUME NEW e \in plugins
      PROVE  Origin(e.src, e.mtime, e.text)'
  <2>1. PICK s \in stamps : s[1] = e.src /\ s[2] = e.mtime
                            /\ (s[3] = e.text \/ Gone(e.src, s[3]))
    BY DEF TextInv, MtimesTold, Origin
  <2>2. e.src \in Files
    BY <1>2 DEF Entry
  <2> QED
    BY <2>1, <2>2, StampStays DEF Origin
<1>6. ASSUME NEW p \in Procs, At(p, "install")
      PROVE  \E s \in stamps : /\ s[1] = job[p].src /\ s[2] = job[p].mtime
                               /\ s[3] = job[p].built \/ Gone(job[p].src, s[3])
  <2>1. CASE p = Main
    BY <1>6, <2>1 DEF TextInv, MtimesTold, Origin, At
  <2>2. CASE p \in Builders
    <3> DEFINE s == <<job[p].src, job[p].mtime, job[p].text>>
    <3>1. s \in stamps /\ job[p].built = job[p].text
      BY <1>6, <2>2 DEF TextInv, TextsTold, At, Pending
    <3>2. s[1] = job[p].src /\ s[2] = job[p].mtime /\ s[3] = job[p].text
      OBVIOUS
    <3> HIDE DEF s
    <3> QED
      BY <3>1, <3>2
  <2> QED
    BY <2>1, <2>2 DEF Procs
<1>7. ASSUME NEW p \in Procs, Install(p), NEW e \in plugins'
      PROVE  Origin(e.src, e.mtime, e.text)'
  <2> DEFINE new == [src |-> job[p].src, name |-> Cut[job[p].built.name],
                     text |-> job[p].built, mtime |-> EntryMtime(p)]
  <2>1. e \in plugins \/ e = new
    BY <1>7 DEF Install, Replace
  <2>2. CASE e = new
    <3>1. e.src = job[p].src /\ e.mtime = job[p].mtime /\ e.text = job[p].built
      BY <2>2 DEF EntryMtime
    <3> HIDE DEF new
    <3>2. PICK s \in stamps : /\ s[1] = job[p].src /\ s[2] = job[p].mtime
                              /\ s[3] = job[p].built \/ Gone(job[p].src, s[3])
      BY <1>6, <1>7 DEF Install
    <3>3. s[1] = e.src /\ s[2] = e.mtime /\ (s[3] = e.text \/ Gone(e.src, s[3]))
      BY <3>1, <3>2
    <3>4. e.src \in Files
      BY <1>3, <3>1
    <3> QED
      BY <3>3, <3>4, StampStays DEF Origin
  <2> QED
    BY <1>5, <2>1, <2>2
<1>8. \A e \in plugins' : Origin(e.src, e.mtime, e.text)'
  <2>1. CASE \E p \in Procs : Install(p)
    BY <1>7, <2>1
  <2>2. CASE plugins' \subseteq plugins
    BY <1>5, <2>2
  <2> QED
    BY <1>1, <2>1, <2>2
    DEF Next, Scan, Compile, ScanBegin, ScanStat, ScanLoaded, ScanKnown, ScanEnd,
        StillThere, CheckPasses, CheckFails, Build, RecordFailure, Save, Stamp, Create,
        Edit, Remove, Tick, vars
<1>9. ASSUME job'[Main].src = job[Main].src, job'[Main].mtime = job[Main].mtime,
             job'[Main].text = job[Main].text,
             job[Main].pc \in {"loaded", "known", "check", "build"}
      PROVE  /\ job'[Main].text = NoText
             /\ \E s \in stamps' :
                  /\ s[1] = job'[Main].src /\ s[2] = job'[Main].mtime
                  /\ s[3] = disk'[job'[Main].src].text \/ Gone(job[Main].src, s[3])'
  <2>1. PICK s \in stamps :
          /\ s[1] = job[Main].src /\ s[2] = job[Main].mtime
          /\ s[3] = disk[job[Main].src].text \/ Gone(job[Main].src, s[3])
    BY <1>9 DEF TextInv, MtimesTold, Origin
  <2>2. PICK f \in Files : f = job[Main].src
    BY <1>1, <1>3
  <2>3. s \in stamps' /\ (s[3] = disk'[f].text \/ Gone(f, s[3])')
    BY <2>1, <2>2, StampStays
  <2>4. Gone(f, s[3])' => Gone(job[Main].src, s[3])'
    BY <1>9, <2>2 DEF Gone
  <2> QED
    BY <1>9, <2>1, <2>2, <2>3, <2>4 DEF TextInv, MtimesTold
<1>10. ASSUME NEW f \in Files, ScanStat(f), job' # job
       PROVE  /\ job'[Main].pc = "loaded" /\ job'[Main].text = NoText
              /\ \E s \in stamps' :
                   /\ s[1] = job'[Main].src /\ s[2] = job'[Main].mtime
                   /\ s[3] = disk'[job'[Main].src].text \/ Gone(job[Main].src, s[3])'
  <2> DEFINE s == <<f, disk[f].mtime, disk[f].text>>
  <2>1. /\ job'[Main].pc = "loaded" /\ job'[Main].text = NoText
        /\ job'[Main].src = f /\ job'[Main].mtime = disk[f].mtime
    BY <1>1, <1>2, <1>10 DEF ScanStat, NoJob
  <2>2. s \in stamps' /\ disk' = disk
    BY <1>10 DEF ScanStat, history, TextInv, TextsTold, Exists
  <2>3. s[1] = f /\ s[2] = disk[f].mtime /\ s[3] = disk[f].text
    OBVIOUS
  <2> HIDE DEF s
  <2> QED
    BY <2>1, <2>2, <2>3
<1>11. ASSUME job'[Main].pc \in {"loaded", "known", "check", "build"}
       PROVE  /\ job'[Main].text = NoText
              /\ Origin(job[Main].src, job[Main].mtime, disk[job[Main].src].text)'
  <2>1. CASE job'[Main] = job[Main]
    BY <1>9, <1>11, <2>1 DEF Origin
  <2>2. CASE ScanLoaded \/ ScanKnown \/ ScanEnd \/ ScanBegin
    <3>1. PICK x \in {"dir", "known", "check", "idle"} : Goto(Main, x)
      BY <2>2 DEF ScanLoaded, ScanKnown, ScanEnd, ScanBegin
    <3>2. job[Main].pc \in {"loaded", "known"} \/ x \in {"dir", "idle"}
      BY <1>1, <1>2, <2>2, <3>1
      DEF ScanLoaded, ScanKnown, ScanEnd, ScanBegin, At, Goto, Job
    <3> QED
      BY <1>1, <1>2, <1>9, <1>11, <3>1, <3>2, GotoMoves DEF Origin
  <2>3. ASSUME NEW f \in Files, ScanStat(f), job' # job
        PROVE  /\ job'[Main].text = NoText
               /\ Origin(job[Main].src, job[Main].mtime, disk[job[Main].src].text)'
    BY <1>10, <2>3 DEF Origin
  <2>4. CASE Compile(Main)
    <3>1. /\ job'[Main].src = job[Main].src /\ job'[Main].mtime = job[Main].mtime
          /\ job'[Main].text = job[Main].text /\ job[Main].pc = "check"
      BY <1>1, <1>2, <1>11, <2>4, CompileMoves
    <3> QED
      BY <1>9, <3>1 DEF Origin
  <2> QED
    BY <1>1, <1>2, <2>1, <2>2, <2>3, <2>4, OthersStay DEF Scan
<1>12. ASSUME job'[Main].pc = "install"
       PROVE  Origin(job[Main].src, job[Main].mtime, job[Main].built)'
  <2>1. CASE job'[Main] = job[Main]
    <3>1. PICK s \in stamps :
            /\ s[1] = job[Main].src /\ s[2] = job[Main].mtime
            /\ s[3] = job[Main].built \/ Gone(job[Main].src, s[3])
      BY <1>1, <1>6, <1>12, <2>1 DEF At
    <3>2. PICK f \in Files : f = job[Main].src
      BY <1>1, <1>3
    <3>3. s \in stamps' /\ (s[3] = job[Main].built \/ Gone(f, s[3])')
      BY <3>1, <3>2, StampStays
    <3>4. Gone(f, s[3])' => Gone(job[Main].src, s[3])'
      BY <2>1, <3>2 DEF Gone
    <3> QED
      BY <2>1, <3>1, <3>2, <3>3, <3>4 DEF Origin
  <2>2. CASE Compile(Main)
    <3>1. /\ job'[Main].src = job[Main].src /\ job'[Main].mtime = job[Main].mtime
          /\ job'[Main].text = job[Main].text /\ job[Main].pc = "build"
          /\ job'[Main].built = Source(Main)
      BY <1>1, <1>2, <1>12, <2>2, CompileMoves
    <3>2. Source(Main) = disk[job[Main].src].text /\ disk' = disk
      BY <2>2, <3>1
      DEF Source, TextInv, MtimesTold, Compile, CheckPasses, CheckFails, Build, Install,
          RecordFailure
    <3> QED
      BY <1>9, <3>1, <3>2 DEF Origin
  <2>3. CASE ScanLoaded \/ ScanKnown \/ ScanEnd \/ ScanBegin
    <3>1. PICK x \in {"dir", "known", "check", "idle"} : Goto(Main, x)
      BY <2>3 DEF ScanLoaded, ScanKnown, ScanEnd, ScanBegin
    <3> QED
      BY <1>1, <1>2, <1>12, <3>1, GotoMoves
  <2>4. ASSUME NEW f \in Files, ScanStat(f), job' # job
        PROVE  FALSE
    BY <1>10, <1>12, <2>4
  <2> QED
    BY <1>1, <1>2, <2>1, <2>2, <2>3, <2>4, OthersStay DEF Scan
<1> QED
  BY <1>4, <1>8, <1>11, <1>12 DEF MtimesTold

(* Texts, mtimes and the registry stay consistent, however the scan, the    *)
(* builders, the editors and rm interleave.                                 *)
THEOREM TextInvariant == Spec => []TextInv
<1>1. Init => TextInv
  <2> SUFFICES ASSUME Init
               PROVE  TextInv
    OBVIOUS
  <2>1. (CHOOSE f \in Files : TRUE) \in Files
    BY PluginAssumption
  <2>2. job \in [Procs -> Job]
    <3>1. PICK f \in Files : f = CHOOSE g \in Files : TRUE
      BY <2>1
    <3>2. job = [p \in Procs |-> NoJob(f)]
      BY <3>1 DEF Init
    <3> QED
      BY <3>2, NoJobTyped
  <2>3. \A p \in Procs : job[p].pc = "idle"
    BY DEF Init, NoJob
  <2>4. \A f \in Files : disk[f] = NoFile
    BY DEF Init
  <2>5. disk \in [Files -> File]
    BY PluginAssumption DEF Init, File, NoFile
  <2>6. TypeOK
    BY <2>2, <2>5, PluginAssumption DEF Init, TypeOK
  <2>7. TextsTold
    <3>1. \A b \in Builders : ~Pending(b)
      BY <2>3 DEF Pending, Procs
    <3>2. texts \in 0..MaxTexts /\ stamps = {}
      BY PluginAssumption DEF Init
    <3> QED
      BY <2>4, <3>1, <3>2 DEF TextsTold
  <2>8. MtimesTold
    BY <2>3 DEF Init, MtimesTold, At, Procs
  <2> QED
    BY <2>6, <2>7, <2>8 DEF TextInv
<1>2. TextInv /\ [Next]_vars => TextInv'
  <2> SUFFICES ASSUME TextInv, [Next]_vars
               PROVE  TextInv'
    OBVIOUS
  <2>1. TextMoves
    BY TextsMove
  <2> QED
    BY <2>1, TypeStep, TextsStep, MtimesStep DEF TextInv
<1> QED
  BY <1>1, <1>2, PTL DEF Spec

(* What lets plugin_scan skip a file by its mtime alone: when the registry  *)
(* and the file agree on it, they agree on the text, but for two texts that *)
(* were written within one second.  The compilation reads the file after    *)
(* its stat, and create_plugin sets mtimes back by path.                    *)
THEOREM SameMtimeSameText == Spec => []MtimeTellsText
<1>1. ASSUME TextInv, NEW e \in plugins, Exists(e.src), e.mtime = disk[e.src].mtime,
             ~Blurred(e.src)
      PROVE  e.text = disk[e.src].text
  <2>1. e.src \in Files
    BY <1>1 DEF TextInv, TypeOK, Entry
  <2>2. PICK s \in stamps : s[1] = e.src /\ s[2] = e.mtime
                            /\ (s[3] = e.text \/ Gone(e.src, s[3]))
    BY <1>1 DEF TextInv, MtimesTold, Origin
  <2> DEFINE u == <<e.src, disk[e.src].mtime, disk[e.src].text>>
  <2>3. u \in stamps
    BY <1>1, <2>1 DEF TextInv, TextsTold, Exists
  <2>4. u[1] = e.src /\ u[2] = disk[e.src].mtime /\ u[3] = disk[e.src].text
    OBVIOUS
  <2> HIDE DEF u
  <2>5. s[3] = u[3]
    BY <1>1, <2>2, <2>3, <2>4 DEF Blurred
  <2>6. ~Gone(e.src, s[3])
    BY <2>4, <2>5 DEF Gone
  <2> QED
    BY <2>2, <2>4, <2>5, <2>6
<1>2. TextInv => MtimeTellsText
  BY <1>1 DEF TextInv, MtimeTellsText
<1> QED
  BY <1>2, TextInvariant, PTL

=============================================================================
