------------------------------ MODULE Content -------------------------------
(***************************************************************************)
(* The files stagenethd generates and what an apply makes of them: the     *)
(* managed table, section keys, the rendering of a configuration, and the  *)
(* merge of rendered sections into a file (internal/engine, Plan).         *)
(*                                                                         *)
(* The text of a file is the set of its sections, a section a value with a *)
(* key.  What a configuration renders to is the constant Render.           *)
(***************************************************************************)
EXTENDS Naturals

CONSTANTS
  MergedFile,   \* managed files StageNeth shares with the user
  OwnedFile,    \* managed files it renders in full (fullOwner)
  Conf,         \* /etc/rsyslog.conf: a marked block inside a foreign file
  Rank,         \* the order of the managed table; Conf comes last
  Service,      \* the init script that loads a file
  Section,      \* sections (for Conf: the foreign text, the marked block)
  Key,          \* section keys
  KeyOf,        \* Section -> Key
  BlockKey,     \* the key of the block between the collector markers
  Cfg,          \* contents of /etc/config/stageneth, show_lock apart
  Avail,        \* sets of kernel interfaces found in sysfs
  Render,       \* [Cfg -> [Avail -> [File -> SUBSET Section]]]
  Legacy,       \* [Cfg -> SUBSET Key]: names legacyManaged recognises
  InitFiles,    \* the files of a freshly installed system
  Absent        \* no file, no manifest, no snapshot, no process

File == MergedFile \cup OwnedFile \cup {Conf}
Managed == MergedFile \cup OwnedFile
SharedFile == MergedFile \cup {Conf}
Text == SUBSET Section
FileState == {Absent} \cup Text
Manifest == [Managed -> SUBSET Key]

ASSUME FilesAssumption ==
  /\ MergedFile \cap OwnedFile = {} /\ Conf \notin Managed
  /\ Rank \in [File -> Nat]
  /\ \A f, g \in File : Rank[f] = Rank[g] => f = g
  /\ \A f \in Managed : Rank[f] < Rank[Conf]
  /\ DOMAIN Service = File
ASSUME ContentAssumption ==
  /\ KeyOf \in [Section -> Key]
  /\ BlockKey \in Key
  /\ Render \in [Cfg -> [Avail -> [File -> Text]]]
  /\ \A c \in Cfg, a \in Avail, s \in Section :
       s \in Render[c][a][Conf] => KeyOf[s] = BlockKey
  /\ Legacy \in [Cfg -> SUBSET Key]
  /\ InitFiles \in [File -> FileState]
ASSUME AbsentAssumption ==
  /\ \A t \in Text : t # Absent
  /\ \A m \in Manifest : m # Absent
  /\ Absent \notin [File -> FileState]

TextOf(t) == IF t = Absent THEN {} ELSE t
Names(t) == {KeyOf[s] : s \in t}

\* merge: existing sections that are neither stale nor about to be
\* generated, then the desired ones.
Merge(existing, desired, prev) ==
  {s \in existing : KeyOf[s] \notin prev \cup Names(desired)} \cup desired

\* The names an apply of configuration c records for the managed files.
DesiredNames(c, a) == [f \in Managed |-> Names(Render[c][a][f])]

\* (mutant) without a manifest everything is taken for generated
PrevManagedGreedy(f, c, m) ==
  IF f = Conf THEN {BlockKey} ELSE IF m = Absent THEN Key ELSE m[f]

\* The sections of f an earlier run generated, by manifest m; without one
\* the names of the old orchestrator.
PrevManaged(f, c, m) ==
  IF f = Conf THEN {BlockKey} ELSE IF m = Absent THEN Legacy[c] ELSE m[f]

\* (mutant) an owned file keeps what it had
NewTextBlends(f, c, a, m, old) ==
  IF f \in OwnedFile THEN old \cup Render[c][a][f]
  ELSE Merge(old, Render[c][a][f], PrevManaged(f, c, m))

\* What an apply of c makes of a file f that held old.
NewText(f, c, a, m, old) ==
  IF f \in OwnedFile THEN Render[c][a][f]
  ELSE Merge(old, Render[c][a][f], PrevManaged(f, c, m))

\* Keys the engine may claim in f, and the sections it may put there.
GeneratedKeys(f) ==
  {k \in Key : \/ f = Conf /\ k = BlockKey
               \/ \E c \in Cfg : k \in Legacy[c]
               \/ \E c \in Cfg, a \in Avail : k \in Names(Render[c][a][f])}
Generated(f) == UNION {Render[c][a][f] : c \in Cfg, a \in Avail}
=============================================================================
