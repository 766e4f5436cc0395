----------------------- MODULE Materialization_proofs -----------------------
(***************************************************************************)
(* Theorems about Materialization, for all plans, workspaces and spellings *)
(* of paths.                                                               *)
(***************************************************************************)
EXTENDS Materialization, CollectionTheorems, SequenceTheorems

(***************************************************************************)
(* The inductive invariant.                                                *)
(***************************************************************************)
Reports == [type : {"file.written", "file.patched", "file.patch_skipped"}, path : Paths]

MatTypeOK ==
  /\ files \in [Paths -> Entry] /\ start \in [Paths -> Entry]
  /\ plan \in Plans
  /\ step \in {"parse", "directories", "writes", "patches", "applied", "failed", "escaped"}
  /\ next \in Nat
  /\ DOMAIN report \subseteq Paths
  /\ events \in Seq(Reports)

Noted(s)   == {s[i].path : i \in {i \in DOMAIN s : s[i].type # "file.patch_skipped"}}

DiffInvariant ==
  /\ MatTypeOK
  /\ step # "escaped" => Unreported = {}
  /\ \A p, q \in Unreported : p = q
  /\ DOMAIN report = Noted(events)
  /\ step \in {"parse", "failed"} => DOMAIN report = {}

(***************************************************************************)
(* Texts and windows.                                                      *)
(***************************************************************************)
\* A part of a text is a text.
LEMMA SpanIsText ==
  ASSUME NEW t \in Texts, NEW S, S \subseteq DOMAIN t
  PROVE  Span(t, S) \in Texts
PROOF
<1>1. Len(t) \in Nat /\ DOMAIN t = 1 .. Len(t) /\ \A k \in 1 .. Len(t) : t[k] \in Words \cup {LF}
  BY DEF Texts
<1>2. CASE S = {}
  <2>1. << >> \in Seq(Words \cup {LF})
    OBVIOUS
  <2> QED
    BY <1>2, <2>1 DEF Span, Texts
<1>3. CASE S # {}
  <2>1. IsFiniteSet(S) /\ S \subseteq Nat /\ S \subseteq Int
    <3>1. IsFiniteSet(1 .. Len(t))
      BY <1>1, FS_Interval
    <3>2. S \in SUBSET (1 .. Len(t))
      BY <1>1
    <3> QED
      BY <1>1, <3>1, <3>2, FS_Subset
  <2>2. Min(S) \in S
    BY <1>3, <2>1, LeastOfNaturals
  <2>3. Max(S) \in S
    BY <1>3, <2>1, LargestOfNumbers
  <2>4. Min(S) \in 1 .. Len(t) /\ Max(S) \in 1 .. Len(t)
    BY <1>1, <2>2, <2>3
  <2>5. Min(S) \in Int /\ Max(S) \in Int /\ \A k \in Min(S) .. Max(S) : t[k] \in Words \cup {LF}
    BY <1>1, <2>4
  <2>6. SubSeq(t, Min(S), Max(S)) \in Seq(Words \cup {LF})
    BY <2>5, SubSeqProperties
  <2> QED
    BY <1>3, <2>6 DEF Span, Texts
<1> QED
  BY <1>2, <1>3

\* And so is every beginning of one.
LEMMA BeginningIsText ==
  ASSUME NEW t \in Texts, NEW l \in Int, l <= Len(t)
  PROVE  SubSeq(t, 1, l) \in Texts
PROOF
<1>1. Len(t) \in Nat /\ \A k \in 1 .. Len(t) : t[k] \in Words \cup {LF}
  BY DEF Texts
<1>2. 1 \in Int /\ \A k \in 1 .. l : t[k] \in Words \cup {LF}
  BY <1>1
<1>3. SubSeq(t, 1, l) \in Seq(Words \cup {LF})
  BY <1>2, SubSeqProperties
<1> QED
  BY <1>3 DEF Texts

LEMMA PrefixIsText ==
  ASSUME NEW t \in Texts, NEW torn \in Prefixes(t)
  PROVE  torn \in Texts
PROOF
<1>1. Len(t) \in Nat
  BY DEF Texts
<1>2. PICK l \in 0 .. Len(t) : torn = SubSeq(t, 1, l)
  BY DEF Prefixes
<1>3. l \in Int /\ l <= Len(t)
  BY <1>1
<1> QED
  BY <1>2, <1>3, BeginningIsText

LEMMA JoinedIsText ==
  ASSUME NEW t \in Texts, NEW u \in Texts
  PROVE  t \o u \in Texts
PROOF
BY ConcatProperties DEF Texts

\* So is a text with or without its final line feed.
LEMMA EndsAreText ==
  ASSUME NEW t \in Texts
  PROVE  Unended(t) \in Texts /\ Ended(t) \in Texts
PROOF
<1>1. Len(t) \in Nat
  BY DEF Texts
<1>2. SubSeq(t, 1, Len(t) - 1) \in Texts
  <2>1. Len(t) - 1 \in Int /\ Len(t) - 1 <= Len(t)
    BY <1>1
  <2> QED
    BY <2>1, BeginningIsText
<1>3. Append(t, LF) \in Texts
  <2>1. LF \in Words \cup {LF} /\ t \in Seq(Words \cup {LF})
    BY DEF Texts
  <2>2. Append(t, LF) \in Seq(Words \cup {LF})
    BY <2>1, AppendProperties
  <2> QED
    BY <2>2 DEF Texts
<1> QED
  BY <1>2, <1>3 DEF Unended, Ended

\* Replacing a window of a text by another text gives a text.
LEMMA ReplacedIsText ==
  ASSUME NEW text \in Texts, NEW n \in Nat, NEW i \in Starts(text, n), NEW after \in Texts
  PROVE  Replaced(text, i, n, after) \in Texts
PROOF
<1> DEFINE head == SubSeq(text, 1, i - 1)
           tail == SubSeq(text, i + n, Len(text))
<1>1. /\ Len(text) \in Nat /\ i \in Int /\ i >= 1 /\ i - 1 <= Len(text)
      /\ \A k \in 1 .. Len(text) : text[k] \in Words \cup {LF}
  BY DEF Starts, Texts
<1>2. head \in Texts
  BY <1>1, BeginningIsText
<1>3. tail \in Texts
  <2>1. /\ i + n \in Int /\ Len(text) \in Int
        /\ \A k \in i + n .. Len(text) : text[k] \in Words \cup {LF}
    BY <1>1
  <2>2. tail \in Seq(Words \cup {LF})
    BY <2>1, SubSeqProperties
  <2> QED
    BY <2>2 DEF Texts
<1> HIDE DEF head, tail
<1>4. (head \o after) \o tail \in Texts
  BY <1>2, <1>3, JoinedIsText
<1> QED
  BY <1>4 DEF Replaced, head, tail

\* Replacing lines of a text by those of another gives a text.
LEMMA FuzzyIsText ==
  ASSUME NEW text \in Texts, NEW after \in Texts, NEW k, NEW n
  PROVE  FuzzyReplaced(text, k, n, after) \in Texts
PROOF
<1> DEFINE head == LinesFrom(text, 1, k - 1)
           tail == LinesFrom(text, k + n, LineCount(text))
           lines == (head \o Ended(after)) \o Ended(tail)
<1>1. head \in Texts /\ tail \in Texts
  BY SpanIsText DEF LinesFrom
<1>2. Ended(after) \in Texts /\ Ended(tail) \in Texts
  <2> HIDE DEF tail
  <2> QED
    BY <1>1, EndsAreText
<1> HIDE DEF head, tail
<1>3. head \o Ended(after) \in Texts
  BY <1>1, <1>2, JoinedIsText
<1>4. lines \in Texts
  BY <1>2, <1>3, JoinedIsText
<1>5. FuzzyReplaced(text, k, n, after) =
        IF ~EndsWithLF(text) /\ ~EndsWithLF(after) THEN Unended(lines)
        ELSE IF lines = << >> THEN <<LF>> ELSE lines
  BY Zenon DEF FuzzyReplaced, head, tail
<1> HIDE DEF lines
<1>6. Unended(lines) \in Texts
  BY <1>4, EndsAreText
<1>7. <<LF>> \in Texts
  BY DEF Texts
<1> QED
  BY <1>4, <1>5, <1>6, <1>7

\* Whatever a patch makes of a text is a text.
LEMMA PatchedIsText ==
  ASSUME NEW p, NEW text \in Texts, NEW patch \in Patches
  PROVE  PatchedTexts(p, text, patch) \subseteq Texts
PROOF
<1> DEFINE n == Len(patch.before)
           m == LineCount(patch.before)
           found == Matches(text, patch.before)
           windows == FuzzyWindows(text, patch.before)
<1>1. Len(text) \in Nat /\ n \in Nat /\ patch.after \in Texts
  BY DEF Texts, Patches
<1>2. found \subseteq Starts(text, n)
  BY DEF Matches
<1>3. Starts(text, n) \subseteq Nat
  <2> HIDE DEF n
  <2> QED
    BY <1>1 DEF Starts
<1>4. ASSUME found # {} PROVE Min(found) \in Starts(text, n)
  BY <1>2, <1>3, <1>4, LeastOfNaturals
<1> HIDE DEF n, m, found, windows
<1>5. \A i \in Starts(text, n) : Replaced(text, i, n, patch.after) \in Texts
  BY <1>1, ReplacedIsText
<1>6. \A k \in windows : FuzzyReplaced(text, k, m, patch.after) \in Texts
  BY <1>1, FuzzyIsText
<1>7. PatchedTexts(p, text, patch) =
        IF MatchesOnce(text, patch.before)
        THEN {Replaced(text, Min(found), n, patch.after)}
        ELSE IF MatchesExactly(text, patch.before) THEN {patch.after}
        ELSE IF AllowsFuzzy(p, text, patch.before)
        THEN {FuzzyReplaced(text, k, m, patch.after) : k \in windows}
        ELSE {}
  BY DEF PatchedTexts, n, m, found, windows
<1>8. MatchesOnce(text, patch.before) => found # {}
  BY DEF MatchesOnce, found
<1> QED
  BY <1>1, <1>4, <1>5, <1>6, <1>7, <1>8

\* A note of a change names its path, a note of a skipped patch none.
LEMMA NotedAppended ==
  ASSUME NEW s \in Seq(Reports), NEW e \in Reports
  PROVE  /\ Append(s, e) \in Seq(Reports)
         /\ e.type # "file.patch_skipped" => Noted(Append(s, e)) = Noted(s) \cup {e.path}
         /\ e.type = "file.patch_skipped" => Noted(Append(s, e)) = Noted(s)
PROOF
<1> DEFINE t == Append(s, e)
<1>1. /\ t \in Seq(Reports) /\ Len(t) = Len(s) + 1
      /\ \A i \in 1 .. Len(s) : t[i] = s[i]
      /\ t[Len(s) + 1] = e
  <2>1. \A S : \A seq \in Seq(S), elt \in S :
          /\ Append(seq, elt) \in Seq(S) /\ Len(Append(seq, elt)) = Len(seq) + 1
          /\ \A i \in 1 .. Len(seq) : Append(seq, elt)[i] = seq[i]
          /\ Append(seq, elt)[Len(seq) + 1] = elt
    BY AppendProperties
  <2> QED
    BY <2>1, Zenon
<1>2. Len(s) \in Nat /\ DOMAIN s = 1 .. Len(s)
  OBVIOUS
<1> HIDE DEF t
<1>3. DOMAIN t = DOMAIN s \cup {Len(s) + 1} /\ Len(s) + 1 \notin DOMAIN s
      /\ \A i \in DOMAIN s : t[i] = s[i]
  BY <1>1, <1>2
<1>4. ASSUME e.type # "file.patch_skipped" PROVE Noted(t) = Noted(s) \cup {e.path}
  BY <1>1, <1>3, <1>4 DEF Noted
<1>5. ASSUME e.type = "file.patch_skipped" PROVE Noted(t) = Noted(s)
  BY <1>1, <1>3, <1>5 DEF Noted
<1> QED
  BY <1>1, <1>4, <1>5 DEF t

(***************************************************************************)
(* The steps.                                                              *)
(***************************************************************************)
\* The workspace with some directories made, as mkdir leaves it.
MadeOf(base) ==
  /\ base \in [Paths -> Entry]
  /\ \A q \in Paths : base[q] = files[q] \/ (~IsFile(files[q]) /\ base[q] = Directory)

LEMMA DirectoriesMade ==
  ASSUME MatTypeOK, NEW D, CanMake(D)
  PROVE  MadeOf(WithDirectories(D))
PROOF
<1> DEFINE base == WithDirectories(D)
<1>1. Directory \in Entry
  <2>1. << >> \in Seq(Words \cup {LF})
    OBVIOUS
  <2> QED
    BY <2>1 DEF Directory, Entry, Texts
<1>2. base = [p \in Paths |-> IF p \in D THEN Directory ELSE files[p]]
  BY DEF WithDirectories
<1>3. base \in [Paths -> Entry]
  BY <1>1, <1>2 DEF MatTypeOK
<1>4. \A q \in Paths : base[q] = files[q] \/ (~IsFile(files[q]) /\ base[q] = Directory)
  BY <1>2 DEF CanMake
<1> QED
  BY <1>3, <1>4 DEF MadeOf

\* The file holds the text already, with whatever line ends.
Reads(p, text) == files[p].kind = "file" /\ files[p].text = text

\* A change that is recorded, or is none, leaves no file unreported.
LEMMA FileReported ==
  ASSUME DiffInvariant, NEW p \in Paths, NEW base, MadeOf(base), NEW text \in Texts,
         files' = [base EXCEPT ![p] = File(text)], start' = start,
         step # "escaped",
         \/ Reads(p, text) /\ DOMAIN report' = DOMAIN report
         \/ DOMAIN report' = DOMAIN report \cup {p}
  PROVE  files' \in [Paths -> Entry] /\ Unreported' = {}
PROOF
<1>1. File(text) \in Entry
  BY DEF File, Entry
<1>2. /\ files' \in [Paths -> Entry] /\ files'[p] = File(text)
      /\ \A q \in Paths : q # p => files'[q] = base[q]
  BY <1>1 DEF MadeOf
<1>3. \A q \in Paths : Differs(q) => q \in DOMAIN report
  BY DEF DiffInvariant, Unreported
<1>4. ASSUME NEW q \in Paths, Differs(q)' PROVE q \in DOMAIN report'
  <2>1. IsFile(files'[q]) /\ Shown(files'[q]) # Shown(start[q])
    BY <1>4 DEF Differs, IsFile, Shown
  <2>2. CASE q # p
    <3>1. files'[q] = base[q] /\ (base[q] = files[q] \/ base[q] = Directory)
      BY <1>2, <2>2 DEF MadeOf
    <3>2. ~IsFile(Directory)
      BY DEF IsFile, Directory
    <3>3. Differs(q)
      BY <2>1, <3>1, <3>2 DEF Differs
    <3> QED
      BY <1>3, <3>3
  <2>3. CASE q = p
    <3>1. Reads(p, text) => Differs(p)
      BY <1>2, <2>1, <2>3 DEF Differs, Reads, Shown, IsFile, File
    <3> QED
      BY <1>3, <2>3, <3>1
  <2> QED
    BY <2>2, <2>3
<1>5. Unreported' = {r \in Paths : Differs(r)'} \ DOMAIN report'
  BY DEF Unreported
<1> QED
  BY <1>2, <1>4, <1>5

\* _record_changed_file puts the path into the change set.
LEMMA Recorded ==
  ASSUME NEW p, NEW before, NEW after, RecordChangedFile(p, before, after)
  PROVE  DOMAIN report' = DOMAIN report \cup {p}
PROOF
BY DEF RecordChangedFile

\* Steps that leave the files, the change set and the events alone.
LEMMA NothingWritten ==
  ASSUME DiffInvariant, UNCHANGED <<files, start, plan, report, events>>,
         step # "escaped",
         step' \in {"directories", "writes", "patches", "applied", "failed", "escaped"},
         step' = "failed" => DOMAIN report = {}, next' \in Nat
  PROVE  DiffInvariant'
PROOF
<1>1. MatTypeOK'
  BY DEF DiffInvariant, MatTypeOK
<1>2. Unreported' = Unreported /\ Unreported = {}
  BY DEF DiffInvariant, Unreported, Differs, Shown
<1>3. Noted(events)' = Noted(events)
  BY DEF Noted
<1> QED
  BY <1>1, <1>2, <1>3 DEF DiffInvariant

LEMMA DiffInitially == Init => DiffInvariant
PROOF
<1> SUFFICES ASSUME Init PROVE DiffInvariant
  OBVIOUS
<1>1. /\ files \in [Paths -> Entry] /\ start = files /\ plan \in Plans /\ step = "parse"
      /\ next = 1 /\ DOMAIN report = {} /\ events = << >>
  BY MaterializationAssumption DEF Init
<1>2. MatTypeOK
  BY <1>1 DEF MatTypeOK
<1>3. Unreported = {}
  BY <1>1 DEF Unreported, Differs
<1>4. Noted(events) = {}
  BY <1>1 DEF Noted
<1> QED
  BY <1>1, <1>2, <1>3, <1>4 DEF DiffInvariant

\* The entries of a plan name paths of the repository.
LEMMA EntriesAreTyped ==
  ASSUME MatTypeOK
  PROVE  /\ \A i \in DOMAIN plan.directories : Target[plan.directories[i]] \in Paths
         /\ \A i \in DOMAIN plan.writes :
              Target[plan.writes[i].name] \in Paths /\ plan.writes[i].text \in Texts
         /\ \A i \in DOMAIN plan.patches :
              /\ Target[plan.patches[i].name] \in Paths
              /\ plan.patches[i] \in Patches
PROOF
<1>1. /\ plan.directories \in Seq(Names)
      /\ plan.writes \in Seq([name : Names, text : Texts])
      /\ plan.patches \in Seq(Patches)
  BY DEF MatTypeOK, Plans
<1>2. /\ \A i \in DOMAIN plan.directories : plan.directories[i] \in Names
      /\ \A i \in DOMAIN plan.writes : plan.writes[i] \in [name : Names, text : Texts]
      /\ \A i \in DOMAIN plan.patches :
           plan.patches[i] \in Patches
  <2>1. \A S, s : s \in Seq(S) => \A i \in DOMAIN s : s[i] \in S
    OBVIOUS
  <2> QED
    BY <1>1, <2>1, Zenon
<1>3. \A x \in Names : Target[x] \in Paths
  BY MaterializationAssumption
<1> QED
  BY <1>2, <1>3 DEF Patches

\* Directories that are made change no file.
LEMMA MadeShowsNothing ==
  ASSUME MadeOf(files'), start' = start, report' = report
  PROVE  Unreported' \subseteq Unreported
PROOF
<1>1. ~IsFile(Directory)
  BY DEF IsFile, Directory
<1>2. \A q \in Paths : Differs(q)' => Differs(q)
  <2> TAKE q \in Paths
  <2>1. files'[q] = files[q] \/ files'[q] = Directory
    BY DEF MadeOf
  <2>2. Differs(q)' <=> IsFile(files'[q]) /\ Shown(files'[q]) # Shown(start[q])
    BY DEF Differs, IsFile, Shown
  <2> QED
    BY <1>1, <2>1, <2>2 DEF Differs
<1>3. Unreported' = {p \in Paths : Differs(p)'} \ DOMAIN report
  BY DEF Unreported
<1> QED
  BY <1>2, <1>3 DEF Unreported

LEMMA MakeDirectoryKeeps == DiffInvariant /\ MakeDirectory => DiffInvariant'
PROOF
<1> SUFFICES ASSUME DiffInvariant, MakeDirectory PROVE DiffInvariant'
  OBVIOUS
<1>1. MatTypeOK /\ Unreported = {} /\ DOMAIN report = Noted(events)
  BY DEF DiffInvariant, MakeDirectory, AtEntry
<1>2. PICK D : CanMake(D) /\ files' = WithDirectories(D)
  BY DEF MakeDirectory
<1>3. /\ step = "directories" /\ next' = next + 1
      /\ UNCHANGED <<start, plan, step, report, events>>
  BY DEF MakeDirectory, AtEntry
<1>4. MadeOf(files')
  BY <1>1, <1>2, DirectoriesMade
<1>5. MatTypeOK'
  BY <1>1, <1>3, <1>4 DEF MatTypeOK, MadeOf
<1>6. Unreported' \subseteq Unreported
  BY <1>1, <1>3, <1>4, MadeShowsNothing
<1> QED
  BY <1>1, <1>3, <1>5, <1>6 DEF DiffInvariant, Noted

\* A change that is noted, or none.
LEMMA ChangeKeeps ==
  ASSUME DiffInvariant, NEW p \in Paths, NEW base, MadeOf(base), NEW text \in Texts,
         NEW type \in {"file.written", "file.patched"}, NEW before,
         files' = [base EXCEPT ![p] = File(text)],
         \/ Reads(p, text) /\ UNCHANGED <<report, events>>
         \/ RecordChangedFile(p, before, text) /\ Note(type, p),
         step \in {"writes", "patches"}, next' = next + 1,
         UNCHANGED <<start, plan, step>>
  PROVE  DiffInvariant'
PROOF
<1>1. MatTypeOK /\ DOMAIN report = Noted(events) /\ events \in Seq(Reports)
      /\ DOMAIN report \subseteq Paths /\ next \in Nat
  BY DEF DiffInvariant, MatTypeOK
<1>2. \/ Reads(p, text) /\ DOMAIN report' = DOMAIN report
      \/ DOMAIN report' = DOMAIN report \cup {p}
  BY Recorded
<1>3. files' \in [Paths -> Entry] /\ Unreported' = {}
  BY <1>2, FileReported
<1>4. events' \in Seq(Reports) /\ DOMAIN report' = Noted(events)'
  <2>1. CASE UNCHANGED <<report, events>>
    BY <1>1, <2>1 DEF Noted
  <2>2. CASE RecordChangedFile(p, before, text) /\ Note(type, p)
    <3> DEFINE e == [type |-> type, path |-> p]
    <3>1. e \in Reports /\ e.type # "file.patch_skipped" /\ e.path = p
      BY DEF Reports
    <3>2. events' = Append(events, e)
      BY <2>2 DEF Note
    <3> HIDE DEF e
    <3>3. events' \in Seq(Reports) /\ Noted(events') = Noted(events) \cup {p}
      BY <1>1, <3>1, <3>2, NotedAppended
    <3>4. DOMAIN report' = DOMAIN report \cup {p}
      BY <2>2, Recorded
    <3> QED
      BY <1>1, <3>3, <3>4 DEF Noted
  <2> QED
    BY <2>1, <2>2
<1>5. MatTypeOK'
  <2>1. DOMAIN report' \subseteq Paths
    BY <1>1, <1>2
  <2> QED
    BY <1>1, <1>3, <1>4, <2>1 DEF MatTypeOK
<1> QED
  BY <1>3, <1>4, <1>5 DEF DiffInvariant

LEMMA WriteFileKeeps == DiffInvariant /\ WriteFile => DiffInvariant'
PROOF
<1> SUFFICES ASSUME DiffInvariant, WriteFile PROVE DiffInvariant'
  OBVIOUS
<1> DEFINE p    == Target[plan.writes[next].name]
           text == plan.writes[next].text
           base == WithDirectories(Ancestors[p])
<1>1. /\ step = "writes" /\ next \in DOMAIN plan.writes /\ CanMake(Ancestors[p])
      /\ files' = [base EXCEPT ![p] = File(text)]
      /\ \/ Reads(p, text) /\ UNCHANGED <<report, events>>
         \/ RecordChangedFile(p, files[p].text, text) /\ Note("file.written", p)
      /\ next' = next + 1
      /\ UNCHANGED <<start, plan, step>>
  BY DEF WriteFile, AtEntry, Entries, Reads
<1>2. MatTypeOK
  BY DEF DiffInvariant
<1>3. p \in Paths /\ text \in Texts
  BY <1>1, <1>2, EntriesAreTyped
<1>4. MadeOf(base)
  BY <1>1, <1>2, DirectoriesMade
<1> HIDE DEF p, text, base
<1> QED
  BY <1>1, <1>3, <1>4, ChangeKeeps

LEMMA PatchFileKeeps == DiffInvariant /\ PatchFile => DiffInvariant'
PROOF
<1> SUFFICES ASSUME DiffInvariant, PatchFile PROVE DiffInvariant'
  OBVIOUS
<1> DEFINE patch == plan.patches[next]
           p     == Target[patch.name]
<1>1. PICK text \in PatchedTexts(p, files[p].text, patch) :
        /\ files' = [files EXCEPT ![p] = File(text)]
        /\ IF files[p].text = text THEN UNCHANGED <<report, events>>
           ELSE RecordChangedFile(p, files[p].text, text) /\ Note("file.patched", p)
  BY DEF PatchFile
<1>2. /\ step = "patches" /\ next \in DOMAIN plan.patches /\ files[p].kind = "file"
      /\ next' = next + 1 /\ UNCHANGED <<start, plan, step>>
  BY DEF PatchFile, AtEntry, Entries
<1>3. MatTypeOK /\ files \in [Paths -> Entry]
  BY DEF DiffInvariant, MatTypeOK
<1>4. p \in Paths /\ patch \in Patches
  BY <1>2, <1>3, EntriesAreTyped
<1>5. MadeOf(files)
  BY <1>3 DEF MadeOf
<1> HIDE DEF patch, p
<1>6. files[p] \in Entry
  BY <1>3, <1>4
<1>7. text \in Texts
  BY <1>1, <1>4, <1>6, PatchedIsText DEF Entry
<1>8. \/ Reads(p, text) /\ UNCHANGED <<report, events>>
      \/ RecordChangedFile(p, files[p].text, text) /\ Note("file.patched", p)
  BY <1>1, <1>2 DEF Reads
<1> QED
  BY <1>1, <1>2, <1>4, <1>5, <1>7, <1>8, ChangeKeeps

LEMMA SkipPatchKeeps == DiffInvariant /\ SkipPatch => DiffInvariant'
PROOF
<1> SUFFICES ASSUME DiffInvariant, SkipPatch PROVE DiffInvariant'
  OBVIOUS
<1> DEFINE p == Target[plan.patches[next].name]
           e == [type |-> "file.patch_skipped", path |-> p]
<1>1. /\ step = "patches" /\ next \in DOMAIN plan.patches
      /\ events' = Append(events, e)
      /\ next' = next + 1 /\ UNCHANGED <<files, start, plan, step, report>>
  BY DEF SkipPatch, AtEntry, Entries, Note
<1>2. /\ MatTypeOK /\ events \in Seq(Reports) /\ DOMAIN report = Noted(events)
      /\ Unreported = {}
  BY <1>1 DEF DiffInvariant, MatTypeOK
<1>3. p \in Paths
  BY <1>1, <1>2, EntriesAreTyped
<1> HIDE DEF p
<1>4. e \in Reports /\ e.type = "file.patch_skipped"
  BY <1>3 DEF Reports
<1> HIDE DEF e
<1>5. events' \in Seq(Reports) /\ Noted(events') = Noted(events)
  BY <1>1, <1>2, <1>4, NotedAppended
<1>6. MatTypeOK'
  BY <1>1, <1>2, <1>5 DEF MatTypeOK
<1>7. Unreported' = {}
  BY <1>1, <1>2 DEF Unreported, Differs, Shown
<1>8. Noted(events)' = Noted(events')
  BY DEF Noted
<1> QED
  BY <1>1, <1>2, <1>5, <1>6, <1>7, <1>8 DEF DiffInvariant

\* What a failing step of the file system has done: directories were made, and
\* one file of the plan may hold the beginning of a text.
FailedAt(p, torn, base) ==
  /\ MadeOf(base) /\ p \in Planned /\ p \in Paths /\ torn \in Texts
  /\ files' = [base EXCEPT ![p] = File(torn)]

LEMMA PartlyMadeOf ==
  ASSUME MatTypeOK, NEW D, NEW made \in PartlyMade(D)
  PROVE  MadeOf(WithDirectories(made))
PROOF
<1>1. CanMake(made)
  BY DEF PartlyMade
<1> QED
  BY <1>1, DirectoriesMade

LEMMA FailureLeaves ==
  ASSUME MatTypeOK, FileSystemFails
  PROVE  MadeOf(files') \/ \E p, torn, base : FailedAt(p, torn, base)
PROOF
<1>1. CASE FailBeforeWriting
  <2>1. ASSUME AtEntry("patches"), UNCHANGED files PROVE MadeOf(files')
    BY <2>1 DEF MadeOf, MatTypeOK
  <2>2. (\E D : \E made \in PartlyMade(D) : files' = WithDirectories(made))
          \/ (AtEntry("patches") /\ UNCHANGED files)
    BY <1>1 DEF FailBeforeWriting
  <2> QED
    BY <2>1, <2>2, PartlyMadeOf
<1>2. CASE FailWhileWriting /\ AtEntry("writes") /\ ~AtEntry("patches")
  <2> DEFINE p    == Target[plan.writes[next].name]
             text == plan.writes[next].text
             base == WithDirectories(Ancestors[p])
  <2>1. next \in DOMAIN plan.writes
    BY <1>2 DEF AtEntry, Entries
  <2>2. /\ CanMake(Ancestors[p])
        /\ \E torn \in Prefixes(text) : files' = [base EXCEPT ![p] = File(torn)]
    BY <1>2 DEF FailWhileWriting
  <2>3. p \in Paths /\ text \in Texts
    BY <2>1, EntriesAreTyped
  <2>4. p \in Planned
    BY <2>1 DEF Planned
  <2>5. MadeOf(base)
    BY <2>2, DirectoriesMade
  <2> HIDE DEF p, text, base
  <2>6. PICK torn \in Prefixes(text) : files' = [base EXCEPT ![p] = File(torn)]
    BY <2>2
  <2>7. torn \in Texts
    BY <2>3, <2>6, PrefixIsText
  <2>8. FailedAt(p, torn, base)
    BY <2>3, <2>4, <2>5, <2>6, <2>7 DEF FailedAt
  <2> QED
    BY <2>8
<1>3. CASE FailWhileWriting /\ AtEntry("patches") /\ ~AtEntry("writes")
  <2> DEFINE patch == plan.patches[next]
             p     == Target[patch.name]
  <2>1. next \in DOMAIN plan.patches
    BY <1>3 DEF AtEntry, Entries
  <2>2. \E text \in PatchedTexts(p, files[p].text, patch) : \E torn \in Prefixes(text) :
          files' = [files EXCEPT ![p] = File(torn)]
    BY <1>3 DEF FailWhileWriting
  <2>3. p \in Paths /\ patch \in Patches
    BY <2>1, EntriesAreTyped
  <2>4. p \in Planned
    BY <2>1 DEF Planned
  <2>5. files \in [Paths -> Entry] /\ MadeOf(files)
    BY DEF MatTypeOK, MadeOf
  <2> HIDE DEF patch, p
  <2>6. files[p].text \in Texts
    BY <2>3, <2>5 DEF Entry
  <2>7. PICK text \in PatchedTexts(p, files[p].text, patch) : \E torn \in Prefixes(text) :
          files' = [files EXCEPT ![p] = File(torn)]
    BY <2>2
  <2>8. text \in Texts
    BY <2>3, <2>6, <2>7, PatchedIsText
  <2>9. PICK torn \in Prefixes(text) : files' = [files EXCEPT ![p] = File(torn)]
    BY <2>7
  <2>10. torn \in Texts
    BY <2>8, <2>9, PrefixIsText
  <2>11. FailedAt(p, torn, files)
    BY <2>3, <2>4, <2>5, <2>9, <2>10 DEF FailedAt
  <2> QED
    BY <2>11
<1>4. /\ FailBeforeWriting \/ FailWhileWriting
      /\ FailWhileWriting => AtEntry("writes") \/ AtEntry("patches")
      /\ ~(AtEntry("writes") /\ AtEntry("patches"))
  BY DEF FileSystemFails, FailWhileWriting, AtEntry
<1> QED
  BY <1>1, <1>2, <1>3, <1>4

\* The file in hand is the only one that may differ and be in no change set.
LEMMA FailureKeeps ==
  ASSUME DiffInvariant, FileSystemFails
  PROVE  DiffInvariant'
PROOF
<1>1. /\ step' = "escaped" /\ UNCHANGED <<start, plan, next, report, events>>
      /\ step \in {"directories", "writes", "patches"}
  BY DEF FileSystemFails, FailBeforeWriting, FailWhileWriting, AtEntry
<1>2. MatTypeOK /\ Unreported = {} /\ DOMAIN report = Noted(events)
  BY <1>1 DEF DiffInvariant
<1>3. files' \in [Paths -> Entry] /\ \A q, r \in Unreported' : q = r
  <2>1. CASE MadeOf(files')
    <3>1. Unreported' \subseteq Unreported
      BY <1>1, <2>1, MadeShowsNothing
    <3> QED
      BY <1>2, <2>1, <3>1 DEF MadeOf
  <2>2. CASE \E p, torn, base : FailedAt(p, torn, base)
    <3>1. PICK p, torn, base : FailedAt(p, torn, base)
      BY <2>2
    <3>2. File(torn) \in Entry
      BY <3>1 DEF FailedAt, File, Entry
    <3>3. /\ files' \in [Paths -> Entry]
          /\ \A q \in Paths : q # p => files'[q] = base[q]
      BY <3>1, <3>2 DEF FailedAt, MadeOf
    <3>4. ~IsFile(Directory)
      BY DEF IsFile, Directory
    <3>5. ASSUME NEW q \in Paths, q # p, Differs(q)' PROVE Differs(q)
      <4>1. files'[q] = base[q] /\ (base[q] = files[q] \/ base[q] = Directory)
        BY <3>1, <3>3, <3>5 DEF FailedAt, MadeOf
      <4>2. IsFile(files'[q]) /\ Shown(files'[q]) # Shown(start[q])
        BY <1>1, <3>5 DEF Differs, IsFile, Shown
      <4> QED
        BY <3>4, <4>1, <4>2 DEF Differs
    <3>6. Unreported' = {q \in Paths : Differs(q)'} \ DOMAIN report
      BY <1>1 DEF Unreported
    <3>7. Unreported' \subseteq {p}
      BY <1>2, <3>5, <3>6 DEF Unreported
    <3> QED
      BY <3>3, <3>7
  <2> QED
    BY <1>2, <2>1, <2>2, FailureLeaves
<1>4. MatTypeOK'
  BY <1>1, <1>2, <1>3 DEF MatTypeOK
<1>5. DOMAIN report' = Noted(events)'
  BY <1>1, <1>2 DEF Noted
<1> QED
  BY <1>1, <1>3, <1>4, <1>5 DEF DiffInvariant

LEMMA DiffStep == DiffInvariant /\ [Next]_matVars => DiffInvariant'
PROOF
<1> SUFFICES ASSUME DiffInvariant, [Next]_matVars PROVE DiffInvariant'
  OBVIOUS
<1>1. next \in Nat /\ DOMAIN report = Noted(events)
      /\ (step \in {"parse", "failed"} => DOMAIN report = {})
  BY DEF DiffInvariant, MatTypeOK
<1>2. CASE ParsePlan
  BY <1>1, <1>2, NothingWritten DEF ParsePlan
<1>3. CASE RejectPlan
  BY <1>1, <1>3, NothingWritten DEF RejectPlan
<1>4. CASE MakeDirectory
  BY <1>4, MakeDirectoryKeeps
<1>5. CASE WriteFile
  BY <1>5, WriteFileKeeps
<1>6. CASE PatchFile
  BY <1>6, PatchFileKeeps
<1>7. CASE SkipPatch
  BY <1>7, SkipPatchKeeps
<1>8. CASE PassOverDropped
  BY <1>1, <1>8, NothingWritten DEF PassOverDropped
<1>9. CASE NextEntries
  BY <1>1, <1>9, NothingWritten DEF NextEntries, AtEndOf
<1>10. CASE FailPlan
  BY <1>1, <1>10, NothingWritten DEF FailPlan, ChangedNothing, AtEndOf
<1>11. CASE FinishPlan
  BY <1>1, <1>11, NothingWritten DEF FinishPlan, AtEndOf
<1>12. CASE FileSystemFails
  BY <1>12, FailureKeeps
<1>13. CASE UNCHANGED matVars
  <2>1. UNCHANGED <<files, start, plan, step, next, report, events>>
    BY <1>13 DEF matVars
  <2>2. MatTypeOK'
    BY <2>1 DEF DiffInvariant, MatTypeOK
  <2>3. Unreported' = Unreported /\ Noted(events)' = Noted(events)
    BY <2>1 DEF Unreported, Differs, Shown, Noted
  <2> QED
    BY <2>1, <2>2, <2>3 DEF DiffInvariant
<1> QED
  BY <1>2, <1>3, <1>4, <1>5, <1>6, <1>7, <1>8, <1>9, <1>10, <1>11, <1>12, <1>13 DEF Next

(* Every file and text stays one, whatever is patched where, and next,     *)
(* report and events only ever speak of paths of the repository.           *)
THEOREM MatTypeSafety == MaterializationSpec => []MatTypeOK
PROOF
<1>1. DiffInvariant => MatTypeOK
  BY DEF DiffInvariant
<1> QED
  BY <1>1, DiffInitially, DiffStep, PTL DEF MaterializationSpec

\* What the invariant says, in the words of the property.
LEMMA DiffReported == DiffInvariant => DiffIsReported
PROOF
<1> SUFFICES ASSUME DiffInvariant PROVE DiffIsReported
  OBVIOUS
<1> DEFINE changes == {e \in ToSet(events) : e.type # "file.patch_skipped"}
<1>1. /\ step # "escaped" => Unreported = {}
      /\ \A p, q \in Unreported : p = q
      /\ MatTypeOK
  BY DEF DiffInvariant
<1>2. {e.path : e \in changes} = Noted(events)
  BY DEF Noted, ToSet
<1>3. DOMAIN report = Noted(events) /\ (step = "failed" => DOMAIN report = {})
  BY DEF DiffInvariant
<1>4. step = "failed" => \A p \in Paths : ~Differs(p)
  BY <1>1, <1>3 DEF Unreported
<1> QED
  BY <1>1, <1>2, <1>3, <1>4 DEF DiffIsReported

(* For every plan and workspace: a file that differs from the start is in  *)
(* the change set and the event stream, and a plan that is refused has     *)
(* changed no file.                                                        *)
THEOREM DiffSafety == MaterializationSpec => []DiffIsReported
PROOF
BY DiffInitially, DiffStep, DiffReported, PTL DEF MaterializationSpec

(***************************************************************************)
(* The refinement of ChangeSet.                                            *)
(***************************************************************************)
\* The terms the variables of ChangeSet stand for.
Content == [p \in Paths |-> Shown(IF IsFile(files[p]) THEN files[p] ELSE Missing)]
Changed == IF step = "escaped" THEN {} ELSE DOMAIN report
Stage   == CASE step = "applied" -> "admitted" [] step = "failed" -> "refused"
             [] step = "escaped" -> "broken" [] OTHER -> "open"

Working == {"parse", "directories", "writes", "patches"}

\* Steps between which a reader of the change set sees no difference.
LEMMA Unnoticed ==
  ASSUME UNCHANGED <<Content, plan, report>>, step \in Working, step' \in Working
  PROVE  UNCHANGED Promise!changeSetVars
PROOF
<1>1. Planned' = Planned
  BY DEF Planned
<1>2. Changed' = Changed /\ Stage' = Stage
  BY DEF Changed, Stage, Working
<1> QED
  BY <1>1, <1>2 DEF Promise!changeSetVars, Content, Changed, Stage

\* One file is changed, and recorded if it is.
LEMMA Edited ==
  ASSUME step \in {"writes", "patches"}, UNCHANGED <<step, plan>>,
         NEW p \in Planned, p \in Paths,
         \A q \in Paths \ {p} : Content'[q] = Content[q],
         Content'[p] # Content[p] => p \in DOMAIN report',
         DOMAIN report' \in {DOMAIN report, DOMAIN report \cup {p}}
  PROVE  Promise!Next
PROOF
<1>1. Planned' = Planned
  BY DEF Planned
<1>2. /\ Changed = DOMAIN report /\ Changed' = DOMAIN report'
      /\ Stage = "open" /\ Stage' = "open"
  BY DEF Changed, Stage
<1>3. /\ Stage = "open" /\ p \in Planned
      /\ \A q \in Paths \ {p} : Content'[q] = Content[q]
      /\ Content'[p] # Content[p] => p \in Changed'
      /\ Changed' \in {Changed, Changed \cup {p}}
      /\ UNCHANGED <<Planned, Stage>>
  BY <1>1, <1>2
<1>4. Promise!Edit(p)
  BY <1>3 DEF Promise!Edit, Content, Changed, Stage
<1> QED
  BY <1>4 DEF Promise!Next

\* Directories that are made change no file.
LEMMA SameContent ==
  ASSUME NEW base, MadeOf(base), NEW q \in Paths, files'[q] = base[q]
  PROVE  Content'[q] = Content[q]
PROOF
<1>1. ~IsFile(Directory)
  BY DEF IsFile, Directory
<1>2. IsFile(files[q])' <=> IsFile(files'[q])
  BY DEF IsFile
<1>3. base[q] = files[q] \/ (~IsFile(files[q]) /\ base[q] = Directory)
  BY DEF MadeOf
<1>4. Content[q] = Shown(IF IsFile(files[q]) THEN files[q] ELSE Missing)
  BY DEF Content
<1>5. Content'[q] = Shown(IF IsFile(files'[q]) THEN files'[q] ELSE Missing)
  BY <1>2 DEF Content, Shown
<1> QED
  BY <1>1, <1>3, <1>4, <1>5

LEMMA ChangeIsEdit ==
  ASSUME DiffInvariant, NEW p \in Planned, p \in Paths, NEW base, MadeOf(base),
         NEW text \in Texts, NEW before,
         files' = [base EXCEPT ![p] = File(text)],
         \/ Reads(p, text) /\ UNCHANGED report
         \/ RecordChangedFile(p, before, text),
         step \in {"writes", "patches"}, UNCHANGED <<step, plan>>
  PROVE  Promise!Next
PROOF
<1>1. /\ files'[p] = File(text)
      /\ \A q \in Paths \ {p} : files'[q] = base[q]
  BY DEF MadeOf
<1>2. \A q \in Paths \ {p} : Content'[q] = Content[q]
  BY <1>1, SameContent
<1>3. ASSUME Reads(p, text) PROVE Content'[p] = Content[p]
  BY <1>1, <1>3 DEF Content, IsFile, Shown, File, Reads
<1>4. RecordChangedFile(p, before, text) => DOMAIN report' = DOMAIN report \cup {p}
  BY Recorded
<1> QED
  BY <1>2, <1>3, <1>4, Edited

LEMMA PromiseInit == Init => Promise!Init
PROOF
<1> SUFFICES ASSUME Init PROVE Promise!Init
  OBVIOUS
<1>1. DOMAIN report = {} /\ step = "parse"
  BY DEF Init
<1> QED
  BY <1>1 DEF Promise!Init

LEMMA PromiseStep ==
  ASSUME DiffInvariant, [Next]_matVars
  PROVE  [Promise!Next]_Promise!changeSetVars
PROOF
<1>1. MatTypeOK /\ (step = "parse" => DOMAIN report = {})
  BY DEF DiffInvariant
<1>2. UNCHANGED files => UNCHANGED Content
  BY DEF Content, IsFile, Shown
<1>3. CASE ParsePlan
  <2>1. /\ UNCHANGED <<files, plan, report>> /\ step = "parse" /\ step' = "directories"
    BY <1>3 DEF ParsePlan
  <2> QED
    BY <1>2, <2>1, Unnoticed DEF Working
<1>4. CASE RejectPlan \/ FailPlan
  <2>1. /\ UNCHANGED <<files, plan, report>> /\ step \in Working /\ step' = "failed"
        /\ DOMAIN report = {}
    BY <1>1, <1>4 DEF RejectPlan, FailPlan, AtEndOf, ChangedNothing, Working
  <2>2. Planned' = Planned
    BY <2>1 DEF Planned
  <2>3. /\ Stage = "open" /\ Stage' = "refused" /\ Changed = {} /\ UNCHANGED <<Content, Changed>>
    BY <1>2, <2>1 DEF Stage, Changed, Working
  <2>4. Promise!Refuse
    BY <2>2, <2>3 DEF Promise!Refuse, Content, Changed, Stage
  <2> QED
    BY <2>4 DEF Promise!Next
<1>5. CASE MakeDirectory
  <2>1. PICK D : CanMake(D) /\ files' = WithDirectories(D)
    BY <1>5 DEF MakeDirectory
  <2>2. step = "directories" /\ UNCHANGED <<plan, step, report>>
    BY <1>5 DEF MakeDirectory, AtEntry
  <2>3. MadeOf(files')
    BY <1>1, <2>1, DirectoriesMade
  <2>4. \A q \in Paths : Content'[q] = Content[q]
    BY <2>3, SameContent
  <2>5. Content' = Content
    BY <2>4 DEF Content
  <2> QED
    BY <2>2, <2>5, Unnoticed DEF Working
<1>6. CASE WriteFile
  <2> DEFINE p    == Target[plan.writes[next].name]
             text == plan.writes[next].text
             base == WithDirectories(Ancestors[p])
  <2>1. /\ step = "writes" /\ next \in DOMAIN plan.writes /\ CanMake(Ancestors[p])
        /\ files' = [base EXCEPT ![p] = File(text)]
        /\ \/ Reads(p, text) /\ UNCHANGED report
           \/ RecordChangedFile(p, files[p].text, text)
        /\ UNCHANGED <<plan, step>>
    BY <1>6 DEF WriteFile, AtEntry, Entries, Reads
  <2>2. p \in Paths /\ text \in Texts
    BY <1>1, <2>1, EntriesAreTyped
  <2>3. p \in Planned
    BY <2>1 DEF Planned
  <2>4. MadeOf(base)
    BY <1>1, <2>1, DirectoriesMade
  <2> HIDE DEF p, text, base
  <2> QED
    BY <2>1, <2>2, <2>3, <2>4, ChangeIsEdit
<1>7. CASE PatchFile
  <2> DEFINE patch == plan.patches[next]
             p     == Target[patch.name]
  <2>1. PICK text \in PatchedTexts(p, files[p].text, patch) :
          /\ files' = [files EXCEPT ![p] = File(text)]
          /\ IF files[p].text = text THEN UNCHANGED <<report, events>>
             ELSE RecordChangedFile(p, files[p].text, text) /\ Note("file.patched", p)
    BY <1>7 DEF PatchFile
  <2>2. /\ step = "patches" /\ next \in DOMAIN plan.patches /\ files[p].kind = "file"
        /\ UNCHANGED <<plan, step>>
    BY <1>7 DEF PatchFile, AtEntry, Entries
  <2>3. p \in Paths /\ patch \in Patches /\ p \in Planned
    BY <1>1, <2>2, EntriesAreTyped DEF Planned
  <2>4. files \in [Paths -> Entry] /\ MadeOf(files)
    BY <1>1 DEF MatTypeOK, MadeOf
  <2> HIDE DEF patch, p
  <2>5. files[p] \in Entry
    BY <2>3, <2>4
  <2>6. text \in Texts
    BY <2>1, <2>3, <2>5, PatchedIsText DEF Entry
  <2>7. \/ Reads(p, text) /\ UNCHANGED report
        \/ RecordChangedFile(p, files[p].text, text)
    BY <2>1, <2>2 DEF Reads
  <2> QED
    BY <2>1, <2>2, <2>3, <2>4, <2>6, <2>7, ChangeIsEdit
<1>8. CASE SkipPatch \/ PassOverDropped \/ NextEntries
  <2>1. UNCHANGED <<files, plan, report>> /\ step \in Working /\ step' \in Working
    BY <1>8 DEF SkipPatch, PassOverDropped, NextEntries, AtEntry, AtEndOf, Working
  <2> QED
    BY <1>2, <2>1, Unnoticed
<1>9. CASE FinishPlan
  <2>1. UNCHANGED <<files, plan, report>> /\ step \in Working /\ step' = "applied"
    BY <1>9 DEF FinishPlan, AtEndOf, Working
  <2>2. Planned' = Planned
    BY <2>1 DEF Planned
  <2>3. Stage = "open" /\ Stage' = "admitted" /\ UNCHANGED <<Content, Changed>>
    BY <1>2, <2>1 DEF Stage, Changed, Working
  <2>4. Promise!Admit
    BY <2>2, <2>3 DEF Promise!Admit, Content, Changed, Stage
  <2> QED
    BY <2>4 DEF Promise!Next
<1>10. CASE FileSystemFails
  <2>1. UNCHANGED <<plan, report>> /\ step \in Working /\ step' = "escaped"
    BY <1>10 DEF FileSystemFails, FailBeforeWriting, FailWhileWriting, AtEntry, Working
  <2>2. Planned' = Planned
    BY <2>1 DEF Planned
  <2>3. Stage = "open" /\ Stage' = "broken" /\ Changed' = {}
    BY <2>1 DEF Stage, Changed, Working
  <2>4. UNCHANGED Content \/ \E p \in Planned : \A q \in Paths \ {p} : Content'[q] = Content[q]
    <3>1. ASSUME MadeOf(files') PROVE UNCHANGED Content
      <4>1. \A q \in Paths : Content'[q] = Content[q]
        BY <3>1, SameContent
      <4> QED
        BY <4>1 DEF Content
    <3>2. ASSUME NEW p, NEW torn, NEW base, FailedAt(p, torn, base)
          PROVE  \A q \in Paths \ {p} : Content'[q] = Content[q]
      <4>1. MadeOf(base) /\ \A q \in Paths \ {p} : files'[q] = base[q]
        BY <3>2 DEF FailedAt, MadeOf
      <4> QED
        BY <4>1, SameContent
    <3>3. MadeOf(files') \/ \E p, torn, base : FailedAt(p, torn, base)
      BY <1>1, <1>10, FailureLeaves
    <3>4. \A p, torn, base : FailedAt(p, torn, base) => p \in Planned
      BY DEF FailedAt
    <3> QED
      BY <3>1, <3>2, <3>3, <3>4
  <2>5. Promise!Break
    BY <2>2, <2>3, <2>4 DEF Promise!Break, Content, Changed, Stage
  <2> QED
    BY <2>5 DEF Promise!Next
<1>11. CASE UNCHANGED matVars
  <2>1. UNCHANGED <<files, plan, report, step>>
    BY <1>11 DEF matVars
  <2>2. Planned' = Planned /\ Content' = Content /\ Changed' = Changed /\ Stage' = Stage
    BY <1>2, <2>1 DEF Planned, Changed, Stage
  <2> QED
    BY <2>2 DEF Promise!changeSetVars, Content, Changed, Stage
<1> QED
  BY <1>3, <1>4, <1>5, <1>6, <1>7, <1>8, <1>9, <1>10, <1>11 DEF Next

(* Every step of the materialization is a step of ChangeSet or none: files *)
(* change one at a time, each recorded as it does, and a refused plan has  *)
(* an empty change set.                                                    *)
THEOREM ChangeSetRefinement == MaterializationSpec => ImplementsChangeSet
PROOF
<1>1. DiffInvariant /\ [Next]_matVars => [Promise!Next]_Promise!changeSetVars
  BY PromiseStep
<1> QED
  BY <1>1, PromiseInit, DiffInitially, DiffStep, PTL
  DEF MaterializationSpec, ImplementsChangeSet, Promise!Spec
(***************************************************************************)
(* Common lines.  The table of CommonLines has a cell for each pair of     *)
(* beginnings of the two texts.                                            *)
(***************************************************************************)
Cells(a, b) == (0 .. Len(a)) \X (0 .. Len(b))
CellOf(g, a, b, i, j) ==
  IF i = 0 \/ j = 0 THEN 0
  ELSE IF a[i] = b[j] THEN g[<<i - 1, j - 1>>] + 1
  ELSE Max({g[<<i - 1, j>>], g[<<i, j - 1>>]})
IsTable(g, a, b) == g = [at \in Cells(a, b) |-> CellOf(g, a, b, at[1], at[2])]
FillsUpTo(g, a, b, k) ==
  \A i \in 0 .. Len(a), j \in 0 .. Len(b) : i + j <= k => g[<<i, j>>] = CellOf(g, a, b, i, j)

LEMMA TableIsChosen ==
  ASSUME NEW a, NEW b
  PROVE  CommonLines(a, b) = (CHOOSE g : IsTable(g, a, b))[<<Len(a), Len(b)>>]
PROOF
BY Zenon DEF CommonLines, IsTable, CellOf, Cells

LEMMA CellsOfTable ==
  ASSUME NEW a, NEW b, NEW g, IsTable(g, a, b), NEW i \in 0 .. Len(a), NEW j \in 0 .. Len(b)
  PROVE  g[<<i, j>>] = CellOf(g, a, b, i, j)
PROOF
<1>1. <<i, j>> \in Cells(a, b) /\ <<i, j>>[1] = i /\ <<i, j>>[2] = j
  BY DEF Cells
<1> QED
  BY <1>1 DEF IsTable

LEMMA TablesExist ==
  ASSUME NEW a, Len(a) \in Nat, NEW b, Len(b) \in Nat
  PROVE  \E g : IsTable(g, a, b)
PROOF
<1> DEFINE Bad == {k \in Nat : ~\E g : FillsUpTo(g, a, b, k)}
<1>1. Len(a) \in Nat /\ Len(b) \in Nat
  OBVIOUS
<1>2. Bad = {}
  <2> SUFFICES ASSUME Bad # {} PROVE FALSE
    OBVIOUS
  <2>1. PICK k \in Bad : \A n \in Bad : k <= n
    <3>1. Bad \subseteq Nat
      OBVIOUS
    <3> HIDE DEF Bad
    <3> QED
      BY <3>1, LeastOfNaturals
  <2>2. PICK h : \A i \in 0 .. Len(a), j \in 0 .. Len(b) :
                   i + j < k => h[<<i, j>>] = CellOf(h, a, b, i, j)
    <3>1. CASE k = 0
      BY <1>1, <3>1
    <3>2. CASE k > 0
      <4>1. k - 1 \in Nat /\ k - 1 \notin Bad
        BY <2>1, <3>2
      <4>2. PICK h : FillsUpTo(h, a, b, k - 1)
        BY <4>1
      <4>3. \A i \in 0 .. Len(a), j \in 0 .. Len(b) : i + j < k => i + j <= k - 1
        BY <1>1
      <4> QED
        BY <4>2, <4>3 DEF FillsUpTo
    <3>3. k = 0 \/ k > 0
      <4>1. k \in Nat
        BY <2>1
      <4> QED
        BY <4>1
    <3> HIDE DEF Bad
    <3> QED
      BY <3>1, <3>2, <3>3
  <2> DEFINE g == [at \in Cells(a, b) |->
                     IF at[1] + at[2] < k THEN h[at] ELSE CellOf(h, a, b, at[1], at[2])]
  <2>3. \A i \in 0 .. Len(a), j \in 0 .. Len(b) :
          g[<<i, j>>] = IF i + j < k THEN h[<<i, j>>] ELSE CellOf(h, a, b, i, j)
    <3> TAKE i \in 0 .. Len(a), j \in 0 .. Len(b)
    <3>1. <<i, j>> \in Cells(a, b) /\ <<i, j>>[1] = i /\ <<i, j>>[2] = j
      BY DEF Cells
    <3> QED
      BY <3>1
  <2> HIDE DEF g
  <2>4. FillsUpTo(g, a, b, k)
    <3> SUFFICES ASSUME NEW i \in 0 .. Len(a), NEW j \in 0 .. Len(b), i + j <= k
                 PROVE  g[<<i, j>>] = CellOf(g, a, b, i, j)
      BY DEF FillsUpTo
    <3>1. g[<<i, j>>] = CellOf(h, a, b, i, j)
      BY <2>2, <2>3
    <3>2. i # 0 /\ j # 0 =>
            /\ g[<<i - 1, j - 1>>] = h[<<i - 1, j - 1>>]
            /\ g[<<i - 1, j>>] = h[<<i - 1, j>>]
            /\ g[<<i, j - 1>>] = h[<<i, j - 1>>]
      <4> HAVE i # 0 /\ j # 0
      <4>1. /\ i - 1 \in 0 .. Len(a) /\ j - 1 \in 0 .. Len(b)
            /\ i - 1 + j < k /\ i + (j - 1) < k /\ i - 1 + (j - 1) < k
        BY <1>1
      <4> QED
        BY <2>3, <4>1
    <3> QED
      BY <3>1, <3>2 DEF CellOf
  <2> QED
    BY <2>4
<1>3. PICK h : FillsUpTo(h, a, b, Len(a) + Len(b))
  BY <1>1, <1>2
<1> DEFINE g == [at \in Cells(a, b) |-> h[at]]
<1>4. \A i \in 0 .. Len(a), j \in 0 .. Len(b) : g[<<i, j>>] = h[<<i, j>>]
  BY DEF Cells
<1>5. \A at \in Cells(a, b) : g[at] = CellOf(g, a, b, at[1], at[2])
  <2> TAKE at \in Cells(a, b)
  <2>1. PICK i \in 0 .. Len(a), j \in 0 .. Len(b) : at = <<i, j>>
    BY DEF Cells
  <2>2. h[<<i, j>>] = CellOf(h, a, b, i, j)
    <3>1. i + j <= Len(a) + Len(b)
      BY <1>1
    <3> QED
      BY <1>3, <3>1 DEF FillsUpTo
  <2>3. i # 0 /\ j # 0 =>
          /\ g[<<i - 1, j - 1>>] = h[<<i - 1, j - 1>>]
          /\ g[<<i - 1, j>>] = h[<<i - 1, j>>]
          /\ g[<<i, j - 1>>] = h[<<i, j - 1>>]
    <3> HAVE i # 0 /\ j # 0
    <3>1. i - 1 \in 0 .. Len(a) /\ j - 1 \in 0 .. Len(b)
      BY <1>1
    <3> HIDE DEF g
    <3> QED
      BY <1>4, <3>1
  <2>4. g[<<i, j>>] = h[<<i, j>>] /\ <<i, j>>[1] = i /\ <<i, j>>[2] = j
    BY <1>4
  <2> HIDE DEF g
  <2>5. CellOf(g, a, b, i, j) = CellOf(h, a, b, i, j)
    BY <2>3 DEF CellOf
  <2> QED
    BY <2>1, <2>2, <2>4, <2>5
<1>6. g = [at \in Cells(a, b) |-> g[at]]
  OBVIOUS
<1> HIDE DEF g
<1>7. g = [at \in Cells(a, b) |-> CellOf(g, a, b, at[1], at[2])]
  BY <1>5, <1>6
<1> QED
  BY <1>7 DEF IsTable

LEMMA LargerOfTwo ==
  \A x, y \in Int : Max({x, y}) \in {x, y} /\ Max({x, y}) >= x /\ Max({x, y}) >= y
PROOF
<1> SUFFICES ASSUME NEW x \in Int, NEW y \in Int
             PROVE  Max({x, y}) \in {x, y} /\ Max({x, y}) >= x /\ Max({x, y}) >= y
  OBVIOUS
<1>1. \E m \in {x, y} : \A z \in {x, y} : m >= z
  BY x >= y \/ y >= x
<1> QED
  BY <1>1 DEF Max

\* One more line has at most one more line in common, and never less.
IsSteady(g, i, j) ==
  /\ g[<<i, j>>] \in Nat
  /\ i # 0 => g[<<i - 1, j>>] <= g[<<i, j>>] /\ g[<<i, j>>] <= g[<<i - 1, j>>] + 1
  /\ j # 0 => g[<<i, j - 1>>] <= g[<<i, j>>] /\ g[<<i, j>>] <= g[<<i, j - 1>>] + 1

LEMMA TablesAreSteady ==
  ASSUME NEW a, Len(a) \in Nat, NEW b, Len(b) \in Nat, NEW g, IsTable(g, a, b),
         NEW m \in 0 .. Len(a), NEW n \in 0 .. Len(b)
  PROVE  IsSteady(g, m, n)
PROOF
<1> DEFINE Bad == {k \in Nat : \E i \in 0 .. Len(a), j \in 0 .. Len(b) : i + j = k /\ ~IsSteady(g, i, j)}
<1>1. Len(a) \in Nat /\ Len(b) \in Nat
  OBVIOUS
<1>2. SUFFICES ASSUME Bad # {} PROVE FALSE
  <2>1. m + n \in Nat
    BY <1>1
  <2> QED
    BY <2>1
<1>3. PICK k \in Bad : \A l \in Bad : k <= l
  <2>1. Bad \subseteq Nat
    OBVIOUS
  <2> HIDE DEF Bad
  <2> QED
    BY <1>2, <2>1, LeastOfNaturals
<1>4. PICK i \in 0 .. Len(a), j \in 0 .. Len(b) : i + j = k /\ ~IsSteady(g, i, j)
  OBVIOUS
<1>5. \A x \in 0 .. Len(a), y \in 0 .. Len(b) : x + y < k => IsSteady(g, x, y)
  <2> SUFFICES ASSUME NEW x \in 0 .. Len(a), NEW y \in 0 .. Len(b), x + y < k, ~IsSteady(g, x, y)
               PROVE  FALSE
    OBVIOUS
  <2>1. x + y \in Nat
    BY <1>1
  <2>2. x + y \in Bad
    BY <2>1
  <2>3. k \in Nat
    OBVIOUS
  <2> HIDE DEF Bad
  <2>4. k <= x + y
    BY <1>3, <2>2
  <2> QED
    BY <2>1, <2>3, <2>4
<1> HIDE DEF Bad
<1>filled. \A x \in 0 .. Len(a), y \in 0 .. Len(b) : g[<<x, y>>] = CellOf(g, a, b, x, y)
  BY CellsOfTable, Zenon
<1>6. \A x \in 0 .. Len(a), y \in 0 .. Len(b) : x = 0 \/ y = 0 => g[<<x, y>>] = 0
  <2> SUFFICES ASSUME NEW x \in 0 .. Len(a), NEW y \in 0 .. Len(b), x = 0 \/ y = 0
               PROVE  g[<<x, y>>] = 0
    OBVIOUS
  <2>1. g[<<x, y>>] = CellOf(g, a, b, x, y)
    BY <1>filled
  <2>2. CellOf(g, a, b, x, y) = 0
    BY Zenon DEF CellOf
  <2> QED
    BY <2>1, <2>2
<1>7. i \in Nat /\ j \in Nat
  BY <1>1
<1>8. CASE i = 0 \/ j = 0
  <2>1. g[<<i, j>>] = 0
    BY <1>6, <1>8
  <2>2. i # 0 => i - 1 \in 0 .. Len(a) /\ g[<<i - 1, j>>] = 0
    <3> HAVE i # 0
    <3>1. i - 1 \in 0 .. Len(a) /\ j = 0
      BY <1>1, <1>8
    <3> QED
      BY <1>6, <3>1
  <2>3. j # 0 => j - 1 \in 0 .. Len(b) /\ g[<<i, j - 1>>] = 0
    <3> HAVE j # 0
    <3>1. j - 1 \in 0 .. Len(b) /\ i = 0
      BY <1>1, <1>8
    <3> QED
      BY <1>6, <3>1
  <2> QED
    BY <1>4, <2>1, <2>2, <2>3 DEF IsSteady
<1>9. CASE i # 0 /\ j # 0
  <2>1. i - 1 \in 0 .. Len(a) /\ j - 1 \in 0 .. Len(b)
    BY <1>1, <1>9
  <2>2. i - 1 + j < k /\ i + (j - 1) < k /\ i - 1 + (j - 1) < k
    BY <1>4, <1>7
  <2>3. IsSteady(g, i - 1, j) /\ IsSteady(g, i, j - 1) /\ IsSteady(g, i - 1, j - 1)
    BY <1>5, <2>1, <2>2
  <2> DEFINE d == g[<<i - 1, j - 1>>]
             u == g[<<i - 1, j>>]
             l == g[<<i, j - 1>>]
  <2>4. /\ d \in Nat /\ u \in Nat /\ l \in Nat
        /\ d <= u /\ u <= d + 1 /\ d <= l /\ l <= d + 1
    BY <1>9, <2>3 DEF IsSteady
  <2>5. g[<<i, j>>] = IF a[i] = b[j] THEN d + 1 ELSE Max({u, l})
    BY <1>9, <1>filled DEF CellOf
  <2> HIDE DEF d, u, l
  <2>6. Max({u, l}) \in {u, l} /\ Max({u, l}) >= u /\ Max({u, l}) >= l
    <3>1. u \in Int /\ l \in Int
      BY <2>4
    <3> QED
      BY <3>1, LargerOfTwo, Zenon
  <2>7. /\ g[<<i, j>>] \in Nat
        /\ u <= g[<<i, j>>] /\ g[<<i, j>>] <= u + 1
        /\ l <= g[<<i, j>>] /\ g[<<i, j>>] <= l + 1
    BY <2>4, <2>5, <2>6
  <2> QED
    BY <1>4, <2>7 DEF IsSteady, u, l
<1> QED
  BY <1>8, <1>9

\* What a has in common with b and b with c, it has in common with c, up to the
\* lines of b that are counted twice.
LEMMA TablesMeet ==
  ASSUME NEW a, Len(a) \in Nat, NEW b, Len(b) \in Nat, NEW c, Len(c) \in Nat,
         NEW f, IsTable(f, a, b), NEW g, IsTable(g, b, c), NEW h, IsTable(h, a, c),
         NEW l \in 0 .. Len(a), NEW m \in 0 .. Len(b), NEW n \in 0 .. Len(c)
  PROVE  h[<<l, n>>] >= f[<<l, m>>] + g[<<m, n>>] - m
PROOF
<1> DEFINE Holds(i, j, k) == h[<<i, k>>] >= f[<<i, j>>] + g[<<j, k>>] - j
           Bad == {s \in Nat : \E i \in 0 .. Len(a), j \in 0 .. Len(b), k \in 0 .. Len(c) :
                                 i + j + k = s /\ ~Holds(i, j, k)}
<1>1. Len(a) \in Nat /\ Len(b) \in Nat /\ Len(c) \in Nat
  OBVIOUS
<1>2. SUFFICES ASSUME Bad # {} PROVE FALSE
  <2>1. l + m + n \in Nat
    BY <1>1
  <2> HIDE DEF Holds
  <2>2. Holds(l, m, n)
    BY <2>1
  <2> QED
    BY <2>2 DEF Holds
<1> HIDE DEF Holds
<1>3. PICK s \in Bad : \A t \in Bad : s <= t
  <2>1. Bad \subseteq Nat
    OBVIOUS
  <2> HIDE DEF Bad
  <2> QED
    BY <1>2, <2>1, LeastOfNaturals
<1>4. PICK i \in 0 .. Len(a), j \in 0 .. Len(b), k \in 0 .. Len(c) : i + j + k = s /\ ~Holds(i, j, k)
  OBVIOUS
<1>5. \A x \in 0 .. Len(a), y \in 0 .. Len(b), z \in 0 .. Len(c) : x + y + z < s => Holds(x, y, z)
  <2> SUFFICES ASSUME NEW x \in 0 .. Len(a), NEW y \in 0 .. Len(b), NEW z \in 0 .. Len(c),
                      x + y + z < s, ~Holds(x, y, z)
               PROVE  FALSE
    OBVIOUS
  <2>1. x + y + z \in Nat
    BY <1>1
  <2>2. x + y + z \in Bad
    BY <2>1
  <2>3. s \in Nat
    OBVIOUS
  <2> HIDE DEF Bad
  <2>4. s <= x + y + z
    BY <1>3, <2>2
  <2> QED
    BY <2>1, <2>3, <2>4
<1> HIDE DEF Bad
<1>6. i \in Nat /\ j \in Nat /\ k \in Nat
  BY <1>1
<1>7. IsSteady(f, i, j) /\ IsSteady(g, j, k) /\ IsSteady(h, i, k)
  BY TablesAreSteady
<1>8. /\ f[<<i, j>>] = CellOf(f, a, b, i, j)
      /\ g[<<j, k>>] = CellOf(g, b, c, j, k)
      /\ h[<<i, k>>] = CellOf(h, a, c, i, k)
  BY CellsOfTable
<1> DEFINE F == f[<<i, j>>]
           G == g[<<j, k>>]
           H == h[<<i, k>>]
<1>9. F \in Nat /\ G \in Nat /\ H \in Nat
  BY <1>7 DEF IsSteady
<1>10. ~(H >= F + G - j)
  BY <1>4 DEF Holds
<1>11. j # 0
  <2> SUFFICES ASSUME j = 0 PROVE FALSE
    OBVIOUS
  <2>1. F = 0 /\ G = 0
    BY <1>8 DEF CellOf
  <2> HIDE DEF F, G, H
  <2> QED
    BY <1>9, <1>10, <2>1
\* A line of b that neither text takes is a line less to be counted twice.
<1>12. ASSUME i = 0 \/ (f[<<i, j>>] = f[<<i, j - 1>>]) PROVE FALSE
  <2>1. j - 1 \in 0 .. Len(b) /\ i + (j - 1) + k < s
    BY <1>1, <1>4, <1>6, <1>11
  <2>2. IsSteady(f, i, j - 1) /\ IsSteady(g, j - 1, k)
    BY <2>1, TablesAreSteady
  <2>3. f[<<i, j>>] = f[<<i, j - 1>>]
    <3>1. f[<<i, j - 1>>] = CellOf(f, a, b, i, j - 1)
      BY <2>1, CellsOfTable
    <3>2. i = 0 => f[<<i, j>>] = 0 /\ f[<<i, j - 1>>] = 0
      BY <1>8, <3>1 DEF CellOf
    <3> QED
      BY <1>12, <3>2
  <2>4. H >= f[<<i, j - 1>>] + g[<<j - 1, k>>] - (j - 1)
    BY <1>5, <2>1 DEF Holds
  <2>5. G <= g[<<j - 1, k>>] + 1 /\ g[<<j - 1, k>>] \in Nat
    BY <1>7, <1>11, <2>2 DEF IsSteady
  <2> DEFINE E == g[<<j - 1, k>>]
  <2>6. H >= F + E - (j - 1) /\ G <= E + 1 /\ E \in Nat
    BY <2>3, <2>4, <2>5
  <2> HIDE DEF F, G, H, E
  <2> QED
    BY <1>6, <1>9, <1>10, <2>6
<1>13. ASSUME k = 0 \/ (g[<<j, k>>] = g[<<j - 1, k>>]) PROVE FALSE
  <2>1. j - 1 \in 0 .. Len(b) /\ i + (j - 1) + k < s
    BY <1>1, <1>4, <1>6, <1>11
  <2>2. IsSteady(f, i, j - 1) /\ IsSteady(g, j - 1, k)
    BY <2>1, TablesAreSteady
  <2>3. g[<<j, k>>] = g[<<j - 1, k>>]
    <3>1. g[<<j - 1, k>>] = CellOf(g, b, c, j - 1, k)
      BY <2>1, CellsOfTable
    <3>2. k = 0 => g[<<j, k>>] = 0 /\ g[<<j - 1, k>>] = 0
      BY <1>8, <3>1 DEF CellOf
    <3> QED
      BY <1>13, <3>2
  <2>4. H >= f[<<i, j - 1>>] + g[<<j - 1, k>>] - (j - 1)
    BY <1>5, <2>1 DEF Holds
  <2>5. F <= f[<<i, j - 1>>] + 1 /\ f[<<i, j - 1>>] \in Nat
    BY <1>7, <1>11, <2>2 DEF IsSteady
  <2> DEFINE E == f[<<i, j - 1>>]
  <2>6. H >= E + G - (j - 1) /\ F <= E + 1 /\ E \in Nat
    BY <2>3, <2>4, <2>5
  <2> HIDE DEF F, G, H, E
  <2> QED
    BY <1>6, <1>9, <1>10, <2>6
<1>14. i # 0 /\ k # 0
  BY <1>12, <1>13
<1>15. i - 1 \in 0 .. Len(a) /\ k - 1 \in 0 .. Len(c) /\ j - 1 \in 0 .. Len(b)
  BY <1>1, <1>11, <1>14
\* A line of a that b does not have, or of c, is missed by nobody.
<1>16. ASSUME f[<<i, j>>] = f[<<i - 1, j>>] PROVE FALSE
  <2>1. i - 1 + j + k < s
    BY <1>4, <1>6
  <2>2. h[<<i - 1, k>>] >= f[<<i - 1, j>>] + g[<<j, k>>] - j
    BY <1>5, <1>15, <2>1 DEF Holds
  <2>3. H >= h[<<i - 1, k>>] /\ h[<<i - 1, k>>] \in Nat
    <3>1. IsSteady(h, i - 1, k)
      BY <1>15, TablesAreSteady
    <3> QED
      BY <1>7, <1>14, <3>1 DEF IsSteady
  <2> DEFINE E == h[<<i - 1, k>>]
  <2>4. E >= F + G - j /\ H >= E /\ E \in Nat
    BY <1>16, <2>2, <2>3
  <2> HIDE DEF F, G, H, E
  <2> QED
    BY <1>6, <1>9, <1>10, <2>4
<1>17. ASSUME g[<<j, k>>] = g[<<j, k - 1>>] PROVE FALSE
  <2>1. i + j + (k - 1) < s
    BY <1>4, <1>6
  <2>2. h[<<i, k - 1>>] >= f[<<i, j>>] + g[<<j, k - 1>>] - j
    BY <1>5, <1>15, <2>1 DEF Holds
  <2>3. H >= h[<<i, k - 1>>] /\ h[<<i, k - 1>>] \in Nat
    <3>1. IsSteady(h, i, k - 1)
      BY <1>15, TablesAreSteady
    <3> QED
      BY <1>7, <1>14, <3>1 DEF IsSteady
  <2> DEFINE E == h[<<i, k - 1>>]
  <2>4. E >= F + G - j /\ H >= E /\ E \in Nat
    BY <1>17, <2>2, <2>3
  <2> HIDE DEF F, G, H, E
  <2> QED
    BY <1>6, <1>9, <1>10, <2>4
<1>18. a[i] = b[j]
  <2> SUFFICES ASSUME a[i] # b[j] PROVE FALSE
    OBVIOUS
  <2>1. F = Max({f[<<i - 1, j>>], f[<<i, j - 1>>]})
    BY <1>8, <1>11, <1>14 DEF CellOf
  <2>2. f[<<i - 1, j>>] \in Int /\ f[<<i, j - 1>>] \in Int
    <3>1. IsSteady(f, i - 1, j) /\ IsSteady(f, i, j - 1)
      BY <1>15, TablesAreSteady
    <3> QED
      BY <3>1 DEF IsSteady
  <2>3. F \in {f[<<i - 1, j>>], f[<<i, j - 1>>]}
    BY <2>1, <2>2, LargerOfTwo, Zenon
  <2> QED
    BY <1>12, <1>16, <2>3
<1>19. b[j] = c[k]
  <2> SUFFICES ASSUME b[j] # c[k] PROVE FALSE
    OBVIOUS
  <2>1. G = Max({g[<<j - 1, k>>], g[<<j, k - 1>>]})
    BY <1>8, <1>11, <1>14 DEF CellOf
  <2>2. g[<<j - 1, k>>] \in Int /\ g[<<j, k - 1>>] \in Int
    <3>1. IsSteady(g, j - 1, k) /\ IsSteady(g, j, k - 1)
      BY <1>15, TablesAreSteady
    <3> QED
      BY <3>1 DEF IsSteady
  <2>3. G \in {g[<<j - 1, k>>], g[<<j, k - 1>>]}
    BY <2>1, <2>2, LargerOfTwo, Zenon
  <2> QED
    BY <1>13, <1>17, <2>3
\* The three texts end with the same line, which each pair has in common.
<1>20. /\ F = f[<<i - 1, j - 1>>] + 1 /\ G = g[<<j - 1, k - 1>>] + 1 /\ H = h[<<i - 1, k - 1>>] + 1
  BY <1>8, <1>11, <1>14, <1>18, <1>19 DEF CellOf
<1>21. h[<<i - 1, k - 1>>] >= f[<<i - 1, j - 1>>] + g[<<j - 1, k - 1>>] - (j - 1)
  <2>1. i - 1 + (j - 1) + (k - 1) < s
    BY <1>4, <1>6
  <2> QED
    BY <1>5, <1>15, <2>1 DEF Holds
<1>22. f[<<i - 1, j - 1>>] \in Nat /\ g[<<j - 1, k - 1>>] \in Nat /\ h[<<i - 1, k - 1>>] \in Nat
  <2>1. IsSteady(f, i - 1, j - 1) /\ IsSteady(g, j - 1, k - 1) /\ IsSteady(h, i - 1, k - 1)
    BY <1>15, TablesAreSteady
  <2> QED
    BY <2>1 DEF IsSteady
<1> DEFINE X == f[<<i - 1, j - 1>>]
           Y == g[<<j - 1, k - 1>>]
           Z == h[<<i - 1, k - 1>>]
<1>23. F = X + 1 /\ G = Y + 1 /\ H = Z + 1 /\ Z >= X + Y - (j - 1) /\ X \in Nat /\ Y \in Nat /\ Z \in Nat
  BY <1>20, <1>21, <1>22
<1> HIDE DEF F, G, H, X, Y, Z
<1> QED
  BY <1>6, <1>10, <1>23

LEMMA CommonLinesMeet ==
  ASSUME NEW a, Len(a) \in Nat, NEW b, Len(b) \in Nat, NEW c, Len(c) \in Nat
  PROVE  /\ CommonLines(a, b) \in Nat /\ CommonLines(b, c) \in Nat /\ CommonLines(a, c) \in Nat
         /\ CommonLines(a, c) >= CommonLines(a, b) + CommonLines(b, c) - Len(b)
PROOF
<1> DEFINE T(x, y) == CHOOSE g : IsTable(g, x, y)
<1>1. IsTable(T(a, b), a, b) /\ IsTable(T(b, c), b, c) /\ IsTable(T(a, c), a, c)
  BY TablesExist
<1>2. /\ CommonLines(a, b) = T(a, b)[<<Len(a), Len(b)>>]
      /\ CommonLines(b, c) = T(b, c)[<<Len(b), Len(c)>>]
      /\ CommonLines(a, c) = T(a, c)[<<Len(a), Len(c)>>]
  BY TableIsChosen
<1>3. Len(a) \in 0 .. Len(a) /\ Len(b) \in 0 .. Len(b) /\ Len(c) \in 0 .. Len(c)
  OBVIOUS
<1> HIDE DEF T
<1>4. /\ IsSteady(T(a, b), Len(a), Len(b)) /\ IsSteady(T(b, c), Len(b), Len(c))
      /\ IsSteady(T(a, c), Len(a), Len(c))
  BY <1>1, <1>3, TablesAreSteady
<1>5. T(a, c)[<<Len(a), Len(c)>>] >= T(a, b)[<<Len(a), Len(b)>>] + T(b, c)[<<Len(b), Len(c)>>] - Len(b)
  BY <1>1, <1>3, TablesMeet
<1> QED
  BY <1>2, <1>4, <1>5 DEF IsSteady

(***************************************************************************)
(* Line counts.  What is counted of a file is its balance and no less than *)
(* its diff; each entry keeps that true, because of CommonLinesMeet.       *)
(***************************************************************************)
Shared(x, y) == CommonLines(SplitLines(x), SplitLines(y))

Accounts(d, before, after) ==
  /\ d.added \in Int /\ d.deleted \in Int
  /\ d.added - d.deleted = LineCount(after) - LineCount(before)
  /\ d.added >= LineCount(after) - Shared(before, after)

IsCounted(p) ==
  IF p \in DOMAIN report
  THEN IsFile(files[p]) /\ Accounts(report[p], start[p].text, files[p].text)
  ELSE files[p].text = start[p].text

CountInvariant ==
  /\ \A p \in Paths : files[p].kind # "file" => files[p].text = << >>
  /\ \A p \in Paths : IsCounted(p)

LEMMA LinesAreCounted ==
  ASSUME NEW t \in Texts
  PROVE  LineCount(t) \in Nat /\ Len(SplitLines(t)) = LineCount(t)
PROOF
<1>1. Len(t) \in Nat
  BY DEF Texts
<1>2. LineNo(t, Len(t)) \in Nat
  <2> DEFINE ends == {j \in 1 .. Len(t) - 1 : t[j] = LF}
  <2>1. IsFiniteSet(1 .. Len(t) - 1)
    <3>1. 1 \in Int /\ Len(t) - 1 \in Int
      BY <1>1
    <3> QED
      BY <3>1, FS_Interval
  <2>2. IsFiniteSet(ends)
    <3>1. ends \in SUBSET (1 .. Len(t) - 1)
      OBVIOUS
    <3> QED
      BY <2>1, <3>1, FS_Subset
  <2> HIDE DEF ends
  <2>3. Cardinality(ends) \in Nat
    BY <2>2, FS_CardinalityType
  <2> QED
    BY <2>3 DEF LineNo, ends
<1>3. LineCount(t) \in Nat
  BY <1>2 DEF LineCount
<1>4. SplitLines(t) = [k \in 1 .. LineCount(t) |-> Span(t, WordsAt(t, k))]
  BY DEF SplitLines
<1> QED
  BY <1>3, <1>4

LEMMA SharedMeet ==
  ASSUME NEW x \in Texts, NEW y \in Texts, NEW z \in Texts
  PROVE  /\ Shared(x, y) \in Nat /\ Shared(y, z) \in Nat /\ Shared(x, z) \in Nat
         /\ Shared(x, z) >= Shared(x, y) + Shared(y, z) - LineCount(y)
PROOF
<1> DEFINE a == SplitLines(x)
           b == SplitLines(y)
           c == SplitLines(z)
<1>1. Len(a) \in Nat /\ Len(b) \in Nat /\ Len(c) \in Nat /\ Len(b) = LineCount(y)
  BY LinesAreCounted
<1> HIDE DEF a, b, c
<1>2. /\ CommonLines(a, b) \in Nat /\ CommonLines(b, c) \in Nat /\ CommonLines(a, c) \in Nat
      /\ CommonLines(a, c) >= CommonLines(a, b) + CommonLines(b, c) - Len(b)
  BY <1>1, CommonLinesMeet
<1> QED
  BY <1>1, <1>2 DEF Shared, a, b, c

\* What difflib may find of a change.
LEMMA FoundLines ==
  ASSUME NEW before \in Texts, NEW after \in Texts, NEW d \in LineDiffs(before, after)
  PROVE  \E found \in Nat : /\ found <= Shared(before, after)
                            /\ d.added = LineCount(after) - found
                            /\ d.deleted = LineCount(before) - found
PROOF
<1>1. Shared(before, after) \in Nat
  BY SharedMeet
<1>2. PICK found \in 0 .. Shared(before, after) :
        d = [added |-> LineCount(after) - found, deleted |-> LineCount(before) - found]
  BY DEF LineDiffs, Shared
<1>3. found \in Nat /\ found <= Shared(before, after)
  BY <1>1
<1> QED
  BY <1>2, <1>3

LEMMA DiffCovers ==
  ASSUME NEW before \in Texts, NEW after \in Texts, NEW d \in LineDiffs(before, after)
  PROVE  Accounts(d, before, after)
PROOF
<1>1. LineCount(before) \in Nat /\ LineCount(after) \in Nat
  BY LinesAreCounted
<1>2. Shared(before, after) \in Nat
  BY SharedMeet
<1>3. PICK found \in Nat : /\ found <= Shared(before, after)
                          /\ d.added = LineCount(after) - found
                          /\ d.deleted = LineCount(before) - found
  BY FoundLines
<1> QED
  BY <1>1, <1>2, <1>3 DEF Accounts

LEMMA DiffsCover ==
  ASSUME NEW first \in Texts, NEW before \in Texts, NEW after \in Texts,
         NEW d, Accounts(d, first, before), NEW diff \in LineDiffs(before, after), NEW e,
         e.added = d.added + diff.added, e.deleted = d.deleted + diff.deleted
  PROVE  Accounts(e, first, after)
PROOF
<1>1. LineCount(first) \in Nat /\ LineCount(before) \in Nat /\ LineCount(after) \in Nat
  BY LinesAreCounted
<1>2. /\ Shared(first, before) \in Nat /\ Shared(before, after) \in Nat
      /\ Shared(first, after) \in Nat
      /\ Shared(first, after) >= Shared(first, before) + Shared(before, after) - LineCount(before)
  BY SharedMeet
<1>3. PICK found \in Nat : /\ found <= Shared(before, after)
                          /\ diff.added = LineCount(after) - found
                          /\ diff.deleted = LineCount(before) - found
  BY FoundLines
<1>4. /\ d.added \in Int /\ d.deleted \in Int
      /\ d.added - d.deleted = LineCount(before) - LineCount(first)
      /\ d.added >= LineCount(before) - Shared(first, before)
  BY DEF Accounts
<1>5. /\ e.added \in Int /\ e.deleted \in Int
      /\ e.added - e.deleted = LineCount(after) - LineCount(first)
      /\ e.added >= LineCount(after) - Shared(first, after)
  <2> DEFINE k == LineCount(first)
             m == LineCount(before)
             n == LineCount(after)
             a == Shared(first, before)
             b == Shared(before, after)
             c == Shared(first, after)
             da == d.added
             dd == d.deleted
             ea == e.added
             ed == e.deleted
  <2>1. /\ k \in Nat /\ m \in Nat /\ n \in Nat /\ a \in Nat /\ b \in Nat /\ c \in Nat
        /\ c >= a + b - m /\ found <= b
        /\ da \in Int /\ dd \in Int /\ da - dd = m - k /\ da >= m - a
        /\ ea = da + (n - found) /\ ed = dd + (m - found)
    BY <1>1, <1>2, <1>3, <1>4
  <2> HIDE DEF k, m, n, a, b, c, da, dd, ea, ed
  <2>2. ea \in Int /\ ed \in Int /\ ea - ed = n - k /\ ea >= n - c
    BY <2>1
  <2> QED
    BY <2>2 DEF k, m, n, a, b, c, da, dd, ea, ed
<1> QED
  BY <1>5 DEF Accounts

LEMMA TextsAreTexts ==
  ASSUME MatTypeOK, NEW p \in Paths
  PROVE  files[p].text \in Texts /\ start[p].text \in Texts
PROOF
BY DEF MatTypeOK, Entry

\* Directories that are made have no lines, and neither had what was there.
LEMMA MadeIsCounted ==
  ASSUME MatTypeOK, CountInvariant, NEW base, MadeOf(base), NEW q \in Paths
  PROVE  /\ base[q].text = files[q].text
         /\ base[q].kind # "file" => base[q].text = << >>
         /\ IsFile(files[q]) => base[q] = files[q]
PROOF
<1>1. base[q] = files[q] \/ (~IsFile(files[q]) /\ base[q] = Directory)
  BY DEF MadeOf
<1>2. files[q].kind # "file" => files[q].text = << >>
  BY DEF CountInvariant
<1>3. ~IsFile(files[q]) => files[q].kind # "file"
  BY DEF IsFile
<1>4. Directory.text = << >>
  BY DEF Directory
<1> QED
  BY <1>1, <1>2, <1>3, <1>4

\* Unless a write has failed.
Counted == step # "escaped" => CountInvariant

LEMMA CountInitially == Init => Counted
PROOF
<1> SUFFICES ASSUME Init PROVE CountInvariant
  BY DEF Counted
<1>1. \A p \in Paths : files[p].kind # "file" => files[p] \in {Missing, Directory, Binary}
  BY MaterializationAssumption DEF Init
<1>2. Missing.text = << >> /\ Directory.text = << >> /\ Binary.text = << >>
  BY DEF Missing, Directory, Binary
<1>3. \A p \in Paths : IsCounted(p)
  BY DEF Init, IsCounted
<1> QED
  BY <1>1, <1>2, <1>3 DEF CountInvariant

LEMMA ChangeIsCounted ==
  ASSUME MatTypeOK, CountInvariant, NEW p \in Paths, NEW base, MadeOf(base), NEW text \in Texts,
         files' = [base EXCEPT ![p] = File(text)], start' = start,
         \/ Reads(p, text) /\ report' = report
         \/ RecordChangedFile(p, files[p].text, text)
  PROVE  CountInvariant'
PROOF
<1>1. /\ files'[p] = File(text)
      /\ \A q \in Paths : q # p => files'[q] = base[q]
  BY DEF MadeOf
<1>2. \A q \in Paths : IsCounted(q)
  BY DEF CountInvariant
<1>3. File(text).kind = "file" /\ File(text).text = text /\ IsFile(File(text))
  BY DEF File, IsFile
<1>4. ASSUME NEW q \in Paths PROVE files'[q].kind # "file" => files'[q].text = << >>
  BY <1>1, <1>3, MadeIsCounted
<1>5. ASSUME NEW q \in Paths, q # p PROVE IsCounted(q)'
  <2>1. q \in DOMAIN report' <=> q \in DOMAIN report
    BY <1>5 DEF RecordChangedFile
  <2>2. q \in DOMAIN report => report'[q] = report[q]
    BY <1>5 DEF RecordChangedFile
  <2>3. files'[q].text = files[q].text /\ (IsFile(files[q]) => files'[q] = files[q])
    BY <1>1, <1>5, MadeIsCounted
  <2>4. IsCounted(q)
    BY <1>2
  <2>5. CASE q \in DOMAIN report
    <3>1. files'[q] = files[q] /\ IsFile(files[q]) /\ Accounts(report[q], start[q].text, files[q].text)
      BY <2>3, <2>4, <2>5 DEF IsCounted
    <3> QED
      BY <2>1, <2>2, <2>5, <3>1 DEF IsCounted, IsFile, Accounts
  <2>6. CASE q \notin DOMAIN report
    BY <2>1, <2>3, <2>4, <2>6 DEF IsCounted
  <2> QED
    BY <2>5, <2>6
<1>6. IsCounted(p)'
  <2>1. files[p].text \in Texts /\ start[p].text \in Texts
    BY TextsAreTexts
  <2>2. CASE Reads(p, text) /\ report' = report
    <3>1. files'[p].text = files[p].text /\ IsFile(files'[p])
      BY <1>1, <1>3, <2>2 DEF Reads
    <3>2. IsCounted(p)
      BY <1>2
    <3> QED
      BY <2>2, <3>1, <3>2 DEF IsCounted, IsFile, Accounts
  <2>3. CASE RecordChangedFile(p, files[p].text, text)
    <3>1. PICK diff \in LineDiffs(files[p].text, text) :
          /\ p \in DOMAIN report'
          /\ p \notin DOMAIN report => report'[p] = diff
          /\ p \in DOMAIN report =>
               /\ report'[p].added = report[p].added + diff.added
               /\ report'[p].deleted = report[p].deleted + diff.deleted
      BY <2>3 DEF RecordChangedFile
    <3>2. Accounts(report'[p], start[p].text, text)
      <4>1. CASE p \notin DOMAIN report
        <5>1. files[p].text = start[p].text
          BY <1>2, <4>1 DEF IsCounted
        <5> QED
          BY <2>1, <3>1, <4>1, <5>1, DiffCovers
      <4>2. CASE p \in DOMAIN report
        <5>1. Accounts(report[p], start[p].text, files[p].text)
          BY <1>2, <4>2 DEF IsCounted
        <5> QED
          BY <2>1, <3>1, <4>2, <5>1, DiffsCover
      <4> QED
        BY <4>1, <4>2
    <3>3. Accounts(report[p], start[p].text, files[p].text)' <=> Accounts(report'[p], start[p].text, text)
      BY <1>1, <1>3 DEF Accounts
    <3>4. IsFile(files[p])'
      BY <1>1, <1>3 DEF IsFile
    <3> QED
      BY <3>1, <3>2, <3>3, <3>4 DEF IsCounted
  <2> QED
    BY <2>2, <2>3
<1> QED
  BY <1>4, <1>5, <1>6 DEF CountInvariant

\* Steps that change no file and no count.
LEMMA CountsKept ==
  ASSUME CountInvariant, UNCHANGED <<files, start, report>>
  PROVE  CountInvariant'
PROOF
BY DEF CountInvariant, IsCounted, IsFile, Accounts

LEMMA CountStep ==
  DiffInvariant /\ Counted /\ [Next]_matVars => Counted'
PROOF
<1> SUFFICES ASSUME DiffInvariant, Counted, [Next]_matVars, step' # "escaped"
             PROVE  CountInvariant'
  BY DEF Counted
<1>0. step # "escaped" /\ CountInvariant
  <2>1. step # "escaped"
    BY DEF Next, ParsePlan, RejectPlan, MakeDirectory, WriteFile, PatchFile, SkipPatch,
           PassOverDropped, NextEntries, FailPlan, FinishPlan, FileSystemFails, AtEntry,
           AtEndOf, matVars
  <2> QED
    BY <2>1 DEF Counted
<1>1. MatTypeOK
  BY DEF DiffInvariant
<1>2. CASE MakeDirectory
  <2>1. PICK D : CanMake(D) /\ files' = WithDirectories(D)
    BY <1>2 DEF MakeDirectory
  <2>2. UNCHANGED <<start, report>>
    BY <1>2 DEF MakeDirectory
  <2>3. MadeOf(files')
    BY <1>1, <2>1, DirectoriesMade
  <2>4. \A q \in Paths : IsCounted(q)' /\ (files'[q].kind # "file" => files'[q].text = << >>)
    <3> TAKE q \in Paths
    <3>1. /\ files'[q].text = files[q].text
          /\ files'[q].kind # "file" => files'[q].text = << >>
          /\ IsFile(files[q]) => files'[q] = files[q]
      BY <1>0, <1>1, <2>3, MadeIsCounted
    <3>2. IsCounted(q)
      BY <1>0 DEF CountInvariant
    <3>3. IsCounted(q)'
      BY <2>2, <3>1, <3>2 DEF IsCounted, IsFile, Accounts
    <3> QED
      BY <3>1, <3>3
  <2> QED
    BY <2>4 DEF CountInvariant
<1>3. CASE WriteFile
  <2> DEFINE p    == Target[plan.writes[next].name]
             text == plan.writes[next].text
             base == WithDirectories(Ancestors[p])
  <2>1. /\ next \in DOMAIN plan.writes /\ CanMake(Ancestors[p])
        /\ files' = [base EXCEPT ![p] = File(text)] /\ start' = start
        /\ \/ Reads(p, text) /\ report' = report
           \/ RecordChangedFile(p, files[p].text, text)
    BY <1>3 DEF WriteFile, AtEntry, Entries, Reads
  <2>2. p \in Paths /\ text \in Texts
    BY <1>1, <2>1, EntriesAreTyped
  <2>3. MadeOf(base)
    BY <1>1, <2>1, DirectoriesMade
  <2> HIDE DEF p, text, base
  <2> QED
    BY <1>0, <1>1, <2>1, <2>2, <2>3, ChangeIsCounted
<1>4. CASE PatchFile
  <2> DEFINE patch == plan.patches[next]
             p     == Target[patch.name]
  <2>1. PICK text \in PatchedTexts(p, files[p].text, patch) :
          /\ files' = [files EXCEPT ![p] = File(text)]
          /\ IF files[p].text = text THEN report' = report
             ELSE RecordChangedFile(p, files[p].text, text)
    BY <1>4 DEF PatchFile
  <2>2. next \in DOMAIN plan.patches /\ files[p].kind = "file" /\ start' = start
    BY <1>4 DEF PatchFile, AtEntry, Entries
  <2>3. p \in Paths /\ patch \in Patches
    BY <1>1, <2>2, EntriesAreTyped
  <2>4. MadeOf(files) /\ files \in [Paths -> Entry]
    BY <1>1 DEF MadeOf, MatTypeOK
  <2> HIDE DEF patch, p
  <2>5. files[p] \in Entry
    BY <2>3, <2>4
  <2>6. text \in Texts
    BY <2>1, <2>3, <2>5, PatchedIsText DEF Entry
  <2>7. \/ Reads(p, text) /\ report' = report
        \/ RecordChangedFile(p, files[p].text, text)
    BY <2>1, <2>2 DEF Reads
  <2> QED
    BY <1>0, <1>1, <2>1, <2>2, <2>3, <2>4, <2>6, <2>7, ChangeIsCounted
<1>5. CASE UNCHANGED <<files, start, report>>
  BY <1>0, <1>5, CountsKept
<1>6. \/ MakeDirectory \/ WriteFile \/ PatchFile \/ UNCHANGED <<files, start, report>>
  BY DEF Next, ParsePlan, RejectPlan, SkipPatch, PassOverDropped, NextEntries, FailPlan,
         FinishPlan, FileSystemFails, matVars
<1> QED
  BY <1>2, <1>3, <1>4, <1>5, <1>6

(* DeltasBoundTheDiff: for any plan, however many of its entries change a  *)
(* file and whatever they match, and whatever blocks difflib finds, the    *)
(* counts _record_changed_file adds up have the balance of the change of   *)
(* the lines splitlines returns and are no less than their smallest diff.  *)
THEOREM DeltaSafety == MaterializationSpec => []DeltasBoundTheDiff
PROOF
<1>1. ASSUME DiffInvariant, Counted PROVE DeltasBoundTheDiff
  <2> SUFFICES ASSUME step # "escaped", NEW p \in DOMAIN report
               PROVE  LET whole == LineDiff(start[p].text, files[p].text) IN
                      /\ report[p].added - report[p].deleted = whole.added - whole.deleted
                      /\ report[p].added >= whole.added /\ report[p].deleted >= whole.deleted
    BY DEF DeltasBoundTheDiff
  <2>1. MatTypeOK /\ p \in Paths /\ CountInvariant
    BY <1>1 DEF DiffInvariant, MatTypeOK, Counted
  <2> DEFINE x == start[p].text
             y == files[p].text
  <2>2. x \in Texts /\ y \in Texts
    BY <2>1, TextsAreTexts
  <2>3. Accounts(report[p], x, y)
    BY <2>1 DEF CountInvariant, IsCounted
  <2> HIDE DEF x, y
  <2>4. LineCount(x) \in Nat /\ LineCount(y) \in Nat
    BY <2>2, LinesAreCounted
  <2>5. Shared(x, y) \in Nat
    BY <2>2, SharedMeet
  <2>6. /\ LineDiff(x, y).added = LineCount(y) - Shared(x, y)
        /\ LineDiff(x, y).deleted = LineCount(x) - Shared(x, y)
    BY DEF LineDiff, Shared
  <2>7. /\ report[p].added \in Int /\ report[p].deleted \in Int
        /\ report[p].added - report[p].deleted = LineCount(y) - LineCount(x)
        /\ report[p].added >= LineCount(y) - Shared(x, y)
    BY <2>3 DEF Accounts
  <2> DEFINE m == LineCount(x)
             n == LineCount(y)
             c == Shared(x, y)
             a == report[p].added
             d == report[p].deleted
             wa == LineDiff(x, y).added
             wd == LineDiff(x, y).deleted
  <2>8. /\ m \in Nat /\ n \in Nat /\ c \in Nat /\ wa = n - c /\ wd = m - c
        /\ a \in Int /\ d \in Int /\ a - d = n - m /\ a >= n - c
    BY <2>4, <2>5, <2>6, <2>7
  <2> HIDE DEF m, n, c, a, d, wa, wd
  <2>9. a - d = wa - wd /\ a >= wa /\ d >= wd
    BY <2>8
  <2> QED
    BY <2>9 DEF a, d, wa, wd, x, y
<1> QED
  BY <1>1, DiffInitially, DiffStep, CountInitially, CountStep, PTL DEF MaterializationSpec
=============================================================================
