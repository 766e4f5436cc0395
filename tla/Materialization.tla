-------------------------- MODULE Materialization --------------------------
(***************************************************************************)
(* From a model response to changed files: _parse_autonomous_plan and      *)
(* _apply_autonomous_plan (src/higgs_agent/runtime.py), the "plan" and     *)
(* "apply" steps of AutonomousTicket in full.  A text is a sequence of     *)
(* words of one length and of line feeds, which are tokens like the words: *)
(* str.count, str.replace and the final newline mean what they mean in the *)
(* code.  A name is a path as the response spells it, of which several may *)
(* mean one path of the repository.                                        *)
(***************************************************************************)
EXTENDS Integers, Sequences, SequencesExt, FiniteSetsExt

CONSTANTS
  Words,          \* what stands between line feeds
  LF,             \* the line feed
  Paths,          \* paths below the repository root
  Names,          \* path texts of a response, as _normalize_relative_path leaves them
  Target,         \* name -> path, the work of _normalize_repo_relative_path
  Ancestors,      \* path -> its ancestors below the root
  Structured,     \* paths with a suffix that forbids fuzzy patches
  InitialFiles,   \* the workspaces a plan may be applied to
  Responses       \* the plans a model may answer with

\* text is what read_text returns: it shows every line ending as a line feed,
\* whichever the file has.  Responses are taken to spell line ends as LF.
Texts   == Seq(Words \cup {LF})
Entry   == [kind : {"missing", "directory", "binary", "file"}, text : Texts,
            ends : {"lf", "crlf"}]
Patches == [name : Names, before : Texts \ {<< >>}, after : Texts]
Plans   == [directories : Seq(Names),
            writes      : Seq([name : Names, text : Texts]),
            patches     : Seq(Patches)]

Missing    == [kind |-> "missing", text |-> << >>, ends |-> "lf"]
Directory  == [kind |-> "directory", text |-> << >>, ends |-> "lf"]
Binary     == [kind |-> "binary", text |-> << >>, ends |-> "lf"]
File(text) == [kind |-> "file", text |-> text, ends |-> "lf"]   \* as write_text leaves it

ASSUME MaterializationAssumption ==
  /\ LF \notin Words
  /\ Target \in [Names -> Paths]
  /\ Ancestors \in [Paths -> SUBSET Paths]
  /\ \A p \in Paths : p \notin Ancestors[p]
  /\ Structured \subseteq Paths
  /\ InitialFiles \subseteq [Paths -> Entry]
  /\ \A w \in InitialFiles, p \in Paths : w[p].kind # "file" => w[p] \in {Missing, Directory, Binary}
  /\ Responses \subseteq Plans

VARIABLES
  files,     \* path -> entry of the file system
  start,     \* the workspace before the plan, for the properties
  plan,      \* the AutonomousPlan
  step,      \* parse | directories | writes | patches | applied | failed | escaped
  next,      \* index of the entry to be applied next
  report,    \* changed_files: path -> lines added and deleted
  events     \* the file events appended to the stream

matVars == <<files, start, plan, step, next, report, events>>

Init ==
  /\ files \in InitialFiles
  /\ start = files
  /\ plan \in Responses
  /\ step = "parse" /\ next = 1
  /\ report = [p \in {} |-> [added |-> 0, deleted |-> 0]]
  /\ events = << >>

(***************************************************************************)
(* Parsing.                                                                *)
(***************************************************************************)

\* _coalesce_autonomous_patches drops a patch that is the same as an earlier one:
\* it stays in the plan here, and the loop over the patches passes over it.
Dropped(i) == \E j \in 1 .. i - 1 : plan.patches[j] = plan.patches[i]

\* _reject_duplicate_materialization_paths compares the names.
DeclaresDuplicates(response) ==
  \/ ~IsInjective(response.directories)
  \/ ~IsInjective([i \in DOMAIN response.writes |-> response.writes[i].name])

Rejected(response) ==
  \/ DeclaresDuplicates(response)
  \/ response.directories = << >> /\ response.writes = << >> /\ response.patches = << >>

ParsePlan ==
  /\ step = "parse" /\ ~Rejected(plan)
  /\ step' = "directories"
  /\ UNCHANGED <<files, start, plan, next, report, events>>

\* RuntimeConfigError before anything is written.
RejectPlan ==
  /\ step = "parse" /\ Rejected(plan)
  /\ step' = "failed"
  /\ UNCHANGED <<files, start, plan, next, report, events>>

(***************************************************************************)
(* Applying.  The file system refuses with an OSError, and an entry that   *)
(* is no text with a UnicodeDecodeError: neither is a RuntimeConfigError,  *)
(* so that both leave _apply_autonomous_plan and its callers half way.     *)
(***************************************************************************)
IsFile(entry) == entry.kind \in {"file", "binary"}

\* mkdir(parents=True, exist_ok=True) of every path of D.
CanMake(D) == \A p \in D : ~IsFile(files[p])
WithDirectories(D) == [p \in Paths |-> IF p \in D THEN Directory ELSE files[p]]

Entries(kind) == CASE kind = "directories" -> plan.directories
                   [] kind = "writes" -> plan.writes [] OTHER -> plan.patches
AtEntry(kind)  == /\ step = kind /\ next \in DOMAIN Entries(kind)
                  /\ ~(kind = "patches" /\ Dropped(next))
AtEndOf(kind)  == step = kind /\ next \notin DOMAIN Entries(kind)

MakeDirectory ==
  /\ AtEntry("directories")
  /\ LET p == Target[plan.directories[next]] IN
       /\ CanMake(Ancestors[p] \cup {p})
       /\ files' = WithDirectories(Ancestors[p] \cup {p})
  /\ next' = next + 1
  /\ UNCHANGED <<start, plan, step, report, events>>

\* The part of the text t from the first to the last position of S.
Span(t, S) == IF S = {} THEN << >> ELSE SubSeq(t, Min(S), Max(S))

\* splitlines: a line feed ends the line it stands in.
LineNo(t, i)  == 1 + Cardinality({j \in 1 .. i - 1 : t[j] = LF})
LineCount(t)  == IF t = << >> THEN 0 ELSE LineNo(t, Len(t))
WordsAt(t, k) == {i \in DOMAIN t : LineNo(t, i) = k /\ t[i] # LF}
SplitLines(t) == [k \in 1 .. LineCount(t) |-> Span(t, WordsAt(t, k))]

\* The most lines both have in common, in order.
CommonLines(a, b) ==
  LET common[at \in (0 .. Len(a)) \X (0 .. Len(b))] ==
        LET i == at[1]  j == at[2] IN
        IF i = 0 \/ j = 0 THEN 0
        ELSE IF a[i] = b[j] THEN common[<<i - 1, j - 1>>] + 1
        ELSE Max({common[<<i - 1, j>>], common[<<i, j - 1>>]})
  IN  common[<<Len(a), Len(b)>>]

\* The smallest diff, of the lines splitlines returns.
LineDiff(before, after) ==
  LET common == CommonLines(SplitLines(before), SplitLines(after)) IN
  [added |-> LineCount(after) - common, deleted |-> LineCount(before) - common]

\* What _line_diff_stats may count: difflib takes the longest block of common
\* lines first, and may so find fewer than all, though not none.  A change of
\* the final line feed alone has no line added and none deleted.
LineDiffs(before, after) ==
  LET lines  == SplitLines(before)
      common == CommonLines(lines, SplitLines(after))
  IN  {[added |-> LineCount(after) - found, deleted |-> LineCount(before) - found] :
         found \in {n \in 0 .. common : /\ common > 0 => n > 0
                                       /\ lines = SplitLines(after) => n = common}}

\* Mutant: the diff of the last change replaces that of the earlier ones.
RecordLastChange(p, before, after) ==
  \E diff \in LineDiffs(before, after) :
    report' = [q \in DOMAIN report \cup {p} |-> IF q = p THEN diff ELSE report[q]]

\* _record_changed_file adds the diff to what is known of the path.
RecordChangedFile(p, before, after) ==
  \E diff \in LineDiffs(before, after) :
    report' = [q \in DOMAIN report \cup {p} |->
                 IF q # p THEN report[q]
                 ELSE IF p \notin DOMAIN report THEN diff
                 ELSE [added   |-> report[p].added + diff.added,
                       deleted |-> report[p].deleted + diff.deleted]]

Note(type, p) == events' = Append(events, [type |-> type, path |-> p])

\* Mutant: a write that leaves the length alone is taken for no change.
WriteFileComparingLengths ==
  /\ AtEntry("writes")
  /\ LET p    == Target[plan.writes[next].name]
         text == plan.writes[next].text
         Same == files[p] # Missing /\ Len(files[p].text) = Len(text)
     IN  /\ CanMake(Ancestors[p])
         /\ files[p].kind \in {"missing", "file"}
         /\ files' = [WithDirectories(Ancestors[p]) EXCEPT ![p] = File(text)]
         /\ IF Same THEN UNCHANGED <<report, events>>
            ELSE RecordChangedFile(p, files[p].text, text) /\ Note("file.written", p)
  /\ next' = next + 1
  /\ UNCHANGED <<start, plan, step>>

\* A whole file is written; a content that reads the same is no change, and is
\* written over the old one all the same.
WriteFile ==
  /\ AtEntry("writes")
  /\ LET p    == Target[plan.writes[next].name]
         text == plan.writes[next].text
     IN  /\ CanMake(Ancestors[p])
         /\ files[p].kind \in {"missing", "file"}
         /\ files' = [WithDirectories(Ancestors[p]) EXCEPT ![p] = File(text)]
         /\ IF files[p].kind = "file" /\ files[p].text = text THEN UNCHANGED <<report, events>>
            ELSE RecordChangedFile(p, files[p].text, text) /\ Note("file.written", p)
  /\ next' = next + 1
  /\ UNCHANGED <<start, plan, step>>

(***************************************************************************)
(* Patches: one exact match, or the whole file, or a fuzzy window.         *)
(***************************************************************************)
Window(text, i, n)   == SubSeq(text, i, i + n - 1)
Replaced(text, i, n, after) == SubSeq(text, 1, i - 1) \o after \o SubSeq(text, i + n, Len(text))
Starts(text, n)      == 1 .. Len(text) - n + 1

\* Where str.count finds the text, once per disjoint occurrence.
Matches(text, before) ==
  {i \in Starts(text, Len(before)) : Window(text, i, Len(before)) = before}
MatchesOnce(text, before) ==
  LET found == Matches(text, before) IN
  found # {} /\ \A i, j \in found : j - i < Len(before)

\* _strip_single_trailing_newline
EndsWithLF(t) == t # << >> /\ t[Len(t)] = LF
Unended(t)    == IF EndsWithLF(t) THEN SubSeq(t, 1, Len(t) - 1) ELSE t
Ended(t)      == IF t = << >> \/ EndsWithLF(t) THEN t ELSE Append(t, LF)

MatchesExactly(text, before) == MatchesOnce(text, before) \/ Unended(text) = Unended(before)

\* str.strip, of texts whose only space is the line feed.
Stripped(t) == Span(t, {i \in DOMAIN t : t[i] # LF})

\* _allow_fuzzy_patch: under six tenths of the file, two lines unique in it.
Anchors(text, before) ==
  {line \in ToSet(SplitLines(before)) \ {<< >>} :
     Cardinality({k \in 1 .. LineCount(text) : SplitLines(text)[k] = line}) = 1}
AllowsFuzzy(p, text, before) ==
  /\ p \notin Structured
  /\ \/ Stripped(text) = << >> \/ Stripped(before) = << >>
     \/ 10 * Len(Stripped(before)) < 6 * Len(Stripped(text))
  /\ Cardinality(Anchors(text, before)) >= 2

\* The lines k to k + n - 1 of a text, with their line feeds.
LinesFrom(text, k, n) == Span(text, {i \in DOMAIN text : LineNo(text, i) \in k .. k + n - 1})

\* The first lines of the windows _try_fuzzy_patch may settle on.  Windows with
\* one normalized text have one ratio, so that none of them has the margin to
\* the second best; a window that has the text of the patch has the best ratio.
FuzzyWindows(text, before) ==
  LET n       == LineCount(before)
      all     == 1 .. Max({1, LineCount(text) - n + 1})
      alike   == {k \in all : Stripped(LinesFrom(text, k, n)) = Stripped(before)}
      best    == IF alike # {} THEN alike ELSE all
  IN  {k \in best : \A l \in all \ {k} :
         Stripped(LinesFrom(text, k, n)) # Stripped(LinesFrom(text, l, n))}

\* The lines k to k + n - 1 give way to those of after; the result ends with a
\* line feed when the file did or after does.
FuzzyReplaced(text, k, n, after) ==
  LET lines == LinesFrom(text, 1, k - 1) \o Ended(after)
                 \o Ended(LinesFrom(text, k + n, LineCount(text)))
  IN  IF ~EndsWithLF(text) /\ ~EndsWithLF(after) THEN Unended(lines)
      ELSE IF lines = << >> THEN <<LF>> ELSE lines

\* The texts _apply_autonomous_patch may make of a file; none when it must skip.
PatchedTexts(p, text, patch) ==
  IF MatchesOnce(text, patch.before)
  THEN {Replaced(text, Min(Matches(text, patch.before)), Len(patch.before), patch.after)}
  ELSE IF MatchesExactly(text, patch.before) THEN {patch.after}
  ELSE IF AllowsFuzzy(p, text, patch.before)
  THEN {FuzzyReplaced(text, k, LineCount(patch.before), patch.after) :
          k \in FuzzyWindows(text, patch.before)}
  ELSE {}

PatchFile ==
  /\ AtEntry("patches")
  /\ LET patch == plan.patches[next]
         p     == Target[patch.name]
     IN  /\ files[p].kind = "file"
         /\ \E text \in PatchedTexts(p, files[p].text, patch) :
              /\ files' = [files EXCEPT ![p] = File(text)]
              /\ IF files[p].text = text THEN UNCHANGED <<report, events>>
                 ELSE RecordChangedFile(p, files[p].text, text) /\ Note("file.patched", p)
  /\ next' = next + 1
  /\ UNCHANGED <<start, plan, step>>

\* The target is missing, has drifted, is ambiguous, or no window is good enough.
SkipPatch ==
  /\ AtEntry("patches")
  /\ LET patch == plan.patches[next]
         p     == Target[patch.name]
     IN  /\ \/ files[p].kind = "missing"
            \/ files[p].kind = "file" /\ ~MatchesExactly(files[p].text, patch.before)
         /\ Note("file.patch_skipped", p)
  /\ next' = next + 1
  /\ UNCHANGED <<files, start, plan, step, report>>

PassOverDropped ==
  /\ step = "patches" /\ next \in DOMAIN plan.patches /\ Dropped(next)
  /\ next' = next + 1
  /\ UNCHANGED <<files, start, plan, step, report, events>>

\* The loops over directories and writes are done.
NextEntries ==
  /\ \/ AtEndOf("directories") /\ step' = "writes"
     \/ AtEndOf("writes") /\ step' = "patches"
  /\ next' = 1
  /\ UNCHANGED <<files, start, plan, report, events>>

ChangedNothing == plan.patches # << >> /\ DOMAIN report = {}

\* Mutant: one skipped patch makes the whole plan a failure.
FailOnAnySkip ==
  /\ AtEndOf("patches")
  /\ \E i \in DOMAIN events : events[i].type = "file.patch_skipped"
  /\ step' = "failed"
  /\ UNCHANGED <<files, start, plan, next, report, events>>

\* RuntimeConfigError: "patches could not be materialized into workspace changes".
FailPlan ==
  /\ AtEndOf("patches") /\ ChangedNothing
  /\ step' = "failed"
  /\ UNCHANGED <<files, start, plan, next, report, events>>

\* The change set goes to validation and to the write gate.
FinishPlan ==
  /\ AtEndOf("patches") /\ ~ChangedNothing
  /\ step' = "applied"
  /\ UNCHANGED <<files, start, plan, next, report, events>>

\* Directories of D, made from the root down, until one cannot be made.
PartlyMade(D) == {made \in SUBSET D : CanMake(made) /\ \A d \in made : Ancestors[d] \subseteq made}

\* An OSError of mkdir or a read, or a UnicodeDecodeError: always possible (a
\* full disk, a lost permission) and certain where no other action is.
FailBeforeWriting ==
  /\ \/ /\ AtEntry("directories")
        /\ LET p == Target[plan.directories[next]] IN
             \E made \in PartlyMade(Ancestors[p] \cup {p}) : files' = WithDirectories(made)
     \/ /\ AtEntry("writes")
        /\ \E made \in PartlyMade(Ancestors[Target[plan.writes[next].name]]) :
             files' = WithDirectories(made)
     \/ AtEntry("patches") /\ UNCHANGED files

\* An OSError of write_text, which truncates the file before it writes: some
\* beginning of the new text is in the file, none of it in the change set.
FailWhileWriting ==
  \/ /\ AtEntry("writes")
     /\ LET p == Target[plan.writes[next].name] IN
        /\ CanMake(Ancestors[p])
        /\ files[p].kind \in {"missing", "file"}
        /\ \E torn \in Prefixes(plan.writes[next].text) :
             files' = [WithDirectories(Ancestors[p]) EXCEPT ![p] = File(torn)]
  \/ /\ AtEntry("patches")
     /\ LET patch == plan.patches[next]
            p     == Target[patch.name]
        IN  /\ files[p].kind = "file"
            /\ \E text \in PatchedTexts(p, files[p].text, patch) : \E torn \in Prefixes(text) :
                 files' = [files EXCEPT ![p] = File(torn)]

FileSystemFails ==
  /\ FailBeforeWriting \/ FailWhileWriting
  /\ step' = "escaped"
  /\ UNCHANGED <<start, plan, next, report, events>>

Next ==
  \/ ParsePlan \/ RejectPlan
  \/ MakeDirectory \/ WriteFile \/ PatchFile \/ SkipPatch \/ PassOverDropped
  \/ NextEntries \/ FailPlan \/ FinishPlan \/ FileSystemFails

MaterializationSpec == Init /\ [][Next]_matVars

(***************************************************************************)
(* Properties.                                                             *)
(***************************************************************************)
\* What read_text shows of an entry.
Shown(entry) == [kind |-> entry.kind, text |-> entry.text]
Differs(p)   == IsFile(files[p]) /\ Shown(files[p]) # Shown(start[p])
Unreported   == {p \in Paths : Differs(p)} \ DOMAIN report

(* The change set the gate judges is the diff of the workspace, of texts   *)
(* as read_text returns them: every file that differs from the start is in *)
(* it, and the event stream names the same paths, whichever entries were   *)
(* skipped, repeated or aliased.  Line ends are no part of such a text: a  *)
(* CRLF file written over with the text it has compares equal.  An error of*)
(* the file system leaves at most one file that differs behind unrecorded, *)
(* and a refused plan none.                                                *)
DiffIsReported ==
  /\ step # "escaped" => Unreported = {}
  /\ \A p, q \in Unreported : p = q
  /\ DOMAIN report = {e.path : e \in {e \in ToSet(events) : e.type # "file.patch_skipped"}}
  /\ step = "failed" => \A p \in Paths : ~Differs(p)

(* The line counts the gate adds up are never too small for the lines that *)
(* splitlines sees: over several entries for one file they have the balance*)
(* of its whole change, and are no less than its smallest diff.            *)
DeltasBoundTheDiff ==
  step # "escaped" => \A p \in DOMAIN report :
    LET whole == LineDiff(start[p].text, files[p].text) IN
    /\ report[p].added - report[p].deleted = whole.added - whole.deleted
    /\ report[p].added >= whole.added /\ report[p].deleted >= whole.deleted

\* What a change set promises, of the texts of files: directories are not in it.
Planned == {Target[plan.writes[i].name] : i \in DOMAIN plan.writes} \cup
           {Target[plan.patches[i].name] : i \in DOMAIN plan.patches}
Promise == INSTANCE ChangeSet
             WITH content <- [p \in Paths |-> Shown(IF IsFile(files[p]) THEN files[p] ELSE Missing)],
                  planned <- Planned,
                  changed <- IF step = "escaped" THEN {} ELSE DOMAIN report,
                  phase   <- CASE step = "applied" -> "admitted" [] step = "failed" -> "refused"
                               [] step = "escaped" -> "broken" [] OTHER -> "open"

(* Each step of the materialization is a step of the change set that the   *)
(* gate, the session and the reviewers build on.                           *)
ImplementsChangeSet == Promise!Spec
=============================================================================
