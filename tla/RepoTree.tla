------------------------------ MODULE RepoTree ------------------------------
(***************************************************************************)
(* The working tree as the two analysis tools read it.                     *)
(*                                                                         *)
(* lib/analyzer.py: get_file_info(path) runs `git diff HEAD -- path` with  *)
(* a 5 s timeout and counts the '+' and '-' lines of its output            *)
(* (parse_git_diff), falls back to the file's line count when git fails,   *)
(* and attributes the path to a module (infer_module, the first of         *)
(* MODULE_PATTERNS found in the path) and a language (detect_language).    *)
(*                                                                         *)
(* lib/index_generator.py: update_docs_index walks the tree               *)
(* (_build_tree_entries: directories first, then files, each by lower-case *)
(* name, skipping _should_ignore), renders docs/INDEX.md and writes it     *)
(* unless it is unchanged.                                                 *)
(*                                                                         *)
(* A path is a sequence of segments; a segment is a sequence of atoms, the *)
(* pieces of its name that the patterns and suffixes tell apart (the file  *)
(* name "guide.MD" is <<"guide", ".MD">>, the directory "mydocs" is        *)
(* <<"my", "docs">>).  A file's content is a sequence of lines, each line  *)
(* given by the class of its first two characters.  The user edits,       *)
(* deletes, stages and commits files between the tools' calls.             *)
(***************************************************************************)
EXTENDS Naturals, FiniteSets, SequencesExt, TLC

CONSTANTS
    Paths,        \* the files that can exist in the working tree
    Contents,     \* the contents a file can be given
    Tree0,        \* the checkout: Paths -> Contents \cup {Absent}
    HeadCases,    \* whether the repository has a commit: a subset of BOOLEAN
    SegRank,      \* segment -> Nat: the order of name.lower()
    IndexPath,    \* docs/INDEX.md
    MaxSteps,     \* bound on the user's edits and git commands
    Absent, NoEst

\* The class of a line by its first characters: "++" and "--" start with
\* two pluses or minuses, "x" with anything else.
LineClasses == {"x", "++", "--"}

ASSUME /\ \A c \in Contents : c \in Seq(LineClasses)
       /\ HeadCases \subseteq BOOLEAN /\ HeadCases # {}
       /\ MaxSteps \in Nat

VARIABLES
    work,      \* the working tree: path -> content, or Absent
    head,      \* the content committed in HEAD, or Absent
    hasHead,   \* the repository has a commit (HEAD resolves)
    staged,    \* new files added to the git index, not yet committed
    docIndex,  \* the entries docs/INDEX.md lists, or Absent
    est,       \* the last get_file_info result (with the spec's answer)
    steps

vars == <<work, head, hasHead, staged, docIndex, est, steps>>

Name(seg) == FoldLeft(LAMBDA acc, a : acc \o a, "", seg)

-----------------------------------------------------------------------------
(* Classifier: infer_module and detect_language.                          *)

\* MODULE_PATTERNS, each pattern split at '/'; a trailing '/' leaves an
\* empty last piece.  The labels of the last five rules are Chinese in the
\* code (脚本, 文档, 测试) and are given in English here.
ModulePatterns == <<
    [pat |-> <<"aoem", "crates", "core", "aoem-core">>, module |-> "aoem-core"],
    [pat |-> <<"aoem", "crates", "cc", "aoem-cc">>, module |-> "aoem-cc"],
    [pat |-> <<"aoem", "crates", "state-kv">>, module |-> "aoem-state-kv"],
    [pat |-> <<"src", "gpu-executor">>, module |-> "gpu-executor"],
    [pat |-> <<"src", "vm-runtime">>, module |-> "vm-runtime"],
    [pat |-> <<"src", "l2-executor">>, module |-> "l2-executor"],
    [pat |-> <<"src", "defi-core">>, module |-> "defi-core"],
    [pat |-> <<"src", "domain-registry">>, module |-> "domain-registry"],
    [pat |-> <<"plugins", "evm-linker">>, module |-> "evm-linker"],
    [pat |-> <<"plugins", "bitcoin-linker">>, module |-> "bitcoin-linker"],
    [pat |-> <<"plugins", "solana-linker">>, module |-> "solana-linker"],
    [pat |-> <<"scripts", "">>, module |-> "Scripts"],
    [pat |-> <<"docs", "">>, module |-> "Docs"],
    [pat |-> <<"tests", "">>, module |-> "Tests"],
    [pat |-> <<".github", "">>, module |-> "CI/CD"] >>

\* re.search(pattern, path): the first piece ends a segment, the middle
\* pieces are whole segments, the last piece begins the next segment (an
\* empty last piece only needs the '/').
Found(path, pat) ==
    LET k == Len(pat) IN
    \E i \in 1..(Len(path) - k + 1) :
        /\ Last(path[i]) = pat[1]
        /\ \A j \in 2..(k - 1) : path[i + j - 1] = <<pat[j]>>
        /\ pat[k] = "" \/ Head(path[i + k - 1]) = pat[k]

RECURSIVE FirstRule(_, _)
\* The for loop over MODULE_PATTERNS: index of the first pattern found at
\* or after i, or Len + 1.
FirstRule(path, i) ==
    IF i > Len(ModulePatterns) \/ Found(path, ModulePatterns[i].pat)
    THEN i
    ELSE FirstRule(path, i + 1)

\* infer_module: the first rule's label, else the first segment of a path
\* with a directory, else 未分类 ("Uncategorized").
InferModule(path) ==
    LET i == FirstRule(path, 1) IN
    IF i <= Len(ModulePatterns) THEN ModulePatterns[i].module
    ELSE IF Len(path) > 1 THEN Name(path[1])
    ELSE "Uncategorized"

\* The extension atoms and their lower case.
Lower == [e \in {".rs", ".RS", ".md", ".MD", ".py", ".txt", ".log", ".yml",
                 ".db", ".lock", ".LOCK"} |->
              CASE e = ".RS" -> ".rs" [] e = ".MD" -> ".md" [] e = ".LOCK" -> ".lock"
                [] OTHER -> e]

\* Path(...).suffix: the last atom of the name when it is an extension and
\* not the whole name (".github" has no suffix).
Suffix(seg) ==
    IF Len(seg) > 1 /\ Last(seg) \in DOMAIN Lower THEN Last(seg) ELSE ""

LowerSuffix(seg) == IF Suffix(seg) = "" THEN "" ELSE Lower[Suffix(seg)]

LanguageMap ==
    [e \in {".rs", ".ts", ".js", ".py", ".md", ".toml", ".json", ".yaml",
            ".yml", ".sol", ".go"} |->
        CASE e = ".rs" -> "Rust" [] e = ".ts" -> "TypeScript"
          [] e = ".js" -> "JavaScript" [] e = ".py" -> "Python"
          [] e = ".md" -> "Markdown" [] e = ".toml" -> "TOML"
          [] e = ".json" -> "JSON" [] e \in {".yaml", ".yml"} -> "YAML"
          [] e = ".sol" -> "Solidity" [] e = ".go" -> "Go"]

\* detect_language: LANGUAGE_MAP.get(suffix.lower(), 'Unknown').
DetectLanguage(path) ==
    LET e == LowerSuffix(Last(path)) IN
    IF e \in DOMAIN LanguageMap THEN LanguageMap[e] ELSE "Unknown"

-----------------------------------------------------------------------------
(* The watcher's filter: watcher.should_ignore over IGNORE_PATTERNS.       *)

\* IGNORE_PATTERNS: the names matched anywhere in the lower-cased path, and
\* the '*'-patterns matched at its end.
IgnoreContains == {".git", "node_modules", "target", "__pycache__", ".vscode",
                   ".idea", "cargo-target-supervm"}
IgnoreEndings == {".log", ".db", ".lock"}

\* should_ignore(path): `pattern in path_lower` holds when the pattern is
\* one of the path's atoms (an atom stands for text in which a pattern
\* occurs only as the atom itself); path_lower.endswith(ext) when the last
\* atom, lower-cased, is the extension.
WatcherIgnores(path) ==
    \/ \E j \in DOMAIN path : \E a \in ToSet(path[j]) : a \in IgnoreContains
    \/ LET a == Last(Last(path))
       IN  a \in DOMAIN Lower /\ Lower[a] \in IgnoreEndings

-----------------------------------------------------------------------------
(* Estimator: git diff HEAD, parse_git_diff, analyze_complexity.          *)

\* A line of git's output: its first character and the class of the rest.
OutLine(mark, rest) == [mark |-> mark, rest |-> rest]

\* The subsequence of s at the index set I.
Pick(s, I) == [k \in 1..Cardinality(I) |->
                  s[CHOOSE j \in I : Cardinality({m \in I : m <= j}) = k]]

\* The common subsequences of a and b, as pairs of index sets.
Commons(a, b) ==
    {ij \in (SUBSET DOMAIN a) \X (SUBSET DOMAIN b) :
        Cardinality(ij[1]) = Cardinality(ij[2]) /\ Pick(a, ij[1]) = Pick(b, ij[2])}

LCSLen(a, b) == Max({Cardinality(ij[1]) : ij \in Commons(a, b)})

\* The bodies git's diff can print from a to b: one per longest common
\* subsequence kept as context, the rest of a removed, the rest of b added.
Bodies(a, b) ==
    {   [k \in 1..Len(a) - Cardinality(ij[1]) |->
            OutLine("-", Pick(a, DOMAIN a \ ij[1])[k])]
     \o [k \in 1..Len(b) - Cardinality(ij[2]) |->
            OutLine("+", Pick(b, DOMAIN b \ ij[2])[k])]
     : ij \in {c \in Commons(a, b) : Cardinality(c[1]) = LCSLen(a, b)}}

\* "diff --git", "index" (or "new file mode"/"deleted file mode"), then
\* "--- a/p" and "+++ b/p" (/dev/null for a new or deleted side), "@@".
DiffHeader ==
    <<OutLine("d", "x"), OutLine("i", "x"), OutLine("-", "--"),
      OutLine("+", "++"), OutLine("@", "x")>>

\* The stdouts `git diff HEAD -- p` can print (exit status 0): nothing for
\* a file git does not track or an unchanged one; otherwise the header and
\* a body against HEAD's version (empty for a new file in the index) and
\* the working copy (empty for a deleted file).
DiffOutputs(p) ==
    LET tracked == head[p] # Absent \/ p \in staged
        old == IF head[p] = Absent THEN <<>> ELSE head[p]
        new == IF work[p] = Absent THEN <<>> ELSE work[p]
    IN  IF ~tracked \/ (work[p] # Absent /\ old = new /\ head[p] # Absent)
        THEN {<<>>}
        ELSE {DiffHeader \o b : b \in Bodies(old, new)}

StartsPlus(l) == l.mark = "+"
StartsTriplePlus(l) == l.mark = "+" /\ l.rest = "++"
StartsMinus(l) == l.mark = "-"
StartsTripleMinus(l) == l.mark = "-" /\ l.rest = "--"

CountOf(out, Test(_)) ==
    FoldLeft(LAMBDA n, l : IF Test(l) THEN n + 1 ELSE n, 0, out)

\* Mutant of ParseDiff: one header line of each sign assumed and taken off
\* the counts.
ParseDiff_minusHeader(out) ==
    <<CountOf(out, StartsPlus) - 1, CountOf(out, StartsMinus) - 1>>

\* Mutant of ParseDiff: the '+++' and '---' header test left out.
ParseDiff_countHeaders(out) ==
    <<CountOf(out, StartsPlus), CountOf(out, StartsMinus)>>

\* parse_git_diff's loop over result.stdout.splitlines().
ParseDiff(out) ==
    <<CountOf(out, LAMBDA l : StartsPlus(l) /\ ~StartsTriplePlus(l)),
      CountOf(out, LAMBDA l : StartsMinus(l) /\ ~StartsTripleMinus(l))>>

\* parse_git_diff when git finishes within its timeout: a non-zero exit
\* status (HEAD does not resolve in a repository without commits) counts
\* the lines of the file if it exists, else the output is parsed.  (A
\* TimeoutExpired, like any exception, gives (0, 0): see Estimate.)
ParseGitDiff(p) ==
    IF hasHead THEN {ParseDiff(o) : o \in DiffOutputs(p)}
    ELSE IF work[p] # Absent THEN {<<Len(work[p]), 0>>} ELSE {<<0, 0>>}

\* analyze_complexity.
AnalyzeComplexity(added, removed) ==
    LET total == added + removed IN
    IF total < 10 THEN "LOW" ELSE IF total < 50 THEN "MEDIUM" ELSE "HIGH"

-----------------------------------------------------------------------------
(* Docs index: _should_ignore, _sorted_entries, _build_tree_entries.      *)

\* The files on disk: the working tree and, once written, docs/INDEX.md.
TreeFiles(w, idx) ==
    {p \in Paths : w[p] # Absent} \cup (IF idx = Absent THEN {} ELSE {IndexPath})

Dirs(F) == UNION {{SubSeq(p, 1, k) : k \in 1..(Len(p) - 1)} : p \in F}

Children(F, d) ==
    {n \in F \cup Dirs(F) : Len(n) = Len(d) + 1 /\ SubSeq(n, 1, Len(d)) = d}

IgnoreDirs == {".git", "node_modules", "target", "__pycache__", ".vscode",
               ".idea", "cargo-target-supervm"}
IgnoreFiles == {".DS_Store"}
IgnoreSuffixes == {".log"}
IgnorePathPrefixes == {<<"tools", "work-logger", "data">>,
                       <<"tools", "work-logger", "lib", "__pycache__">>}

\* rel.startswith(prefix) on the '/'-joined relative path: the pieces
\* before the last are whole segments, the last begins a segment.
StartsWithPieces(n, pre) ==
    LET k == Len(pre) IN
    /\ Len(n) >= k
    /\ \A j \in 1..(k - 1) : n[j] = <<pre[j]>>
    /\ Head(n[k]) = pre[k]

\* _should_ignore.
ShouldIgnore(F, n) ==
    \/ n = IndexPath
    \/ \E pre \in IgnorePathPrefixes : StartsWithPieces(n, pre)
    \/ n \in Dirs(F) /\ Name(Last(n)) \in IgnoreDirs
    \/ n \in F /\ Name(Last(n)) \in IgnoreFiles
    \/ n \in F /\ LowerSuffix(Last(n)) \in IgnoreSuffixes

ByName(S) == SetToSortSeq(S, LAMBDA a, b : SegRank[Last(a)] < SegRank[Last(b)])

\* Mutant of SortedEntries: files listed before directories.
SortedEntries_filesFirst(F, d) ==
    LET C == {n \in Children(F, d) : ~ShouldIgnore(F, n)}
    IN  ByName(C \cap F) \o ByName(C \cap Dirs(F))

\* _sorted_entries (dirs, then files, each by name.lower()) with the
\* _should_ignore filter of _build_tree_entries.
SortedEntries(F, d) ==
    LET C == {n \in Children(F, d) : ~ShouldIgnore(F, n)}
    IN  ByName(C \cap Dirs(F)) \o ByName(C \cap F)

RECURSIVE WalkEntries(_, _)
\* The loop of _build_tree_entries over a directory's entries: each entry,
\* and after a directory the entries of its own walk.
WalkEntries(F, s) ==
    IF s = <<>> THEN <<>>
    ELSE << Head(s) >>
         \o (IF Head(s) \in Dirs(F) THEN WalkEntries(F, SortedEntries(F, Head(s)))
             ELSE <<>>)
         \o WalkEntries(F, Tail(s))

\* _render_index's entries below the root line, as relative paths (the
\* tree glyphs, purposes and timestamps are formatting).
Render(F) == WalkEntries(F, SortedEntries(F, <<>>))

-----------------------------------------------------------------------------
(* The user and git between the tools' calls, and the tools' calls.       *)

\* A checkout (HEAD holds Tree0) or a repository without commits.
Init ==
    /\ hasHead \in HeadCases
    /\ work = Tree0
    /\ head = IF hasHead THEN Tree0 ELSE [p \in Paths |-> Absent]
    /\ staged = {}
    /\ docIndex = Absent
    /\ est = NoEst
    /\ steps = 0

UserStep == steps < MaxSteps /\ steps' = steps + 1

\* The user creates or rewrites a file.
Write(p, c) ==
    /\ UserStep /\ work[p] # c
    /\ work' = [work EXCEPT ![p] = c]
    /\ UNCHANGED <<head, hasHead, staged, docIndex, est>>

\* The user deletes a file.
DeleteFile(p) ==
    /\ UserStep /\ work[p] # Absent
    /\ work' = [work EXCEPT ![p] = Absent]
    /\ UNCHANGED <<head, hasHead, staged, docIndex, est>>

\* `git add` of a new file.
GitAdd(p) ==
    /\ UserStep /\ work[p] # Absent /\ head[p] = Absent /\ p \notin staged
    /\ staged' = staged \cup {p}
    /\ UNCHANGED <<work, head, hasHead, docIndex, est>>

\* `git commit -a`: tracked and staged files take their working content.
GitCommit ==
    /\ UserStep
    /\ head' = [p \in Paths |-> IF head[p] # Absent \/ p \in staged
                                THEN work[p] ELSE Absent]
    /\ hasHead' = TRUE
    /\ staged' = {}
    /\ UNCHANGED <<work, docIndex, est>>

\* get_file_info(p), called by the watcher's flush for the path of an event
\* _process_event did not drop (the generated index is not in Paths):
\* git diff within its timeout, or TimeoutExpired and (0, 0); then the
\* module, the language and the complexity of the counts.
Estimate(p) ==
    /\ ~WatcherIgnores(p)
    /\ \E timedOut \in BOOLEAN :
       \E got \in (IF timedOut THEN {<<0, 0>>} ELSE ParseGitDiff(p)) :
          est' = [path |-> p, timedOut |-> timedOut,
                  prior |-> hasHead /\ head[p] # Absent,
                  old |-> IF head[p] = Absent THEN <<>> ELSE head[p],
                  new |-> work[p], got |-> got,
                  module |-> InferModule(p), language |-> DetectLanguage(p),
                  complexity |-> AnalyzeComplexity(got[1], got[2])]
    /\ UNCHANGED <<work, head, hasHead, staged, docIndex, steps>>

\* update_docs_index: render the tree and write docs/INDEX.md unless the
\* file holds the same text (the rendering carries the current second, so
\* equal entries are rewritten in a later second: the same entries).
UpdateDocsIndex ==
    /\ docIndex' = Render(TreeFiles(work, docIndex))
    /\ UNCHANGED <<work, head, hasHead, staged, est, steps>>

Next ==
    \/ \E p \in Paths, c \in Contents : Write(p, c)
    \/ \E p \in Paths : DeleteFile(p) \/ GitAdd(p) \/ Estimate(p)
    \/ GitCommit
    \/ UpdateDocsIndex

\* Safety only: the tools run when the watcher calls them.
Spec == Init /\ [][Next]_vars

-----------------------------------------------------------------------------

TypeOK ==
    /\ work \in [Paths -> Contents \cup {Absent}]
    /\ head \in [Paths -> Contents \cup {Absent}]
    /\ hasHead \in BOOLEAN /\ staged \subseteq Paths
    /\ docIndex = Absent \/ docIndex \in Seq(UNION {Dirs(Paths), Paths})
    /\ est = NoEst \/ est.got \in Nat \X Nat

\* Spec section 4.2: the counts of a textual diff of the last committed
\* version and the working copy; a file without a committed version counts
\* all its lines as added; a missing file, or a failed or timed-out diff,
\* gives (0, 0).
EstimateSpec(e) ==
    IF e.timedOut \/ e.new = Absent THEN <<0, 0>>
    ELSE IF e.prior THEN <<Len(e.new) - LCSLen(e.old, e.new),
                          Len(e.old) - LCSLen(e.old, e.new)>>
    ELSE <<Len(e.new), 0>>

\* get_file_info returns the line counts spec section 4.2 defines.  About
\* parse_git_diff's exit-status test (git exits 0 for an untracked file),
\* its '+++'/'---' header filter, and a deleted file's diff.
EstimateMatchesSpec == est # NoEst => est.got = EstimateSpec(est)

\* For a file that exists, get_file_info never reports more added or more
\* removed lines than the diff of its committed version has (all lines
\* added when there is none); when it has a committed version and the
\* diff did not time out, it reports them exactly if no line of either
\* version starts with "++" or "--".  About the header filter of
\* parse_git_diff, which must drop the "+++ b/..." and "--- a/..." lines
\* and nothing else.
CountsNeverInflated ==
    est # NoEst /\ est.new # Absent =>
        LET want == EstimateSpec(est)
            plain == \A l \in ToSet(est.old) \cup ToSet(est.new) : l = "x"
        IN  /\ est.got[1] <= want[1] /\ est.got[2] <= want[2]
            /\ plain /\ est.prior /\ ~est.timedOut => est.got = want

\* n comes before m in a depth-first listing of the tree whose directories
\* are D, with directories before files and names in lower-case order
\* among siblings.
Precedes(D, n, m) ==
    \/ Len(n) < Len(m) /\ SubSeq(m, 1, Len(n)) = n
    \/ \E k \in 1..Min({Len(n), Len(m)}) :
          /\ SubSeq(n, 1, k - 1) = SubSeq(m, 1, k - 1) /\ n[k] # m[k]
          /\ LET a == SubSeq(n, 1, k)  b == SubSeq(m, 1, k) IN
             \/ a \in D /\ b \notin D
             \/ (a \in D <=> b \in D) /\ SegRank[n[k]] < SegRank[m[k]]

\* docs/INDEX.md, each time it is written, lists every file and directory
\* of the tree that neither is ignored nor lies in an ignored directory,
\* each once, in depth-first order, directories before files.  About the
\* recursion of _build_tree_entries, _sorted_entries and _should_ignore.
IndexListsTree ==
    [][docIndex' # docIndex =>
         LET F == TreeFiles(work, docIndex)
             D == Dirs(F)
             Ignored == {n \in F \cup D : ShouldIgnore(F, n)}
             Shown == {n \in F \cup D :
                         \A k \in 1..Len(n) : SubSeq(n, 1, k) \notin Ignored}
         IN  /\ ToSet(docIndex') = Shown
             /\ Len(docIndex') = Cardinality(Shown)
             /\ \A i, j \in DOMAIN docIndex' :
                   i < j => Precedes(D, docIndex'[i], docIndex'[j])]_vars

=============================================================================
