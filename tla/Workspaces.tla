----------------------------- MODULE Workspaces ------------------------------
(***************************************************************************)
(* The members of the workspaces a repository declares, those that hold    *)
(* changed files, and which files of a directory the commands analyse.  A  *)
(* path is a sequence of names, a name a sequence of pieces, with a        *)
(* leading dot a piece of its own; a root is [files, dirs]: the manifests  *)
(* by name (<<>> for one that does not parse), and the directories that    *)
(* exist.  Line-wise manifests are sequences of trimmed lines.             *)
(***************************************************************************)
EXTENDS Integers, SequencesExt, FiniteSetsExt, TLC

Star == <<"*">>
DoubleStar == <<"**">>

\* The directories a pattern matches.
expand_glob(root, pattern) ==
    LET Matches(dir) ==
            /\ Len(dir) = Len(pattern)
            /\ \A i \in DOMAIN pattern : pattern[i] = Star \/ pattern[i] = dir[i]
    IN  SetToSeq({dir \in root.dirs : Matches(dir)})

Member(path) == [name |-> Last(path), path |-> path]

\* A pattern that matches nothing stands for itself, shortened.
Expanded(root, pattern, Short(_)) ==
    LET expanded == expand_glob(root, pattern)
    IN  IF expanded = <<>> THEN <<Member(Short(pattern))>>
        ELSE [i \in DOMAIN expanded |-> Member(expanded[i])]
ExpandedAll(root, patterns, Short(_)) ==
    FlattenSeq([i \in DOMAIN patterns |-> Expanded(root, patterns[i], Short)])

Whole(pattern) == pattern
RECURSIVE WithoutTrailing(_, _)
WithoutTrailing(pattern, name) ==
    IF Len(pattern) > 1 /\ Last(pattern) = name THEN WithoutTrailing(Front(pattern), name) ELSE pattern

\* A workspace without members is none.
Found(kind, members) == IF members = <<>> THEN <<>> ELSE <<[kind |-> kind, members |-> members]>>

\* Lines are "open", "close", "path" and "use", a path on the same line as its
\* directive, or others; within a block every line but a comment is a path.
detect_go_work(root) ==
    LET Read(state, line) ==
            CASE line.is = "open" -> [state EXCEPT !.in_use_block = TRUE]
              [] line.is = "close" -> [state EXCEPT !.in_use_block = FALSE]
              [] line.is = "path" /\ state.in_use_block -> [state EXCEPT !.members = Append(@, Member(line.path))]
              [] line.is = "use" /\ ~state.in_use_block -> [state EXCEPT !.members = Append(@, Member(line.path))]
              [] OTHER -> state
    IN  IF "go.work" \notin DOMAIN root.files THEN <<>>
        ELSE Found("go-work", FoldLeft(Read, [in_use_block |-> FALSE, members |-> <<>>], root.files["go.work"]).members)

Table(root, name, key) ==
    IF name \in DOMAIN root.files /\ key \in DOMAIN root.files[name] THEN <<root.files[name][key]>> ELSE <<>>

\* One member that is no text and there is no workspace.
detect_rust_cargo(root) ==
    LET members == Table(root, "Cargo.toml", "members")
    IN  IF members = <<>> \/ (\E i \in DOMAIN members[1] : members[1][i] = <<>>) THEN <<>>
        ELSE Found("rust-cargo", ExpandedAll(root, members[1], Whole))

\* The list itself, or the one under `packages`.
detect_js_package_json(root) ==
    LET workspaces == Table(root, "package.json", "workspaces") \o Table(root, "package.json", "packages")
        Short(pattern) == WithoutTrailing(pattern, Star)
    IN  IF workspaces = <<>> THEN <<>>
        ELSE Found("js-package-json", ExpandedAll(root, SelectSeq(workspaces[1], LAMBDA p : p # <<>>), Short))

\* Any key ends the list, a comment or a blank line does not.
detect_pnpm_workspace(root) ==
    LET Short(pattern) == WithoutTrailing(WithoutTrailing(pattern, Star), DoubleStar)
        Read(state, line) ==
            CASE line.is = "packages" -> [state EXCEPT !.in_packages = TRUE]
              [] line.is = "key" -> [state EXCEPT !.in_packages = FALSE]
              [] line.is = "item" /\ state.in_packages ->
                     [state EXCEPT !.members = @ \o Expanded(root, line.path, Short)]
              [] OTHER -> state
    IN  IF "pnpm-workspace.yaml" \notin DOMAIN root.files THEN <<>>
        ELSE Found("pnpm-workspace",
                   FoldLeft(Read, [in_packages |-> FALSE, members |-> <<>>], root.files["pnpm-workspace.yaml"]).members)

\* Poetry's packages count where chaffra's own list is missing.
detect_python_pyproject(root) ==
    LET members_val == Table(root, "pyproject.toml", "chaffra") \o Table(root, "pyproject.toml", "poetry")
    IN  IF members_val = <<>> THEN <<>>
        ELSE Found("python-pyproject", ExpandedAll(root, SelectSeq(members_val[1], LAMBDA p : p # <<>>), Whole))

\* An include names one project or several; the colons of a name are its path.
detect_java_gradle(root) ==
    LET file == IF "settings.gradle" \in DOMAIN root.files THEN "settings.gradle" ELSE "settings.gradle.kts"
        Includes(line) ==
            IF line.is # "include" THEN <<>>
            ELSE LET named == SelectSeq(line.projects, LAMBDA p : p # <<>>)
                 IN  [i \in DOMAIN named |-> [name |-> named[i], path |-> named[i]]]
    IN  IF file \notin DOMAIN root.files THEN <<>>
        ELSE Found("java-gradle",
                   FlattenSeq([i \in DOMAIN root.files[file] |-> Includes(root.files[file][i])]))

detect_workspaces(root) ==
    detect_go_work(root) \o detect_rust_cargo(root) \o detect_js_package_json(root)
    \o detect_pnpm_workspace(root) \o detect_python_pyproject(root) \o detect_java_gradle(root)

\* One text begins with another: `a/b` also begins `a/bc/d`.
StartsWith(file, path) ==
    /\ Len(path) <= Len(file)
    /\ \A i \in 1..(Len(path) - 1) : path[i] = file[i]
    /\ IsPrefix(path[Len(path)], file[Len(path)])

changed_workspaces(workspace, changed_files) ==
    SelectSeq(workspace.members, LAMBDA m : \E f \in changed_files : StartsWith(f, m.path))

-----------------------------------------------------------------------------
(* Discovery.  A file is [path, ext, cicd, readable], an ignore pattern     *)
(* [is, path]: "plain" text, "below" for path/**, "ext" for a star before   *)
(* an ending.                                                               *)

Files == INSTANCE Languages

DEFAULT_IGNORE_DIRS ==
    {<<".", "git">>, <<"node_modules">>, <<"vendor">>, <<"__pycache__">>, <<".", "mypy_cache">>,
     <<".", "pytest_cache">>, <<"target">>, <<"dist">>, <<"build">>, <<".", "venv">>, <<"venv">>}

\* The lines of an ignore file that are neither blank nor begin with #; a file
\* that is missing ignores nothing.
load_ignore_file(files, filename) ==
    IF filename \notin DOMAIN files THEN {}
    ELSE {l.pattern : l \in {l \in ToSet(files[filename]) : l.is \notin {"blank", "comment"}}}

load_all_ignore_patterns(files, config_ignores) ==
    config_ignores \cup load_ignore_file(files, ".gitignore") \cup load_ignore_file(files, ".chafframeignore")

\* A star also stands for several names; a path with a bare slash at its end, as
\* .gitignore writes directories, is "slashed" and matches nothing.
is_ignored(path, ext, patterns) ==
    \E p \in patterns :
        \/ p.is = "plain" /\ p.path = path
        \/ p.is = "below" /\ IsPrefix(p.path, path)
        \/ p.is = "ext" /\ p.ext = ext

Parent(path) == Front(path)
Inside(files, dir) == {f \in files : Parent(f.path) = dir}
Subdirs(files, dir) == {SubSeq(f.path, 1, Len(dir) + 1) : f \in {f \in files : IsPrefix(dir, f.path) /\ Len(f.path) > Len(dir) + 1}}

RECURSIVE walk_dir(_, _, _)
walk_dir(files, dir, patterns) ==
    {f \in Inside(files, dir) :
        ~is_ignored(f.path, f.ext, patterns) /\ Files!from_extension(f.ext) \in Files!Languages}
    \cup UNION {walk_dir(files, d, patterns) :
                   d \in {d \in Subdirs(files, dir) :
                             Last(d) \notin DEFAULT_IGNORE_DIRS /\ ~is_ignored(d, "", patterns)}}

discover_files(files, ignore_files, config_ignores) ==
    walk_dir(files, <<>>, load_all_ignore_patterns(ignore_files, config_ignores))

\* A file that cannot be read is left out.
discover_and_read_files(files, ignore_files, config_ignores) ==
    {f \in discover_files(files, ignore_files, config_ignores) : f.readable}

-----------------------------------------------------------------------------
(* What the CI/CD rules read *)

\* The text of a path with its slashes.
TextOf(path) == Tail(FlattenSeq([i \in DOMAIN path |-> <<"/">> \o path[i]]))
HasText(text, part) ==
    \E i \in 0..Len(text) : i + Len(part) <= Len(text) /\ SubSeq(text, i + 1, i + Len(part)) = part

\* A pattern with a star is text as well, and so is in no path.
Holds(path, pattern) == pattern.is = "plain" /\ HasText(TextOf(path), TextOf(pattern.path))

Skipped(name) ==
    \/ name[1] = "." /\ name \notin {<<".", "github">>, <<".", "gitlab-ci", ".yml">>}
    \/ name \in {<<"node_modules">>, <<"target">>, <<"vendor">>, <<"__pycache__">>}

RECURSIVE collect_files(_, _, _)
collect_files(files, dir, ignore) ==
    LET Walked(path) == ~Skipped(Last(path)) /\ ~ \E p \in ignore : Holds(path, p)
    IN  {f \in Inside(files, dir) : Walked(f.path) /\ f.cicd /\ f.readable}
        \cup UNION {collect_files(files, d, ignore) : d \in {d \in Subdirs(files, dir) : Walked(d)}}

\* The ignore files are not looked at.
discover_all_files(files, config_ignores) == collect_files(files, <<>>, config_ignores)
=============================================================================
