------------------------------ MODULE FileClasses ------------------------------
(***************************************************************************)
(* When each file of a release runs (execctx.py: classify_path,            *)
(* _references, classify).  The files are a sequence, in the order of the  *)
(* archive; a file is a record: top (its first directory, "" at the top),  *)
(* name, named (the classes that the metadata gives it: backend, hooks,    *)
(* cmdclass, packages, commands, plugins) and imports (the files that its  *)
(* own import statements name, by their place).                            *)
(***************************************************************************)
EXTENDS Integers, Sequences, FiniteSets, SequencesExt

ClassOrder == <<"build", "startup", "import", "user-command", "plugin-host",
                "runtime-call", "not-shipped", "data", "inert">>
FileClass == {ClassOrder[i] : i \in DOMAIN ClassOrder}
RankOf(class) == CHOOSE i \in DOMAIN ClassOrder : ClassOrder[i] = class
Earliest(classes) == CHOOSE c \in classes : \A d \in classes : RankOf(c) <= RankOf(d)

NotPackages == {"tests", "docs"}

\* classify_path: the class that a path has by itself.
ClassifyPath(f) ==
    CASE f.top = "" /\ f.name = "setup.py" -> "build"
      [] f.name \in {"x.pth", "sitecustomize.py"} -> "startup"
      [] f.top \in NotPackages \/ f.name = "conftest.py" -> "not-shipped"
      [] f.name = "__init__.py" \/ (f.top = "" /\ f.name = "mod.py") -> "import"
      [] f.name \in {"setup.py", "mod.py"} -> "runtime-call"
      [] f.name = "notes.md" -> "inert"
      [] OTHER -> "data"

\* What the metadata and the imports of setup.py say, before any __init__.py is read.
Named(files) ==
    LET setups == {i \in DOMAIN files : files[i].top = "" /\ files[i].name = "setup.py"}
    IN  [p \in DOMAIN files |->
            files[p].named \cup (IF \E i \in setups : p \in files[i].imports
                                 THEN {"build"} ELSE {})]

\* The imports of the file in place i run when it does.
Imported(files, refs, i) ==
    [p \in DOMAIN files |-> refs[p] \cup (IF p \in files[i].imports THEN {"import"} ELSE {})]

\* Mutation: only an __init__.py that runs at import before any other is read.
ReferencesFirst(files) ==
    LET refs[n \in 0..Len(files)] ==
            IF n = 0 THEN Named(files)
            ELSE IF /\ files[n].name = "__init__.py"
                    /\ ClassifyPath(files[n]) = "import" \/ "import" \in Named(files)[n]
            THEN Imported(files, refs[n - 1], n)
            ELSE refs[n - 1]
    IN  refs[Len(files)]

\* _references: what an __init__.py that runs at import imports runs at import too;
\* one pass, in the order of the archive.
References(files) ==
    LET refs[n \in 0..Len(files)] ==
            IF n = 0 THEN Named(files)
            ELSE IF /\ files[n].name = "__init__.py"
                    /\ ClassifyPath(files[n]) = "import" \/ "import" \in refs[n - 1][n]
            THEN Imported(files, refs[n - 1], n)
            ELSE refs[n - 1]
    IN  refs[Len(files)]

\* classify: the earliest of what refers to a file, else its path's class.
Classify(files) ==
    LET refs == References(files)
    IN  [p \in DOMAIN files |->
            LET path == ClassifyPath(files[p])
                candidates == refs[p] \cup ({path} \cap {"build", "startup", "import"})
            IN  IF candidates = {} THEN path ELSE Earliest(candidates)]

-----------------------------------------------------------------------------
\* A list of files, each with the classes that something names it for.
FilesListed(files) ==
    Len(files) \in Nat /\ DOMAIN files = 1..Len(files)
    /\ \A p \in DOMAIN files : files[p].named \subseteq FileClass

\* The files that run at import by path or metadata, and what some files import.
ByItself(files) ==
    {p \in DOMAIN files : ClassifyPath(files[p]) = "import" \/ "import" \in files[p].named}
ImportedBy(files, some) == (UNION {files[i].imports : i \in some}) \cap DOMAIN files

\* The __init__.py files whose imports run at import: each by path or metadata, or
\* because one of them that comes before it in the archive imports it.  Imports that
\* lead back to the front of the archive are not followed any further.
Followed(files, inits) ==
    inits = {i \in DOMAIN files :
                /\ files[i].name = "__init__.py"
                /\ \/ i \in ByItself(files)
                   \/ i \in ImportedBy(files, {j \in inits : j < i})}

\* No file is said to run later than its metadata, its path or an __init__.py that is
\* followed makes it run; and none earlier than import without a reason, nor at
\* import unless such an __init__.py imports it.
RunsWhenReached(files, classes) ==
    \E inits \in SUBSET DOMAIN files :
        /\ Followed(files, inits)
        /\ \A p \in DOMAIN files :
              LET said == Named(files)[p] \cup ({ClassifyPath(files[p])} \cap {"build", "startup"})
                  reached == p \in ByItself(files) \cup ImportedBy(files, inits)
              IN  /\ \A c \in said : RankOf(classes[p]) <= RankOf(c)
                  /\ reached => RankOf(classes[p]) <= RankOf("import")
                  /\ classes[p] = "import" => reached
                  /\ classes[p] \in {"build", "startup", "user-command", "plugin-host"} =>
                         classes[p] \in said

=============================================================================
