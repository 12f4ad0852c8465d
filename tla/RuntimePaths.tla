---------------------------- MODULE RuntimePaths ----------------------------
(***************************************************************************)
(* Where a conversation's files lie in the one shared sandbox:             *)
(* src/src/sandbox/gke_runtime_paths.py and the callers of it in           *)
(* gke_backend.py and gke_workspace_service.py.                            *)
(*                                                                         *)
(* An absolute path is the sequence of its segments, so "/output/f" is     *)
(* <<"output", "f">>; startswith("/output/") is a strict prefix.  Slashes  *)
(* that are doubled or missing are left out, and so is the text around the *)
(* paths of a command.                                                     *)
(***************************************************************************)
EXTENDS Naturals, Sequences, SequencesExt

CONSTANTS
    Conversations,   \* conversation ids
    Owner            \* the staff id each conversation belongs to

\* GkeRuntimePathError and ValueError; no file has the empty path.
Refused == <<>>

SandboxBase == <<"workspace">>                        \* SANDBOX_BASE_DIR
WorkspaceRoot == SandboxBase \o <<"staff-workspaces">>  \* settings.workspace_root

\* posixpath.normpath of an absolute path: ".." removes what stands before it.
Resolve(done, segment) ==
    CASE segment = "."  -> done
      [] segment = ".." -> IF done = <<>> THEN done ELSE Front(done)
      [] OTHER          -> Append(done, segment)
\* What is resolved after the first i segments.
Resolved(path) ==
    LET resolved[i \in 0 .. Len(path)] ==
            IF i = 0 THEN <<>> ELSE Resolve(resolved[i - 1], path[i])
    IN  resolved
Normalize(path) == Resolved(path)[Len(path)]

After(path, prefix) == SubSeq(path, Len(prefix) + 1, Len(path))

\* The directory of one conversation.
Workspace(c) == WorkspaceRoot \o <<Owner[c], c>>

\* The packages every conversation reads; no command is kept from writing there.
SkillPackages == SandboxBase \o <<"skill-packages">>

\* Mutant, in no specification: the aliases of one shared output directory.
SharedAliases(c) == {<<base \o <<d>>, WorkspaceRoot \o <<d>>>> :
                         base \in {<<>>, SandboxBase}, d \in {"work", "output"}}

\* aliases: the logical directories of the agent and where they lie.
Aliases(c) ==
    {<<base \o <<d>>, Workspace(c) \o <<d>>>> :
         base \in {<<>>, SandboxBase}, d \in {"work", "output"}}
    \cup {<<base \o <<"skill-packages">>, SkillPackages>> : base \in {<<>>, SandboxBase}}

\* No alias is a prefix of another one, so at most one of them fits.
PhysicalPath(c, path) ==
    LET normalized == Normalize(path)
        fitting == {a \in Aliases(c) : IsPrefix(a[1], normalized)}
    IN  IF fitting = {} THEN Refused
        ELSE LET a == CHOOSE a \in fitting : TRUE
             IN  a[2] \o After(normalized, a[1])

\* The file API of the sandbox takes paths below its base and joins them to it.
RuntimeRelative(path) ==
    IF IsStrictPrefix(SandboxBase, path) THEN After(path, SandboxBase) ELSE Refused
OnPod(relative) == SandboxBase \o relative

\* What read_file_for, read, upload_files and download_files reach.
Reached(c, path) ==
    LET physical == PhysicalPath(c, path)
    IN  IF physical = Refused THEN Refused ELSE OnPod(RuntimeRelative(physical))

\* normalize_output_path: only files below /workspace/output are published.
OutputDir == SandboxBase \o <<"output">>
\* Mutant, in no specification: normalize_output_path comparing the path as it was written.
NormalizeLate(path) ==
    LET long == IF IsStrictPrefix(<<"output">>, path) THEN SandboxBase \o path ELSE path
    IN  IF IsStrictPrefix(OutputDir, long) THEN long ELSE Refused

\* The path is normalized before it is compared.
NormalizeOutput(path) ==
    LET long == IF IsStrictPrefix(<<"output">>, path) THEN SandboxBase \o path ELSE path
        normalized == Normalize(long)
    IN  IF IsStrictPrefix(OutputDir, normalized) THEN normalized ELSE Refused
=============================================================================
