--------------------------- MODULE RendererConfig ---------------------------
(***************************************************************************)
(* The configurations of renderers: RendererManager::setRootPath, init and  *)
(* parse (Renderers/manager.cpp), as main calls them before anything else.  *)
(* init lists the directory once and then opens one file after another, so  *)
(* files may be changed, removed or added under it.                         *)
(***************************************************************************)
EXTENDS Naturals, Sequences, FiniteSets

CONSTANTS
  Files,           \* names of files in resources/renderers
  Argv0s,          \* what the program may be started as: sequences of names and Sep
  Sep,             \* PATH_SEPARATOR
  ResourceRoots,   \* the roots that have a directory resources/renderers
  NoFile,          \* the value of a null _defaultRenderer
  MaxEdits         \* bound: changes of files while init runs

\* What opening and parsing a file gives: nothing, text that is not a Renderer, one
\* named Default, or another.
Contents == {"missing", "broken", "default", "plain"}

ASSUME ConfigAssumption ==
  /\ IsFiniteSet(Files) /\ NoFile \notin Files
  /\ \A p \in Argv0s : p \in Seq({p[i] : i \in DOMAIN p})
  /\ MaxEdits \in Nat

VARIABLES
  phase,            \* where main is; "noFiles" and "twoDefaults" have thrown
  argv0, rootPath,  \* sequences
  disk,             \* the content of each file
  entries,          \* init's listing
  next,             \* the index of the entry init parses next
  renderers,        \* _renderers: the files they were read from
  defaultRenderer,  \* _defaultRenderer: likewise
  had,              \* what each file has contained since it was listed
  edits             \* changes so far

managerVars == <<rootPath, entries, next, renderers, defaultRenderer>>
vars == <<phase, argv0, managerVars, disk, had, edits>>

Done == {"ready", "noFiles", "twoDefaults"}
Phases == {"start", "rootSet", "loading"} \union Done

Separators(p) == {i \in 1 .. Len(p) : p[i] = Sep}

\* Mutant: the first separator counts.
FirstRoot(p) ==
  IF Separators(p) = {} THEN p \o <<Sep>>
  ELSE SubSeq(p, 1, CHOOSE i \in Separators(p) : \A j \in Separators(p) : i <= j)

\* What setRootPath makes of argv[0]: up to the last separator.  Without one (a
\* start through PATH) the program's own name becomes a directory.
Root(p) ==
  IF Separators(p) = {} THEN p \o <<Sep>>
  ELSE SubSeq(p, 1, CHOOSE i \in Separators(p) : \A j \in Separators(p) : i >= j)

Present == {f \in Files : disk[f] # "missing"}

\* The orders in which a directory may list a set of files: each of them once.
Listings(F) ==
  {l \in [1 .. Cardinality(F) -> F] :
     \A f \in F : \E i \in DOMAIN l : l[i] = f /\ \A j \in DOMAIN l : l[j] = f => j = i}

Load(f) == phase = "loading" /\ next <= Len(entries) /\ entries[next] = f
-----------------------------------------------------------------------------
Init ==
  /\ phase = "start"
  /\ argv0 \in Argv0s /\ rootPath = <<>>
  /\ disk \in [Files -> Contents]
  /\ entries = <<>> /\ next = 1 /\ renderers = <<>> /\ defaultRenderer = NoFile
  /\ had = [f \in Files |-> {}]
  /\ edits = 0

SetRootPath ==
  /\ phase = "start"
  /\ rootPath' = Root(argv0)
  /\ phase' = "rootSet"
  /\ UNCHANGED <<argv0, entries, next, renderers, defaultRenderer, disk, had, edits>>

\* init lists the directory; what cannot be opened has no entries.
ListDir ==
  /\ phase = "rootSet"
  /\ \E l \in IF rootPath \in ResourceRoots THEN Listings(Present) ELSE {<<>>} :
       /\ entries' = l
       /\ phase' = IF l = <<>> THEN "noFiles" ELSE "loading"
  /\ had' = [f \in Files |-> {disk[f]}]
  /\ UNCHANGED <<argv0, rootPath, next, renderers, defaultRenderer, disk, edits>>

\* Mutant: a file that does not parse ends the loop.
SkipRest(f) ==
  /\ Load(f) /\ disk[f] \in {"missing", "broken"}
  /\ next' = Len(entries) + 1
  /\ UNCHANGED <<phase, argv0, rootPath, entries, renderers, defaultRenderer, disk, had, edits>>

\* Mutant: the iterator moves twice.
SkipTwo(f) ==
  /\ Load(f) /\ disk[f] \in {"missing", "broken"}
  /\ next' = next + 2
  /\ UNCHANGED <<phase, argv0, rootPath, entries, renderers, defaultRenderer, disk, had, edits>>

\* The file is gone or does not parse: it is left out without a word.
Skip(f) ==
  /\ Load(f) /\ disk[f] \in {"missing", "broken"}
  /\ next' = next + 1
  /\ UNCHANGED <<phase, argv0, rootPath, entries, renderers, defaultRenderer, disk, had, edits>>

\* Mutant: the file goes to the front of the list.
AddRendererInFront(f) ==
  /\ Load(f) /\ disk[f] = "plain"
  /\ renderers' = <<f>> \o renderers
  /\ next' = next + 1
  /\ UNCHANGED <<phase, argv0, rootPath, entries, defaultRenderer, disk, had, edits>>

AddRenderer(f) ==
  /\ Load(f) /\ disk[f] = "plain"
  /\ renderers' = Append(renderers, f)
  /\ next' = next + 1
  /\ UNCHANGED <<phase, argv0, rootPath, entries, defaultRenderer, disk, had, edits>>

\* Mutant: the default goes to the list, too.
SetDefaultAndAdd(f) ==
  /\ Load(f) /\ disk[f] = "default" /\ defaultRenderer = NoFile
  /\ defaultRenderer' = f
  /\ renderers' = Append(renderers, f)
  /\ next' = next + 1
  /\ UNCHANGED <<phase, argv0, rootPath, entries, disk, had, edits>>

SetDefault(f) ==
  /\ Load(f) /\ disk[f] = "default" /\ defaultRenderer = NoFile
  /\ defaultRenderer' = f
  /\ next' = next + 1
  /\ UNCHANGED <<phase, argv0, rootPath, entries, renderers, disk, had, edits>>

\* Mutant: what is there already is read again, and taken for a second default.
SecondDefaultOfAny(f) ==
  /\ Load(f) /\ disk[f] # "missing" /\ defaultRenderer # NoFile
  /\ phase' = "twoDefaults"
  /\ UNCHANGED <<argv0, managerVars, disk, had, edits>>

\* A second Default: parse throws out of init and main.
SecondDefault(f) ==
  /\ Load(f) /\ disk[f] = "default" /\ defaultRenderer # NoFile
  /\ phase' = "twoDefaults"
  /\ UNCHANGED <<argv0, managerVars, disk, had, edits>>

InitReturns ==
  /\ phase = "loading" /\ next > Len(entries)
  /\ phase' = "ready"
  /\ UNCHANGED <<argv0, managerVars, disk, had, edits>>

\* A file is written, replaced or removed by somebody else while main starts.
Edit(f) ==
  /\ phase \notin Done /\ edits < MaxEdits
  /\ \E c \in Contents \ {disk[f]} :
       /\ disk' = [disk EXCEPT ![f] = c]
       /\ had' = IF phase = "loading" THEN [had EXCEPT ![f] = @ \union {c}] ELSE had
  /\ edits' = edits + 1
  /\ UNCHANGED <<phase, argv0, managerVars>>

\* Main goes on, or is dead.
Finished == phase \in Done /\ UNCHANGED vars

Parse(f) == Skip(f) \/ AddRenderer(f) \/ SetDefault(f) \/ SecondDefault(f)

Start == SetRootPath \/ ListDir \/ InitReturns \/ \E f \in Files : Parse(f)

Next == Start \/ (\E f \in Files : Edit(f)) \/ Finished

Spec == Init /\ [][Next]_vars
-----------------------------------------------------------------------------
(* Properties                                                               *)

Elements(s) == {s[i] : i \in DOMAIN s}
WithContent(c) == {f \in Present : disk[f] = c}

\* Every variable has its type.  Names the state of RendererManager.
TypeOK ==
  /\ phase \in Phases
  /\ argv0 \in Argv0s
  /\ rootPath \in Seq({Sep} \union UNION {Elements(p) : p \in Argv0s})
  /\ disk \in [Files -> Contents]
  /\ entries \in Seq(Files) /\ next \in 1 .. Len(entries) + 1
  /\ renderers \in Seq(Files)
  /\ defaultRenderer \in Files \union {NoFile}
  /\ had \in [Files -> SUBSET Contents]
  /\ edits \in 0 .. MaxEdits

\* The directory of a program started by a path: nothing but its name comes after it
\* (setRootPath).
RootIsProgramDirectory ==
  phase # "start" /\ Separators(argv0) # {} =>
    \E n \in 0 .. Len(argv0) :
      LET name == SubSeq(argv0, n + 1, Len(argv0)) IN
      rootPath \o name = argv0 /\ rootPath[Len(rootPath)] = Sep /\ Separators(name) = {}

\* On a disk nobody changes, how init ends and what it has loaded then depend on the
\* files alone, not on the order in which the directory lists them (init, parse).
OutcomeFollowsDisk ==
  edits = 0 =>
    /\ phase = "ready" =>
         /\ Elements(renderers) = WithContent("plain")
         /\ Elements(<<defaultRenderer>>) \ {NoFile} = WithContent("default")
    /\ phase = "twoDefaults" => Cardinality(WithContent("default")) > 1
    /\ phase = "noFiles" => rootPath \notin ResourceRoots \/ Present = {}

\* The look-up tries configurations in the order of the listing, whatever is changed
\* meanwhile (init, parse).  On a disk nobody changes none of them is left out: the
\* list is that of the files parsed, less those skipped and the default.
LoadedInOrder ==
  /\ \A k, l \in DOMAIN renderers :
       k < l => \E i, j \in 1 .. next - 1 :
                  i < j /\ renderers[k] = entries[i] /\ renderers[l] = entries[j]
  /\ edits = 0 =>
       Elements(renderers) = {f \in {entries[i] : i \in 1 .. next - 1} : disk[f] = "plain"}

\* Whatever is changed while init runs, a file is loaded once and in one role, as
\* something it has contained since it was listed.
LoadedOnceAsItWas ==
  /\ \A i, j \in DOMAIN renderers : renderers[i] = renderers[j] => i = j
  /\ \A f \in Elements(renderers) : "plain" \in had[f] /\ f # defaultRenderer
  /\ defaultRenderer # NoFile => "default" \in had[defaultRenderer]

\* The server gives up over a second default only if there is another file that has
\* been one since the listing: no file counts twice.
TwoDefaultsAreTwoFiles ==
  phase = "twoDefaults" =>
    \E f, g \in Files : f # g /\ "default" \in had[f] /\ "default" \in had[g]
=============================================================================
