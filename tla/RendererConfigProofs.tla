------------------------ MODULE RendererConfigProofs ------------------------
(***************************************************************************)
(* Proofs about RendererConfig, for any files, roots and edits.             *)
(***************************************************************************)
EXTENDS RendererConfig, FiniteSetTheorems, SequenceTheorems, TLAPS

-----------------------------------------------------------------------------
(* The inductive invariant                                                  *)

\* The types the other parts need (rootPath does not matter to them).
LoaderTypes ==
  /\ phase \in Phases
  /\ disk \in [Files -> Contents]
  /\ entries \in Seq(Files) /\ next \in Nat \ {0} /\ next <= Len(entries) + 1
  /\ renderers \in Seq(Files)
  /\ defaultRenderer \in Files \union {NoFile}
  /\ had \in [Files -> SUBSET Contents]
  /\ edits \in Nat /\ edits <= MaxEdits

\* The files init is through with.
Parsed == {entries[i] : i \in 1 .. next - 1}

ListingIsRight ==
  /\ phase \in {"start", "rootSet", "noFiles"} => entries = <<>> /\ next = 1 /\ renderers = <<>> /\ defaultRenderer = NoFile
  /\ \A i, j \in DOMAIN entries : entries[i] = entries[j] => i = j
  /\ phase = "loading" => \A f \in Files : disk[f] \in had[f]
  /\ phase = "ready" => next = Len(entries) + 1
  /\ edits = 0 /\ phase \in {"loading", "ready"} => Elements(entries) = Present

\* What is loaded has been parsed, once.
LoadedIsParsed ==
  /\ Elements(renderers) \subseteq Parsed
  /\ defaultRenderer # NoFile => defaultRenderer \in Parsed
  /\ LoadedOnceAsItWas

\* On a disk nobody changes, it is what the parsed files contain.
LoadedIsOnDisk ==
  edits = 0 =>
    /\ Elements(renderers) = {f \in Parsed : disk[f] = "plain"}
    /\ \A f \in Parsed : disk[f] = "default" <=> defaultRenderer = f

ThrownForAReason ==
  /\ TwoDefaultsAreTwoFiles
  /\ edits = 0 /\ phase = "twoDefaults" => \E f, g \in Files : f # g /\ disk[f] = "default" /\ disk[g] = "default"
  /\ edits = 0 /\ phase = "noFiles" => rootPath \notin ResourceRoots \/ Present = {}

\* What has been loaded was listed in the order it has been loaded in.
InListingOrder ==
  \A k, l \in DOMAIN renderers :
    k < l => \E i, j \in 1 .. next - 1 : i < j /\ renderers[k] = entries[i] /\ renderers[l] = entries[j]

IInv == LoaderTypes /\ ListingIsRight /\ LoadedIsParsed /\ LoadedIsOnDisk /\ ThrownForAReason
-----------------------------------------------------------------------------
(* Sequences and listings                                                   *)

LEMMA ElementsOfEmpty == Elements(<<>>) = {}
BY DEF Elements

LEMMA ElementsOfAppend ==
  ASSUME NEW S, NEW s \in Seq(S), NEW e
  PROVE  Elements(Append(s, e)) = Elements(s) \union {e}
<1> DEFINE a == Append(s, e)
<1>1. Len(s) \in Nat /\ DOMAIN s = 1 .. Len(s) /\ DOMAIN a = 1 .. Len(s) + 1
  OBVIOUS
<1>2. a[Len(s) + 1] = e /\ \A i \in 1 .. Len(s) : a[i] = s[i]
  OBVIOUS
<1> HIDE DEF a
<1>3. Elements(a) = Elements(s) \union {e}
  BY <1>1, <1>2 DEF Elements
<1> QED
  BY <1>3 DEF a

\* Once init is through with an entry, one more file is parsed.
LEMMA ParsedGrows ==
  ASSUME LoaderTypes, next <= Len(entries), next' = next + 1, entries' = entries
  PROVE  Parsed' = Parsed \union {entries[next]}
<1>1. 1 .. next' - 1 = (1 .. next - 1) \union {next}
  BY DEF LoaderTypes
<1> QED
  BY <1>1 DEF Parsed

\* The entry init parses next has not been parsed.
LEMMA NextIsNew ==
  ASSUME LoaderTypes, ListingIsRight, next <= Len(entries)
  PROVE  entries[next] \in Files /\ entries[next] \notin Parsed
<1>1. next \in DOMAIN entries /\ \A i \in 1 .. next - 1 : i \in DOMAIN entries /\ i # next
  BY DEF LoaderTypes
<1>2. entries[next] \in Files
  BY <1>1 DEF LoaderTypes
<1> QED
  BY <1>1, <1>2 DEF ListingIsRight, Parsed

LEMMA ListingsAreRight ==
  ASSUME NEW F \in SUBSET Files, NEW l \in Listings(F)
  PROVE  /\ l \in Seq(Files)
         /\ Elements(l) = F
         /\ \A i, j \in DOMAIN l : l[i] = l[j] => i = j
<1>1. IsFiniteSet(F) /\ Cardinality(F) \in Nat
  BY ConfigAssumption, FS_Subset, FS_CardinalityType
<1>2. l \in [1 .. Cardinality(F) -> F]
  BY DEF Listings
<1>3. l \in Seq(F)
  BY <1>1, <1>2
<1>4. l \in Seq(Files)
  BY <1>3
<1>5. Elements(l) = F
  BY <1>2 DEF Listings, Elements
<1>6. \A i, j \in DOMAIN l : l[i] = l[j] => i = j
  BY <1>2 DEF Listings
<1> QED
  BY <1>4, <1>5, <1>6

LEMMA NoEntriesNoFiles ==
  ASSUME NEW s, Elements(s) = {}, s \in Seq(Files)
  PROVE  s = <<>>
<1>1. Len(s) = 0
  <2>1. CASE Len(s) # 0
    <3>1. 1 \in DOMAIN s
      BY <2>1
    <3> QED
      BY <3>1 DEF Elements
  <2> QED
    BY <2>1
<1> QED
  BY <1>1

\* What only speaks of the manager and the disk stays while they do.
LEMMA LoadedStays ==
  ASSUME UNCHANGED <<managerVars, disk, had, edits>>
  PROVE  /\ LoadedIsParsed => LoadedIsParsed'
         /\ LoadedIsOnDisk => LoadedIsOnDisk'
<1>1. /\ entries' = entries /\ next' = next /\ renderers' = renderers /\ defaultRenderer' = defaultRenderer
      /\ disk' = disk /\ had' = had /\ edits' = edits
  BY DEF managerVars
<1>2. Parsed' = Parsed /\ Elements(renderers)' = Elements(renderers)
  BY <1>1 DEF Parsed, Elements
<1>3. LoadedIsParsed => LoadedIsParsed'
  BY <1>1, <1>2 DEF LoadedIsParsed, LoadedOnceAsItWas
<1>4. LoadedIsOnDisk => LoadedIsOnDisk'
  BY <1>1, <1>2 DEF LoadedIsOnDisk
<1> QED
  BY <1>3, <1>4

-----------------------------------------------------------------------------
(* The invariant is inductive                                               *)

LEMMA InitEstablishes == Init => IInv
<1> SUFFICES ASSUME Init PROVE IInv
  OBVIOUS
<1>1. entries = <<>> /\ renderers = <<>> /\ next = 1 /\ edits = 0 /\ phase = "start" /\ defaultRenderer = NoFile
  BY DEF Init
<1>2. LoaderTypes
  BY ConfigAssumption DEF Init, LoaderTypes, Phases
<1>3. Parsed = {}
  BY <1>1 DEF Parsed
<1>4. LoadedIsParsed /\ LoadedIsOnDisk
  BY <1>1, <1>3, ElementsOfEmpty DEF LoadedIsParsed, LoadedOnceAsItWas, LoadedIsOnDisk
<1>5. ListingIsRight /\ ThrownForAReason
  BY <1>1 DEF ListingIsRight, ThrownForAReason, TwoDefaultsAreTwoFiles
<1> QED
  BY <1>2, <1>4, <1>5 DEF IInv

LEMMA SetRootPathKeeps == IInv /\ SetRootPath => IInv'
<1> SUFFICES ASSUME IInv, SetRootPath PROVE IInv'
  OBVIOUS
<1> USE DEF IInv, SetRootPath
<1>1. LoaderTypes'
  BY DEF LoaderTypes, Phases
<1>2. ListingIsRight'
  BY DEF ListingIsRight
<1>3. LoadedIsParsed' /\ LoadedIsOnDisk'
  BY DEF LoadedIsParsed, LoadedIsOnDisk, LoadedOnceAsItWas, Parsed
<1>4. ThrownForAReason'
  BY DEF ThrownForAReason, TwoDefaultsAreTwoFiles
<1> QED
  BY <1>1, <1>2, <1>3, <1>4

LEMMA ListDirKeeps == IInv /\ ListDir => IInv'
<1> SUFFICES ASSUME IInv, ListDir PROVE IInv'
  OBVIOUS
<1> DEFINE L == IF rootPath \in ResourceRoots THEN Listings(Present) ELSE {<<>>}
<1>1. PICK l \in L : entries' = l /\ phase' = IF l = <<>> THEN "noFiles" ELSE "loading"
  BY Zenon DEF ListDir
<1>2. Present \subseteq Files
  BY DEF Present
<1>3. /\ l \in Seq(Files)
      /\ \A i, j \in DOMAIN l : l[i] = l[j] => i = j
      /\ rootPath \in ResourceRoots => Elements(l) = Present
      /\ rootPath \notin ResourceRoots => l = <<>>
  <2>1. CASE rootPath \in ResourceRoots
    BY <2>1, <1>2, ListingsAreRight
  <2>2. CASE rootPath \notin ResourceRoots
    BY <2>2
  <2> QED
    BY <2>1, <2>2
<1>4. /\ next = 1 /\ renderers = <<>> /\ defaultRenderer = NoFile
      /\ next' = 1 /\ renderers' = <<>> /\ defaultRenderer' = NoFile
      /\ disk' = disk /\ edits' = edits /\ rootPath' = rootPath /\ had' = [f \in Files |-> {disk[f]}]
  BY DEF IInv, ListingIsRight, ListDir
<1>5. LoaderTypes'
  <2>1. phase' \in Phases
    BY <1>1 DEF Phases, Done
  <2>2. entries' \in Seq(Files) /\ 1 <= Len(entries') + 1
    BY <1>1, <1>3
  <2>3. had' \in [Files -> SUBSET Contents]
    BY <1>4 DEF IInv, LoaderTypes
  <2>4. renderers' \in Seq(Files)
    BY <1>4
  <2> QED
    BY <1>4, <2>1, <2>2, <2>3, <2>4 DEF IInv, LoaderTypes
<1>6. ListingIsRight'
  <2>1. phase' = "noFiles" => entries' = <<>>
    BY <1>1
  <2>2. \A f \in Files : disk'[f] \in had'[f]
    BY <1>4
  <2>3. Present' = Present
    BY <1>4 DEF Present
  <2>4. phase' = "loading" => Elements(entries') = Present'
    BY <1>1, <1>3, <2>3
  <2> QED
    BY <1>1, <1>3, <1>4, <2>1, <2>2, <2>4 DEF ListingIsRight, Elements
<1>7. LoadedIsParsed' /\ LoadedIsOnDisk'
  <2>1. Parsed' = {}
    BY <1>4 DEF Parsed
  <2> QED
    BY <1>4, <2>1 DEF LoadedIsParsed, LoadedIsOnDisk, LoadedOnceAsItWas, Elements
<1>8. ThrownForAReason'
  <2>1. phase' = "noFiles" => rootPath \notin ResourceRoots \/ Present = {}
    BY <1>1, <1>3, ElementsOfEmpty
  <2>2. Present' = Present
    BY <1>4 DEF Present
  <2> QED
    BY <1>1, <1>4, <2>1, <2>2 DEF ThrownForAReason, TwoDefaultsAreTwoFiles
<1> QED
  BY <1>5, <1>6, <1>7, <1>8 DEF IInv

LEMMA SkipKeeps == ASSUME IInv, NEW f \in Files, Skip(f) PROVE IInv'
<1>1. next <= Len(entries) /\ entries[next] = f /\ phase = "loading"
  BY DEF Skip, Load
<1>2. Parsed' = Parsed \union {f}
  BY <1>1, ParsedGrows DEF IInv, Skip
<1>3. LoaderTypes'
  BY <1>1 DEF IInv, LoaderTypes, Skip
<1>4. ListingIsRight'
  BY <1>1 DEF IInv, ListingIsRight, Skip, Present, Elements
<1>5. LoadedIsParsed'
  BY <1>2 DEF IInv, LoadedIsParsed, LoadedOnceAsItWas, Skip, Elements
<1>6. LoadedIsOnDisk'
  <2>1. disk[f] # "plain" /\ disk[f] # "default"
    BY DEF Skip
  <2>2. defaultRenderer # f
    BY <1>1, NextIsNew, ConfigAssumption DEF IInv, LoadedIsParsed
  <2> QED
    BY <1>2, <2>1, <2>2 DEF IInv, LoadedIsOnDisk, Skip, Elements
<1>7. ThrownForAReason'
  BY <1>1 DEF ThrownForAReason, TwoDefaultsAreTwoFiles, Skip
<1> QED
  BY <1>3, <1>4, <1>5, <1>6, <1>7 DEF IInv

LEMMA AddRendererKeeps == ASSUME IInv, NEW f \in Files, AddRenderer(f) PROVE IInv'
<1>1. next <= Len(entries) /\ entries[next] = f /\ phase = "loading" /\ disk[f] = "plain"
  BY DEF AddRenderer, Load
<1>2. Parsed' = Parsed \union {f} /\ f \notin Parsed
  BY <1>1, ParsedGrows, NextIsNew DEF IInv, AddRenderer
<1>3. renderers' = Append(renderers, f) /\ renderers \in Seq(Files)
  BY DEF AddRenderer, IInv, LoaderTypes
<1>4. Elements(renderers') = Elements(renderers) \union {f}
  BY <1>3, ElementsOfAppend
<1>5. LoaderTypes'
  BY <1>1, <1>3 DEF IInv, LoaderTypes, AddRenderer
<1>6. ListingIsRight'
  BY <1>1 DEF IInv, ListingIsRight, AddRenderer, Present, Elements
<1>7. LoadedIsParsed'
  <2>1. f \notin Elements(renderers) /\ f # defaultRenderer
    BY <1>2, ConfigAssumption DEF IInv, LoadedIsParsed
  <2>2. \A i, j \in DOMAIN renderers' : renderers'[i] = renderers'[j] => i = j
    BY <1>3, <2>1 DEF IInv, LoadedIsParsed, LoadedOnceAsItWas, Elements
  <2>3. "plain" \in had[f]
    BY <1>1 DEF IInv, ListingIsRight
  <2>4. had' = had /\ defaultRenderer' = defaultRenderer
    BY DEF AddRenderer
  <2>5. LoadedOnceAsItWas'
    BY <1>4, <2>1, <2>2, <2>3, <2>4 DEF IInv, LoadedIsParsed, LoadedOnceAsItWas
  <2> QED
    BY <1>2, <1>4, <2>4, <2>5 DEF IInv, LoadedIsParsed
<1>8. LoadedIsOnDisk'
  <2>1. defaultRenderer # f
    BY <1>2, ConfigAssumption DEF IInv, LoadedIsParsed
  <2>2. disk' = disk /\ defaultRenderer' = defaultRenderer /\ edits' = edits
    BY DEF AddRenderer
  <2> QED
    BY <1>1, <1>2, <1>4, <2>1, <2>2 DEF IInv, LoadedIsOnDisk
<1>9. ThrownForAReason'
  BY <1>1 DEF ThrownForAReason, TwoDefaultsAreTwoFiles, AddRenderer
<1> QED
  BY <1>5, <1>6, <1>7, <1>8, <1>9 DEF IInv

LEMMA SetDefaultKeeps == ASSUME IInv, NEW f \in Files, SetDefault(f) PROVE IInv'
<1>1. next <= Len(entries) /\ entries[next] = f /\ phase = "loading" /\ disk[f] = "default" /\ defaultRenderer = NoFile
  BY DEF SetDefault, Load
<1>2. Parsed' = Parsed \union {f} /\ f \notin Parsed
  BY <1>1, ParsedGrows, NextIsNew DEF IInv, SetDefault
<1>3. /\ defaultRenderer' = f /\ renderers' = renderers /\ had' = had
      /\ disk' = disk /\ edits' = edits
  BY DEF SetDefault
<1>4. LoaderTypes'
  BY <1>1 DEF IInv, LoaderTypes, SetDefault
<1>5. ListingIsRight'
  BY <1>1 DEF IInv, ListingIsRight, SetDefault, Present, Elements
<1>6. LoadedIsParsed'
  <2>1. "default" \in had[f] /\ f \notin Elements(renderers)
    BY <1>1, <1>2 DEF IInv, ListingIsRight, LoadedIsParsed
  <2> QED
    BY <1>2, <1>3, <2>1 DEF IInv, LoadedIsParsed, LoadedOnceAsItWas, Elements
<1>7. LoadedIsOnDisk'
  <2>1. edits = 0 => \A g \in Parsed : disk[g] # "default"
    <3>1. Parsed \subseteq Files
      BY DEF IInv, LoaderTypes, Parsed
    <3> QED
      BY <1>1, <3>1, ConfigAssumption DEF IInv, LoadedIsOnDisk
  <2> QED
    BY <1>1, <1>2, <1>3, <2>1 DEF IInv, LoadedIsOnDisk, Elements
<1>8. ThrownForAReason'
  BY <1>1 DEF ThrownForAReason, TwoDefaultsAreTwoFiles, SetDefault
<1> QED
  BY <1>4, <1>5, <1>6, <1>7, <1>8 DEF IInv

LEMMA SecondDefaultKeeps == ASSUME IInv, NEW f \in Files, SecondDefault(f) PROVE IInv'
<1>1. next <= Len(entries) /\ entries[next] = f /\ phase = "loading" /\ disk[f] = "default" /\ defaultRenderer # NoFile
  BY DEF SecondDefault, Load
<1>2. f \notin Parsed
  BY <1>1, NextIsNew DEF IInv
<1>3. defaultRenderer \in Parsed /\ defaultRenderer \in Files /\ defaultRenderer # f
  BY <1>1, <1>2 DEF IInv, LoadedIsParsed, LoaderTypes
<1>4. UNCHANGED <<managerVars, disk, had, edits>> /\ phase' = "twoDefaults"
  BY DEF SecondDefault
<1>5. LoaderTypes' /\ ListingIsRight'
  BY <1>4 DEF IInv, LoaderTypes, ListingIsRight, managerVars, Phases, Done
<1>6. LoadedIsParsed' /\ LoadedIsOnDisk'
  BY <1>4, LoadedStays DEF IInv
<1>7. ThrownForAReason'
  <2>1. "default" \in had[f] /\ "default" \in had[defaultRenderer]
    BY <1>1, <1>3 DEF IInv, ListingIsRight, LoadedIsParsed, LoadedOnceAsItWas
  <2>2. edits = 0 => disk[defaultRenderer] = "default"
    BY <1>3 DEF IInv, LoadedIsOnDisk
  <2> QED
    BY <1>1, <1>3, <1>4, <2>1, <2>2 DEF ThrownForAReason, TwoDefaultsAreTwoFiles
<1> QED
  BY <1>5, <1>6, <1>7 DEF IInv

LEMMA InitReturnsKeeps == IInv /\ InitReturns => IInv'
<1> SUFFICES ASSUME IInv, InitReturns PROVE IInv'
  OBVIOUS
<1>1. UNCHANGED <<managerVars, disk, had, edits>> /\ phase' = "ready" /\ phase = "loading" /\ next > Len(entries)
  BY DEF InitReturns
<1>2. LoaderTypes'
  BY <1>1 DEF IInv, LoaderTypes, managerVars, Phases, Done
<1>3. ListingIsRight'
  BY <1>1 DEF IInv, LoaderTypes, ListingIsRight, managerVars, Present, Elements
<1>4. LoadedIsParsed' /\ LoadedIsOnDisk'
  BY <1>1, LoadedStays DEF IInv
<1>5. ThrownForAReason'
  BY <1>1 DEF ThrownForAReason, TwoDefaultsAreTwoFiles
<1> QED
  BY <1>2, <1>3, <1>4, <1>5 DEF IInv

LEMMA EditKeeps == ASSUME IInv, NEW f \in Files, Edit(f) PROVE IInv'
<1>1. PICK c \in Contents \ {disk[f]} :
        /\ disk' = [disk EXCEPT ![f] = c]
        /\ had' = IF phase = "loading" THEN [had EXCEPT ![f] = @ \union {c}] ELSE had
  BY Zenon DEF Edit
<1>2. /\ phase \notin Done /\ phase' = phase /\ edits < MaxEdits /\ edits' = edits + 1
      /\ UNCHANGED managerVars
  BY DEF Edit
<1>3. edits' # 0
  BY <1>2 DEF IInv, LoaderTypes
<1>4. had' \in [Files -> SUBSET Contents] /\ \A g \in Files : had[g] \subseteq had'[g]
  BY <1>1 DEF IInv, LoaderTypes
<1>5. LoaderTypes'
  BY <1>1, <1>2, <1>4, ConfigAssumption DEF IInv, LoaderTypes, managerVars
<1>6. phase = "loading" => \A g \in Files : disk'[g] \in had'[g]
  BY <1>1 DEF IInv, LoaderTypes, ListingIsRight
<1>7. ListingIsRight'
  BY <1>2, <1>3, <1>6 DEF IInv, ListingIsRight, managerVars
<1>8. LoadedIsParsed'
  <2>1. renderers' = renderers /\ defaultRenderer' = defaultRenderer /\ entries' = entries /\ next' = next
    BY <1>2 DEF managerVars
  <2>2. Parsed' = Parsed /\ Elements(renderers)' = Elements(renderers)
    BY <2>1 DEF Parsed, Elements
  <2>3. \A g \in Elements(renderers) : g \in Files
    BY DEF IInv, LoaderTypes, Elements
  <2>4. LoadedOnceAsItWas'
    BY <1>4, <2>1, <2>2, <2>3 DEF IInv, LoaderTypes, LoadedIsParsed, LoadedOnceAsItWas
  <2> QED
    BY <2>1, <2>2, <2>4 DEF IInv, LoadedIsParsed
<1>9. LoadedIsOnDisk' /\ ThrownForAReason'
  BY <1>2, <1>3 DEF LoadedIsOnDisk, ThrownForAReason, TwoDefaultsAreTwoFiles, Done
<1> QED
  BY <1>5, <1>7, <1>8, <1>9 DEF IInv

LEMMA InductiveStep == IInv /\ [Next]_vars => IInv'
<1> SUFFICES ASSUME IInv, [Next]_vars PROVE IInv'
  OBVIOUS
<1>1. CASE UNCHANGED vars
  <2>1. UNCHANGED <<phase, managerVars, disk, had, edits>>
    BY <1>1 DEF vars
  <2>2. LoadedIsParsed' /\ LoadedIsOnDisk'
    BY <2>1, LoadedStays DEF IInv
  <2>3. LoaderTypes' /\ ThrownForAReason'
    BY <2>1 DEF managerVars, IInv, LoaderTypes, ThrownForAReason, TwoDefaultsAreTwoFiles, Present
  <2>4. ListingIsRight'
    BY <2>1 DEF managerVars, IInv, ListingIsRight, Present, Elements
  <2> QED
    BY <2>2, <2>3, <2>4 DEF IInv
<1>2. ASSUME NEW f \in Files, Parse(f) PROVE IInv'
  BY <1>2, SkipKeeps, AddRendererKeeps, SetDefaultKeeps, SecondDefaultKeeps DEF Parse
<1> QED
  BY <1>1, <1>2, SetRootPathKeeps, ListDirKeeps, InitReturnsKeeps, EditKeeps DEF Next, Start, Finished

-----------------------------------------------------------------------------
(* The order of the list                                                    *)

\* One more file parsed leaves the order of those before it.
LEMMA OrderStays ==
  ASSUME LoaderTypes, InListingOrder, next' \in {next, next + 1}, UNCHANGED <<renderers, entries>>
  PROVE  InListingOrder'
<1>1. next \in Nat
  BY DEF LoaderTypes
<1>2. \A i \in 1 .. next - 1 : i \in 1 .. next' - 1
  <2>1. CASE next' = next
    BY <2>1
  <2>2. CASE next' = next + 1
    BY <1>1, <2>2
  <2> QED
    BY <2>1, <2>2
<1> QED
  BY <1>2 DEF InListingOrder

LEMMA AddRendererInOrder == ASSUME IInv, InListingOrder, NEW f \in Files, AddRenderer(f) PROVE InListingOrder'
<1>1. /\ next <= Len(entries) /\ entries[next] = f /\ renderers' = Append(renderers, f)
      /\ next' = next + 1 /\ entries' = entries
  BY DEF AddRenderer, Load
<1>2. /\ next \in Nat \ {0} /\ Len(renderers) \in Nat /\ DOMAIN renderers = 1 .. Len(renderers)
      /\ DOMAIN renderers' = 1 .. Len(renderers) + 1
      /\ renderers'[Len(renderers) + 1] = f
      /\ \A k \in 1 .. Len(renderers) : renderers'[k] = renderers[k]
  BY <1>1 DEF IInv, LoaderTypes
<1>3. SUFFICES ASSUME NEW k \in DOMAIN renderers', NEW l \in DOMAIN renderers', k < l
               PROVE  \E i, j \in 1 .. next : i < j /\ renderers'[k] = entries[i] /\ renderers'[l] = entries[j]
  BY <1>1, <1>2 DEF InListingOrder
<1>4. k \in 1 .. Len(renderers)
  BY <1>2, <1>3
<1>5. CASE l = Len(renderers) + 1
  <2>1. PICK i \in 1 .. next - 1 : renderers[k] = entries[i]
    BY <1>2, <1>4 DEF IInv, LoadedIsParsed, Parsed, Elements
  <2>2. i \in 1 .. next /\ next \in 1 .. next /\ i < next
    BY <1>2, <2>1
  <2> QED
    BY <1>1, <1>2, <1>4, <1>5, <2>1, <2>2
<1>6. CASE l # Len(renderers) + 1
  <2>1. l \in 1 .. Len(renderers)
    BY <1>2, <1>6
  <2>2. PICK i, j \in 1 .. next - 1 : i < j /\ renderers[k] = entries[i] /\ renderers[l] = entries[j]
    BY <1>2, <1>3, <1>4, <2>1 DEF InListingOrder
  <2>3. i \in 1 .. next /\ j \in 1 .. next
    BY <1>2, <2>2
  <2> QED
    BY <1>2, <1>4, <2>1, <2>2, <2>3
<1> QED
  BY <1>5, <1>6

LEMMA OrderNext == IInv /\ InListingOrder /\ [Next]_vars => InListingOrder'
<1> SUFFICES ASSUME IInv, InListingOrder, [Next]_vars PROVE InListingOrder'
  OBVIOUS
<1>1. CASE UNCHANGED <<next, renderers, entries>>
  BY <1>1, OrderStays DEF IInv
<1>2. CASE ListDir
  BY <1>2 DEF ListDir, IInv, ListingIsRight, InListingOrder
<1>3. ASSUME NEW f \in Files, Skip(f) \/ SetDefault(f) PROVE InListingOrder'
  BY <1>3, OrderStays DEF Skip, SetDefault, IInv
<1>4. ASSUME NEW f \in Files, AddRenderer(f) PROVE InListingOrder'
  BY <1>4, AddRendererInOrder
<1>5. CASE SetRootPath \/ InitReturns \/ Finished \/ UNCHANGED vars
  BY <1>1, <1>5 DEF SetRootPath, InitReturns, Finished, vars, managerVars
<1>6. ASSUME NEW f \in Files, SecondDefault(f) \/ Edit(f) PROVE InListingOrder'
  BY <1>1, <1>6 DEF SecondDefault, Edit, managerVars
<1> QED
  BY <1>2, <1>3, <1>4, <1>5, <1>6 DEF Next, Start, Parse

-----------------------------------------------------------------------------
(* The root path                                                            *)

\* A nonempty set of indices has a last element.
LEMMA LastIndex ==
  ASSUME NEW n \in Nat, NEW S \in SUBSET (1 .. n), S # {}
  PROVE  \E m \in S : \A j \in S : m >= j
<1> DEFINE T == {n - i : i \in S}
<1>1. T \in SUBSET Nat /\ T # {}
  <2>1. \A i \in S : i \in 1 .. n /\ n - i \in Nat
    OBVIOUS
  <2>2. T \in SUBSET Nat
    BY <2>1
  <2>3. PICK i \in S : TRUE
    OBVIOUS
  <2>4. n - i \in T
    BY <2>3
  <2> QED
    BY <2>2, <2>4
<1>2. PICK d \in T : \A x \in T : ~(<<x, d>> \in OpToRel(<, Nat))
  BY <1>1, NatLessThanWellFounded, WFMin, Zenon
<1>3. \A x \in T : ~(x < d)
  BY <1>1, <1>2, Zenon DEF OpToRel
<1>4. PICK m \in S : d = n - m
  BY <1>2
<1>5. ASSUME NEW j \in S PROVE m >= j
  <2>1. ~(n - j < n - m)
    BY <1>3, <1>4
  <2>2. m \in Int /\ j \in Int
    OBVIOUS
  <2> QED
    BY <2>1, <2>2
<1> QED
  BY <1>5

\* What the program was started as is a sequence of names and separators.
Letters(p) == {Sep} \union Elements(p)

LEMMA ArgvType ==
  ASSUME NEW p \in Argv0s
  PROVE  p \in Seq(Letters(p)) /\ Len(p) \in Nat /\ DOMAIN p = 1 .. Len(p)
<1>1. p \in Seq(Elements(p))
  BY ConfigAssumption DEF Elements
<1>2. Len(p) \in Nat /\ DOMAIN p = 1 .. Len(p)
  BY <1>1, LenProperties
<1>3. \A i \in 1 .. Len(p) : p[i] \in Letters(p)
  BY <1>2 DEF Letters, Elements
<1>4. p \in [1 .. Len(p) -> Letters(p)]
  BY <1>1, <1>2, <1>3
<1> QED
  BY <1>2, <1>4

(***************************************************************************)
(* setRootPath (manager.cpp:101): with a separator in p, the root is all of *)
(* p up to the last one; without, p itself and a separator.                 *)
(***************************************************************************)
LEMMA RootSplits ==
  ASSUME NEW p \in Argv0s
  PROVE  /\ Root(p) \in Seq(Letters(p))
         /\ Separators(p) # {} =>
              \E n \in 1 .. Len(p) :
                /\ Root(p) \o SubSeq(p, n + 1, Len(p)) = p
                /\ Len(Root(p)) = n /\ Root(p)[n] = Sep
                /\ Separators(SubSeq(p, n + 1, Len(p))) = {}
<1>1. p \in Seq(Letters(p)) /\ Len(p) \in Nat
  BY ArgvType
<1>2. CASE Separators(p) = {}
  <2>1. <<Sep>> \in Seq(Letters(p))
    BY DEF Letters
  <2>2. p \o <<Sep>> \in Seq(Letters(p))
    BY <1>1, <2>1, ConcatProperties
  <2> QED
    BY <1>2, <2>2 DEF Root
<1>3. CASE Separators(p) # {}
  <2> DEFINE n == CHOOSE i \in Separators(p) : \A j \in Separators(p) : i >= j
  <2>1. Separators(p) \in SUBSET (1 .. Len(p))
    BY DEF Separators
  <2>2. \E i \in Separators(p) : \A j \in Separators(p) : i >= j
    BY <1>1, <1>3, <2>1, LastIndex
  <2>3. n \in Separators(p) /\ \A j \in Separators(p) : n >= j
    BY <2>2
  <2>4. Root(p) = SubSeq(p, 1, n)
    BY <1>3 DEF Root
  <2> HIDE DEF n
  <2>5. n \in 1 .. Len(p) /\ p[n] = Sep
    BY <2>3 DEF Separators
  <2>6. \A i \in 1 .. Len(p) : p[i] \in Letters(p)
    BY <1>1, ElementOfSeq
  <2>7. Root(p) \in Seq(Letters(p)) /\ Len(Root(p)) = n /\ Root(p)[n] = Sep
    <3>1. \A i \in 1 .. n : p[i] \in Letters(p)
      BY <1>1, <2>5, <2>6
    <3>2. /\ SubSeq(p, 1, n) \in Seq(Letters(p)) /\ Len(SubSeq(p, 1, n)) = n - 1 + 1
          /\ \A i \in 1 .. n - 1 + 1 : SubSeq(p, 1, n)[i] = p[1 + i - 1]
      BY <2>5, <3>1, SubSeqProperties
    <3>3. n - 1 + 1 = n /\ n \in 1 .. n - 1 + 1 /\ 1 + n - 1 = n
      BY <1>1, <2>5
    <3> QED
      BY <2>4, <2>5, <3>2, <3>3
  <2>8. Root(p) \o SubSeq(p, n + 1, Len(p)) = p
    <3>1. SubSeq(p, 1, n) \o SubSeq(p, n + 1, Len(p)) = SubSeq(p, 1, Len(p))
      <4>1. 1 \in 1 .. Len(p) + 1 /\ n \in 1 - 1 .. Len(p) /\ Len(p) \in n .. Len(p)
        BY <1>1, <2>5
      <4> QED
        BY <1>1, <4>1, ConcatAdjacentSubSeq
    <3> QED
      BY <1>1, <2>4, <3>1, SubSeqFull
  <2>9. Separators(SubSeq(p, n + 1, Len(p))) = {}
    <3> DEFINE name == SubSeq(p, n + 1, Len(p))
    <3>1. /\ Len(name) = IF n + 1 <= Len(p) THEN Len(p) - (n + 1) + 1 ELSE 0
          /\ \A i \in 1 .. Len(p) - (n + 1) + 1 : name[i] = p[n + 1 + i - 1]
      <4>1. \A i \in n + 1 .. Len(p) : p[i] \in Letters(p)
        BY <1>1, <2>5, <2>6
      <4>2. n + 1 \in Int /\ Len(p) \in Int
        BY <1>1, <2>5
      <4> QED
        BY <4>1, <4>2, SubSeqProperties
    <3> HIDE DEF name
    <3>2. SUFFICES ASSUME NEW i \in 1 .. Len(name), name[i] = Sep PROVE FALSE
      BY DEF Separators, name
    <3>3. i \in 1 .. Len(p) - (n + 1) + 1 /\ n + i \in 1 .. Len(p) /\ n + 1 + i - 1 = n + i /\ ~(n >= n + i)
      BY <1>1, <2>5, <3>1, <3>2
    <3>4. p[n + i] = Sep
      BY <3>1, <3>2, <3>3
    <3> QED
      BY <2>3, <3>3, <3>4 DEF Separators
  <2> QED
    BY <2>5, <2>7, <2>8, <2>9
<1> QED
  BY <1>2, <1>3

\* setRootPath is called once, and nothing changes its result.
RootIsSet ==
  /\ argv0 \in Argv0s
  /\ rootPath = IF phase = "start" THEN <<>> ELSE Root(argv0)

LEMMA RootNext == RootIsSet /\ [Next]_vars => RootIsSet'
<1> SUFFICES ASSUME RootIsSet, [Next]_vars PROVE RootIsSet'
  OBVIOUS
<1>1. CASE SetRootPath
  BY <1>1 DEF SetRootPath, RootIsSet
<1>2. CASE UNCHANGED <<argv0, rootPath>> /\ (phase' = "start" <=> phase = "start")
  BY <1>2 DEF RootIsSet
<1>3. CASE ListDir \/ InitReturns \/ Finished \/ UNCHANGED vars
  BY <1>2, <1>3 DEF ListDir, InitReturns, Finished, vars, managerVars
<1>4. ASSUME NEW f \in Files, Parse(f) \/ Edit(f) PROVE RootIsSet'
  BY <1>2, <1>4 DEF Parse, Skip, AddRenderer, SetDefault, SecondDefault, Edit, Load, managerVars
<1> QED
  BY <1>1, <1>3, <1>4 DEF Next, Start

-----------------------------------------------------------------------------
(* Theorems                                                                 *)

THEOREM ConfigInvariant == Spec => []IInv
BY InitEstablishes, InductiveStep, PTL DEF Spec

\* The look-up by headers meets the configurations in the order of the directory,
\* whatever is changed while init runs, and all of them if nothing is.
THEOREM LoadedInListingOrder == Spec => []LoadedInOrder
<1>1. Init => InListingOrder
  BY DEF Init, InListingOrder
<1>2. IInv /\ InListingOrder => LoadedInOrder
  BY DEF IInv, LoadedIsOnDisk, Parsed, InListingOrder, LoadedInOrder
<1> QED
  BY <1>1, <1>2, ConfigInvariant, OrderNext, PTL DEF Spec

LEMMA RootInvariant == Spec => []RootIsSet
<1>1. Init => RootIsSet
  BY DEF Init, RootIsSet
<1> QED
  BY <1>1, RootNext, PTL DEF Spec

\* Every reachable state is well typed: the loader's variables by the invariant,
\* the root path by what setRootPath makes of argv[0].
THEOREM ConfigTypes == Spec => []TypeOK
<1>1. ASSUME IInv, RootIsSet PROVE TypeOK
  <2> DEFINE letters == {Sep} \union UNION {Elements(p) : p \in Argv0s}
  <2>1. rootPath \in Seq(letters)
    <3>1. Letters(argv0) \subseteq letters
      BY <1>1 DEF RootIsSet, Letters
    <3>2. Root(argv0) \in Seq(Letters(argv0))
      BY <1>1, RootSplits DEF RootIsSet
    <3> HIDE DEF letters
    <3>3. Root(argv0) \in Seq(letters)
      BY <3>1, <3>2
    <3> QED
      BY <1>1, <3>3 DEF RootIsSet
  <2>2. next \in 1 .. Len(entries) + 1 /\ edits \in 0 .. MaxEdits
    BY <1>1, ConfigAssumption DEF IInv, LoaderTypes
  <2> QED
    BY <1>1, <2>1, <2>2 DEF TypeOK, RootIsSet, IInv, LoaderTypes
<1> QED
  BY <1>1, ConfigInvariant, RootInvariant, PTL

\* The resources are looked for beside the program, wherever it is and whatever its
\* path is made of, if it is started by a path.
THEOREM RootCorrect == Spec => []RootIsProgramDirectory
<1>1. RootIsSet => RootIsProgramDirectory
  <2> SUFFICES ASSUME RootIsSet, phase # "start", Separators(argv0) # {}
               PROVE  \E n \in 0 .. Len(argv0) :
                        /\ rootPath \o SubSeq(argv0, n + 1, Len(argv0)) = argv0
                        /\ rootPath[Len(rootPath)] = Sep
                        /\ Separators(SubSeq(argv0, n + 1, Len(argv0))) = {}
    BY DEF RootIsProgramDirectory
  <2>1. argv0 \in Argv0s /\ rootPath = Root(argv0)
    BY DEF RootIsSet
  <2>2. PICK n \in 1 .. Len(argv0) :
          /\ Root(argv0) \o SubSeq(argv0, n + 1, Len(argv0)) = argv0
          /\ Len(Root(argv0)) = n /\ Root(argv0)[n] = Sep
          /\ Separators(SubSeq(argv0, n + 1, Len(argv0))) = {}
    BY <2>1, RootSplits
  <2>3. n \in 0 .. Len(argv0)
    BY <2>1, ArgvType
  <2> QED
    BY <2>1, <2>2, <2>3
<1> QED
  BY <1>1, RootInvariant, PTL

\* Whatever is changed while init runs: each file is loaded once and in one role, as
\* something it has contained.
THEOREM LoadedOnce == Spec => []LoadedOnceAsItWas
<1>1. IInv => LoadedOnceAsItWas
  BY DEF IInv, LoadedIsParsed
<1> QED
  BY <1>1, ConfigInvariant, PTL

\* main dies of a second Default only if two files have been one.
THEOREM TwoDefaultsTwoFiles == Spec => []TwoDefaultsAreTwoFiles
<1>1. IInv => TwoDefaultsAreTwoFiles
  BY DEF IInv, ThrownForAReason
<1> QED
  BY <1>1, ConfigInvariant, PTL

\* The order of the directory decides neither whether main goes on nor what is loaded.
THEOREM OutcomeIgnoresOrder == Spec => []OutcomeFollowsDisk
<1>1. IInv => OutcomeFollowsDisk
  <2> SUFFICES ASSUME IInv, edits = 0 
               PROVE  /\ phase = "ready" =>
                           /\ Elements(renderers) = WithContent("plain")
                           /\ Elements(<<defaultRenderer>>) \ {NoFile} = WithContent("default")
                      /\ phase = "twoDefaults" => Cardinality(WithContent("default")) > 1
                      /\ phase = "noFiles" => rootPath \notin ResourceRoots \/ Present = {}
    BY DEF OutcomeFollowsDisk
  <2>1. ASSUME phase = "ready"
        PROVE  /\ Elements(renderers) = WithContent("plain")
               /\ Elements(<<defaultRenderer>>) \ {NoFile} = WithContent("default")
    <3>1. Parsed = Present
      <4>1. next - 1 = Len(entries) /\ Elements(entries) = Present
        BY <2>1 DEF IInv, LoaderTypes, ListingIsRight
      <4>2. DOMAIN entries = 1 .. Len(entries)
        BY DEF IInv, LoaderTypes
      <4> QED
        BY <4>1, <4>2 DEF Parsed, Elements
    <3>2. Elements(renderers) = WithContent("plain")
      BY <3>1 DEF IInv, LoadedIsOnDisk, WithContent
    <3>3. \A f \in Present : disk[f] = "default" <=> defaultRenderer = f
      BY <3>1 DEF IInv, LoadedIsOnDisk
    <3>4. defaultRenderer # NoFile => defaultRenderer \in Present
      BY <3>1 DEF IInv, LoadedIsParsed
    <3>5. NoFile \notin Present
      BY ConfigAssumption DEF Present
    <3>6. Elements(<<defaultRenderer>>) = {defaultRenderer}
      BY DEF Elements
    <3> QED
      BY <3>2, <3>3, <3>4, <3>5, <3>6 DEF WithContent
  <2>2. ASSUME phase = "twoDefaults" PROVE Cardinality(WithContent("default")) > 1
    <3>1. PICK f, g \in Files : f # g /\ disk[f] = "default" /\ disk[g] = "default"
      BY <2>2 DEF IInv, ThrownForAReason
    <3>2. {f, g} \subseteq WithContent("default") /\ WithContent("default") \subseteq Files
      BY <3>1 DEF WithContent, Present
    <3>3. IsFiniteSet(WithContent("default"))
      BY <3>2, ConfigAssumption, FS_Subset
    <3>4. Cardinality({f, g}) = 2
      <4>1. IsFiniteSet({g}) /\ Cardinality({g}) = 1 /\ {f, g} = {g} \union {f}
        BY FS_Singleton
      <4> QED
        BY <3>1, <4>1, FS_AddElement
    <3> QED
      BY <3>2, <3>3, <3>4, FS_Subset, FS_CardinalityType
  <2>3. phase = "noFiles" => rootPath \notin ResourceRoots \/ Present = {}
    BY DEF IInv, ThrownForAReason
  <2> QED
    BY <2>1, <2>2, <2>3
<1> QED
  BY <1>1, ConfigInvariant, PTL
=============================================================================
