-------------------------- MODULE FileBasedCatalog --------------------------
(***************************************************************************)
(* The file-based catalogs that run bundle and run bundle-upgrade build    *)
(* from an index image, the bundles injected so far, as annotated on the   *)
(* catalog source, and a new bundle.  The registry pod serves nothing but  *)
(* what is built.                                                          *)
(***************************************************************************)
EXTENDS Naturals, Sequences, SequencesExt

CONSTANTS Package, Names,  \* the operator's package and its bundles' names
          Indexes,         \* contents an index image may have
          Default,         \* contents of the default one: none
          DefaultChannel,
          MaxItems         \* bound on the bundles injected

VARIABLES index,    \* contents of the index image
          served,   \* contents of the catalog
          items,    \* injected bundles annotated on the catalog source
          channel,  \* of the subscription, "none" before the installation
          last,     \* the bundle the last command was about, 0 if none
          result    \* of the last command

vars == <<index, served, items, channel, last, result>>

Bundle(n) == [name |-> n, package |-> Package]
Entry(n, r) == [name |-> n, replaces |-> r]

Init == /\ index \in Indexes /\ served = Default
        /\ items = <<>> /\ channel = "none" /\ last = 0 /\ result = "none"

-----------------------------------------------------------------------------
(* Channels *)

EntryNames(c) == {c.entries[i].name : i \in DOMAIN c.entries}

\* getChannelHead: a name that no entry replaces; the first one that a map
\* iteration finds, and none in a cycle.
GetChannelHead(entries) ==
  LET replaced == {entries[i].replaces : i \in DOMAIN entries}
  IN {entries[i].name : i \in DOMAIN entries} \ replaced

\* The channel of that name and of the package, 0 if there is none.
ChannelIndex(cfg, name) ==
  LET at == {i \in DOMAIN cfg.channels : cfg.channels[i].name = name
                                      /\ cfg.channels[i].package = Package}
  IN IF at = {} THEN 0 ELSE CHOOSE i \in at : \A j \in at : i <= j

\* From a name along the replaces edges of a channel.
Reaches(c, from, to) ==
  LET step[k \in 0..Len(c.entries)] ==
        IF k = 0 THEN {from}
        ELSE step[k - 1] \cup {c.entries[i].replaces :
               i \in {j \in DOMAIN c.entries : c.entries[j].name \in step[k - 1]}}
  IN to \in step[Len(c.entries)]

\* ConvertToModel: known packages, no duplicates, each bundle in a channel and
\* each entry a bundle, a single head from which every entry is reached.
ConvertToModel(cfg) ==
  /\ \A c \in Range(cfg.channels) :
       /\ c.package \in cfg.packages
       /\ IsInjective([i \in DOMAIN c.entries |-> c.entries[i].name])
       /\ \A n \in EntryNames(c) : [name |-> n, package |-> c.package] \in Range(cfg.bundles)
       /\ \E h \in EntryNames(c) : /\ GetChannelHead(c.entries) = {h}
                                   /\ \A n \in EntryNames(c) : Reaches(c, h, n)
  /\ IsInjective([i \in DOMAIN cfg.channels |-> [cfg.channels[i] EXCEPT !.entries = <<>>]])
  /\ IsInjective(cfg.bundles)
  /\ \A b \in Range(cfg.bundles) : /\ b.package \in cfg.packages
                                   /\ \E c \in Range(cfg.channels) :
                                        c.package = b.package /\ b.name \in EntryNames(c)
  /\ \A p \in cfg.packages : \E c \in Range(cfg.channels) : c.package = p

-----------------------------------------------------------------------------
(* run bundle *)

CreateFBC(n) ==
  [packages |-> {Package}, bundles |-> <<Bundle(n)>>,
   channels |-> <<[name |-> DefaultChannel, package |-> Package, entries |-> <<Entry(n, 0)>>]>>]

\* generateFBC: the index image and the bundle, unless the bundle or the
\* channel is there.  The packages are added only if this one is new.
GenerateFBC(n) ==
  LET new == CreateFBC(n)
  IN [packages |-> IF Package \in index.packages THEN {} ELSE index.packages \cup {Package},
      bundles  |-> index.bundles \o new.bundles,
      channels |-> index.channels \o new.channels]

RunBundle(n) ==
  /\ channel = "none" /\ last' = n
  /\ LET cfg == IF index = Default THEN CreateFBC(n) ELSE GenerateFBC(n)
         how == CASE Bundle(n) \in Range(index.bundles) \/ ChannelIndex(index, DefaultChannel) # 0
                       -> "exists"
                  [] Bundle(n) \notin Range(index.bundles) /\ ChannelIndex(index, DefaultChannel) = 0
                       -> IF ConvertToModel(cfg) THEN "ok" ELSE "invalid"
     IN /\ result' = how
        /\ IF how = "ok"
           THEN served' = cfg /\ items' = <<n>> /\ channel' = DefaultChannel
           ELSE UNCHANGED <<served, items, channel>>
  /\ UNCHANGED index

\* External: the operator is installed from the index image as it is.
InstallFromImage ==
  /\ channel = "none" /\ index # Default /\ last' = 0 /\ result' = "none"
  /\ \E c \in Range(index.channels) :
       /\ c.package = Package /\ channel' = c.name
       /\ served' = index
  /\ UNCHANGED <<index, items>>

-----------------------------------------------------------------------------
(* run bundle-upgrade *)

\* handleTraditionalUpgrade: the index image with the bundle after the head of
\* the subscription's channel.
HandleTraditionalUpgrade(n, head) ==
  LET c == ChannelIndex(index, channel)
  IN [index EXCEPT !.channels[c].entries = Append(@, Entry(n, head)),
                   !.bundles = Append(@, Bundle(n))]

\* Mutant: the neighbour on the other side is replaced.
ReplacedByNext(names, i, head) == IF i < Len(names) THEN names[i + 1] ELSE head

Replaced(names, i, head) == IF i > 1 THEN names[i - 1] ELSE head

\* upgradeFBC: the injected bundles, the new one last, in a new channel or in
\* the index's; there each entry takes the place of all the others.
UpgradeFBC(names, head) ==
  LET c    == ChannelIndex(index, channel)
      all  == [i \in DOMAIN names |-> Entry(names[i], Replaced(names, i, head))]
      new  == SelectSeq([i \in DOMAIN names |-> Bundle(names[i])],
                        LAMBDA b : b \notin Range(index.bundles))
  IN [packages |-> {Package}, bundles |-> new,
      channels |-> <<[name |-> channel, package |-> Package,
                      entries |-> IF c = 0 THEN all ELSE <<Last(all)>>]>>]

\* runFBCUpgrade renders the previous bundles and, as the last one, the new.
Refs(n) == Append(items, n)

\* getExistingBundleItems and the new item.
Annotate(n) == Append(items, n)

\* UpdateCatalog with an index image in file-based format.  The index of the
\* channel in the index image is used for a list of one channel.
UpdateCatalog(n) ==
  /\ channel # "none" /\ Len(items) < MaxItems /\ last' = n
  /\ LET c     == ChannelIndex(index, channel)
         heads == IF c = 0 THEN {0} ELSE GetChannelHead(index.channels[c].entries)
     IN \E head \in heads :
          LET cfg == IF items = <<>> THEN HandleTraditionalUpgrade(n, head)
                     ELSE UpgradeFBC(Refs(n), head)
              how == CASE items # <<>> /\ c # 0 /\ n \in EntryNames(index.channels[c]) -> "exists"
                       [] items # <<>> /\ c > 1 -> "panic"
                       [] OTHER -> IF ConvertToModel(cfg) THEN "ok" ELSE "invalid"
          IN /\ result' = how
             /\ IF how = "ok" THEN served' = cfg /\ items' = Annotate(n)
                              ELSE UNCHANGED <<served, items>>
  /\ UNCHANGED <<index, channel>>

Next == (\E n \in Names : RunBundle(n) \/ UpdateCatalog(n)) \/ InstallFromImage

Spec == Init /\ [][Next]_vars

-----------------------------------------------------------------------------
(* Properties *)

Channel(cfg) == cfg.channels[ChannelIndex(cfg, channel)]

\* A successful upgrade offers its bundle as the head of the subscription's
\* channel, and the head it offered before can be upgraded to it.
UpgradePath ==
  [][ result' = "ok" /\ channel # "none" =>
        /\ GetChannelHead(Channel(served)'.entries) = {last'}
        /\ \A h \in GetChannelHead(Channel(served).entries) : Reaches(Channel(served)', last', h) ]_vars
=============================================================================
