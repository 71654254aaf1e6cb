--------------------------- MODULE RegistryProofs ---------------------------
(***************************************************************************)
(* For every registry, whatever is edited and when: an accepted snapshot   *)
(* is closed, only names of whitespace make a projection of the snapshot   *)
(* raise, the coverage command finds unused capabilities only, and the     *)
(* commands for single kinds judge what the snapshot judges.               *)
(***************************************************************************)
EXTENDS Registry, TLAPS

(* Every kind went through the index and its validator found nothing.      *)
Sound(S) ==
  /\ \A kind \in Elements(Kinds) : Indexed(kind, S)
  /\ \A kind \in Elements(DependencyOrder) : SourceDiagnostics(kind, S) = {}

(* What is read is a content that can be parsed, of a file of that kind.   *)
TypeInv ==
  /\ DOMAIN disk = DOMAIN Contents
  /\ \A p \in DOMAIN disk : disk[p] \in Contents[p]
  /\ DOMAIN sources = Elements(Kinds)
  /\ \A kind \in Elements(Kinds) : \A s \in sources[kind] :
       /\ s.path \in Elements(Files[kind])
       /\ s.data \in Contents[s.path] \ {Absent, NotAFile, Unreadable}

(* The kinds counted as loaded are indexed, those counted as judged have   *)
(* no diagnostics, and nothing is judged before everything is loaded.      *)
SnapshotInv ==
  command = "snapshot" =>
    /\ plan = Snapshot
    /\ loaded \in 0 .. 9 /\ judged \in 0 .. 8
    /\ judged > 0 => loaded = 9
    /\ result = "passed" => judged = 8
    /\ \A i \in 1 .. loaded : Indexed(Kinds[i], sources)
    /\ \A i \in 1 .. judged : SourceDiagnostics(DependencyOrder[i], sources) = {}

CoverageInv == command = "coverage" => result # "running" /\ Sound(sources)

-----------------------------------------------------------------------------
(* The two sequences of kinds, as sets of their elements.                  *)
LEMMA KindsFacts ==
  /\ DOMAIN Kinds = 1 .. 9
  /\ Len(Kinds) = 9
  /\ \A i, j \in 1 .. 9 : Kinds[i] = Kinds[j] => i = j
  /\ Elements(Kinds) = {"agents", "artifacts", "bundles", "permission-profiles", "profiles",
                        "setups", "skills", "targets", "workflows"}
  /\ DOMAIN DependencyOrder = 1 .. 8
  /\ Len(DependencyOrder) = 8
  /\ Elements(DependencyOrder) = {"permission-profiles", "targets", "skills", "agents",
                                  "artifacts", "workflows", "profiles", "bundles"}
<1>1. DOMAIN Kinds = 1 .. 9 /\ Len(Kinds) = 9
  BY DEF Kinds
<1>2. \A i, j \in 1 .. 9 : Kinds[i] = Kinds[j] => i = j
  BY DEF Kinds
<1>3. Elements(Kinds) = {Kinds[1], Kinds[2], Kinds[3], Kinds[4], Kinds[5], Kinds[6], Kinds[7], Kinds[8], Kinds[9]}
  BY <1>1 DEF Elements
<1>4. DOMAIN DependencyOrder = 1 .. 8 /\ Len(DependencyOrder) = 8
  BY DEF DependencyOrder
<1>5. Elements(DependencyOrder) =
        {DependencyOrder[1], DependencyOrder[2], DependencyOrder[3], DependencyOrder[4],
         DependencyOrder[5], DependencyOrder[6], DependencyOrder[7], DependencyOrder[8]}
  BY <1>4 DEF Elements
<1> QED
  BY <1>1, <1>2, <1>3, <1>4, <1>5 DEF Kinds, DependencyOrder

LEMMA SnapshotFacts ==
  /\ Len(Snapshot) = 1
  /\ plan = Snapshot => Load = Kinds /\ Judge = DependencyOrder
BY DEF Snapshot, Pass, Load, Judge

-----------------------------------------------------------------------------
(* What the absence of diagnostics means.                                  *)
LEMMA NoneUnresolved ==
  ASSUME NEW rule, NEW used, NEW known, Unresolved(rule, used, known) = {}
  PROVE  used \subseteq known
BY DEF Unresolved

LEMMA NoneUnknown ==
  ASSUME NEW rule, NEW d, NEW used, NEW known, Unknown(rule, d, used, known) = {}
  PROVE  used \subseteq known
BY DEF Unknown

(* Every source of a kind without diagnostics was parsed.                  *)
LEMMA AllParsed ==
  ASSUME NEW S, NEW kind, SourceDiagnostics(kind, S) = {}
  PROVE  Parsed(kind, S) = S[kind] /\ ParsedData(kind, S) = Data(kind, S)
<1>1. CommonDiagnostics(kind, S) = {}
  BY DEF SourceDiagnostics
<1>2. {D("malformed", <<>>) : s \in S[kind] \ Parsed(kind, S)} = {}
  BY <1>1 DEF CommonDiagnostics
<1>3. S[kind] \ Parsed(kind, S) = {}
  BY <1>2
<1>4. Parsed(kind, S) = S[kind]
  BY <1>3 DEF Parsed
<1> QED
  BY <1>4 DEF ParsedData, Data

(* The rules of each kind, out of all the diagnostics.                     *)
LEMMA RulesHold ==
  ASSUME NEW S, Sound(S)
  PROVE  /\ \A kind \in Elements(DependencyOrder) :
              Parsed(kind, S) = S[kind] /\ ParsedData(kind, S) = Data(kind, S)
         /\ \A d \in Data("skills", S) : SkillRules(d, S) = {}
         /\ ProvidedAgain(S) = {}
         /\ \A d \in Data("agents", S) : AgentRules(d, S) = {}
         /\ \A d \in Data("artifacts", S) : ArtifactRules(d) = {}
         /\ \A g \in GatesOf(S) : GateRules(g, S) = {}
         /\ \A d \in Data("profiles", S) : ProfileRules(d, S) = {}
         /\ \A d \in Data("targets", S) : TargetRules(d, S) = {}
         /\ \A d \in Data("bundles", S) : BundleRules(d, S) = {}
         /\ UnproducedArtifacts(S) = {}
<1>1. \A kind \in Elements(DependencyOrder) :
        Parsed(kind, S) = S[kind] /\ ParsedData(kind, S) = Data(kind, S)
  BY AllParsed DEF Sound
<1>2. \A kind \in {"skills", "agents", "artifacts", "workflows", "profiles", "targets", "bundles"} :
        RuleDiagnostics(kind, S) = {}
  BY KindsFacts DEF Sound, SourceDiagnostics
<1>3. SkillDiagnostics(S) = {}
  BY <1>2, KindsFacts DEF RuleDiagnostics
<1>4. \A d \in Data("skills", S) : SkillRules(d, S) = {}
  BY <1>1, <1>3, KindsFacts DEF SkillDiagnostics
<1>5. ProvidedAgain(S) = {}
  BY <1>3 DEF SkillDiagnostics
<1>6. \A d \in Data("agents", S) : AgentRules(d, S) = {}
  BY <1>1, <1>2, KindsFacts DEF RuleDiagnostics
<1>7. \A d \in Data("artifacts", S) : ArtifactRules(d) = {}
  BY <1>1, <1>2, KindsFacts DEF RuleDiagnostics
<1>8. \A g \in GatesOf(S) : GateRules(g, S) = {}
  BY <1>2, KindsFacts DEF RuleDiagnostics
<1>9. \A d \in Data("profiles", S) : ProfileRules(d, S) = {}
  BY <1>1, <1>2, KindsFacts DEF RuleDiagnostics
<1>10. \A d \in Data("targets", S) : TargetRules(d, S) = {}
  BY <1>1, <1>2, KindsFacts DEF RuleDiagnostics
<1>11. (\A d \in Data("bundles", S) : BundleRules(d, S) = {}) /\ UnproducedArtifacts(S) = {}
  <2>1. RuleDiagnostics("bundles", S) =
          (UNION {BundleRules(d, S) : d \in ParsedData("bundles", S)}) \union UnproducedArtifacts(S)
    BY DEF RuleDiagnostics
  <2>2. RuleDiagnostics("bundles", S) = {}
    BY <1>2
  <2>3. /\ UNION {BundleRules(d, S) : d \in ParsedData("bundles", S)} = {}
        /\ UnproducedArtifacts(S) = {}
    BY <2>1, <2>2
  <2>4. \A d \in ParsedData("bundles", S) : BundleRules(d, S) = {}
    BY <2>3
  <2> QED
    BY <1>1, <2>3, <2>4, KindsFacts
<1> QED
  BY <1>1, <1>4, <1>5, <1>6, <1>7, <1>8, <1>9, <1>10, <1>11

(* Names of an indexed kind are trimmed: what a projection strips is what  *)
(* the file says.                                                          *)
LEMMA StrippedIsWritten ==
  ASSUME NEW S, NEW kind, Indexed(kind, S)
  PROVE  /\ Stripped(Names(kind, S)) = Names(kind, S)
         /\ \A d \in Data(kind, S) : Strip[d.name] = d.name
BY DEF Indexed, Stripped, Names

(* Every capability that is provided has one provider.                     *)
LEMMA OneProvider ==
  ASSUME NEW S, Sound(S), NEW c \in Capabilities(S)
  PROVE  \E s \in S["skills"] : {t \in S["skills"] : c \in t.data.provides} = {s}
<1>1. /\ ProvidedAgain(S) = {} /\ Parsed("skills", S) = S["skills"]
      /\ ParsedData("skills", S) = Data("skills", S)
  BY RulesHold, KindsFacts
<1>2. PICK s \in S["skills"] : c \in s.data.provides
  BY DEF Capabilities, Data
<1>3. c \in Provided(S)
  BY <1>1 DEF Provided, Capabilities
<1>4. \A t \in S["skills"] : c \in t.data.provides => t = s
  BY <1>1, <1>2, <1>3 DEF ProvidedAgain
<1> QED
  BY <1>2, <1>4

LEMMA MentionedIsProvided ==
  ASSUME NEW S, Sound(S), NEW c \in Mentioned(S)
  PROVE  c \in Capabilities(S)
<1>1. /\ \A d \in Data("skills", S) : SkillRules(d, S) = {}
      /\ \A d \in Data("agents", S) : AgentRules(d, S) = {}
      /\ \A g \in GatesOf(S) : GateRules(g, S) = {}
      /\ \A d \in Data("profiles", S) : ProfileRules(d, S) = {}
      /\ ParsedData("skills", S) = Data("skills", S)
  BY RulesHold, KindsFacts
<1>2. CASE \E d \in Data("agents", S) : c \in d.capabilities
  <2>1. PICK d \in Data("agents", S) : c \in d.capabilities
    BY <1>2
  <2>2. Unknown("capability", d, d.capabilities, Capabilities(S)) = {}
    BY <1>1 DEF AgentRules
  <2> QED
    BY <2>1, <2>2, NoneUnknown
<1>3. CASE \E d \in Data("profiles", S) : c \in d.capabilities
  <2>1. PICK d \in Data("profiles", S) : c \in d.capabilities
    BY <1>3
  <2>2. Unknown("capability", d, d.capabilities, Capabilities(S)) = {}
    BY <1>1 DEF ProfileRules
  <2> QED
    BY <2>1, <2>2, NoneUnknown
<1>4. CASE \E g \in GatesOf(S) : c \in g.capabilities
  <2>1. PICK g \in GatesOf(S) : c \in g.capabilities
    BY <1>4
  <2>2. g.capabilities \ Capabilities(S) = {}
    BY <1>1, <2>1 DEF GateRules
  <2> QED
    BY <2>1, <2>2
<1>5. CASE \E d \in Data("skills", S) : c \in d.requires
  <2>1. PICK d \in Data("skills", S) : c \in d.requires
    BY <1>5
  <2>2. Unknown("capability", d, d.requires, Provided(S)) = {}
    BY <1>1 DEF SkillRules
  <2>3. Provided(S) = Capabilities(S)
    BY <1>1 DEF Provided, Capabilities
  <2> QED
    BY <2>1, <2>2, <2>3, NoneUnknown
<1> QED
  BY <1>2, <1>3, <1>4, <1>5 DEF Mentioned

LEMMA GrantedIsMapped ==
  ASSUME NEW S, Sound(S), NEW n \in Granted(S), NEW d \in Data("targets", S)
  PROVE  n \in d.mapped
<1>1. /\ \A a \in Data("agents", S) : AgentRules(a, S) = {}
      /\ TargetRules(d, S) = {}
      /\ \A b \in Data("bundles", S) : BundleRules(b, S) = {}
      /\ ParsedData("permission-profiles", S) = Data("permission-profiles", S)
  BY RulesHold, KindsFacts
<1> DEFINE permissions == Names("permission-profiles", S)
<1>2. permissions \subseteq d.mapped
  <2>1. Unknown("missingMapping", d, Profiled(S), d.mapped) = {}
    BY <1>1 DEF TargetRules
  <2>2. permissions = Profiled(S)
    BY <1>1 DEF Profiled, Names
  <2> QED
    BY <2>1, <2>2, NoneUnknown
<1>3. CASE \E a \in Data("agents", S) : n = a.permission
  <2>1. PICK a \in Data("agents", S) : n = a.permission
    BY <1>3
  <2>2. Unknown("permission", a, {a.permission}, permissions) = {}
    BY <1>1 DEF AgentRules
  <2> QED
    BY <2>1, <2>2, <1>2, NoneUnknown
<1>4. CASE \E b \in Data("bundles", S) : n \in b.permissions
  <2>1. PICK b \in Data("bundles", S) : n \in b.permissions
    BY <1>4
  <2>2. Unresolved("permission", b.permissions, Stripped(permissions)) = {}
    BY <1>1 DEF BundleRules
  <2>3. Stripped(permissions) = permissions
    BY StrippedIsWritten, KindsFacts DEF Sound
  <2> QED
    BY <2>1, <2>2, <2>3, <1>2, NoneUnresolved
<1> QED
  BY <1>3, <1>4 DEF Granted

LEMMA ArtifactIsProduced ==
  ASSUME NEW S, Sound(S), NEW d \in Data("artifacts", S)
  PROVE  \E b \in BindingsOf(S) : b.owner /\ d.name \in b.produces
<1>1. UnproducedArtifacts(S) = {} /\ Parsed("bundles", S) = S["bundles"]
  BY RulesHold, KindsFacts
<1>2. Stripped(Names("artifacts", S)) \subseteq Produced(S)
  BY <1>1 DEF UnproducedArtifacts
<1>3. d.name \in Stripped(Names("artifacts", S))
  BY StrippedIsWritten, KindsFacts DEF Sound, Names
<1> QED
  BY <1>2, <1>3 DEF BindingsOf, Produced

LEMMA ResultIsSayable ==
  ASSUME NEW S, Sound(S), NEW g \in GatesOf(S), NEW a \in g.artifacts, NEW r \in g.results
  PROVE  \E d \in Data("artifacts", S) : \E n \in d.statuses \intersect d.pattern :
           d.name = a /\ Fold[Strip[n]] = r
<1>1. GateRules(g, S) = {}
      /\ \A d \in Data("artifacts", S) : ArtifactRules(d) = {}
  BY RulesHold, KindsFacts
<1>2. a \in Stripped(Names("artifacts", S))
  BY <1>1 DEF GateRules
<1>3. g.results \subseteq Allowed(a, S)
  <2> DEFINE unsayable == Unsayable(g, S) \intersect Stripped(Names("artifacts", S))
             named == UNION {{g.state, g.name, b} : b \in unsayable}
  <2>1. {D("statusEvent", <<n>>) : n \in named} = {}
    BY <1>1 DEF GateRules
  <2>2. named = {}
    <3> HIDE DEF named
    <3> QED BY <2>1
  <2>3. unsayable = {}
    <3>1. \A b \in unsayable : b \in named
      <4> HIDE DEF unsayable
      <4> QED OBVIOUS
    <3> HIDE DEF unsayable, named
    <3> QED BY <2>2, <3>1
  <2> QED
    BY <1>2, <2>3 DEF Unsayable
<1>4. PICK d \in Data("artifacts", S) : Strip[d.name] = a /\ \E n \in d.statuses : r = Fold[Strip[n]]
  BY <1>3 DEF Allowed
<1>5. d.pattern # None /\ d.statuses \subseteq d.pattern
  BY <1>1 DEF ArtifactRules
<1>6. d.name = a
  BY <1>4, StrippedIsWritten, KindsFacts DEF Sound
<1> QED
  BY <1>4, <1>5, <1>6

LEMMA SoundIsClosed ==
  ASSUME NEW S, Sound(S)
  PROVE  Closed(S)
<1>1. \A c \in Mentioned(S) : \E s \in S["skills"] : {t \in S["skills"] : c \in t.data.provides} = {s}
  BY MentionedIsProvided, OneProvider
<1>2. \A n \in Granted(S) : \A d \in Data("targets", S) : n \in d.mapped
  BY GrantedIsMapped
<1>3. \A d \in Data("artifacts", S) : \E b \in BindingsOf(S) : b.owner /\ d.name \in b.produces
  BY ArtifactIsProduced
<1>4. \A g \in GatesOf(S) : \A a \in g.artifacts : \A r \in g.results :
        \E d \in Data("artifacts", S) : \E n \in d.statuses \intersect d.pattern :
          d.name = a /\ Fold[Strip[n]] = r
  BY ResultIsSayable
<1> QED
  BY <1>1, <1>2, <1>3, <1>4 DEF Closed

LEMMA SoundIsCovered ==
  ASSUME NEW S, Sound(S), \A c \in Capabilities(S) : Strip[c] = c
  PROVE  Missing(S) = {} /\ Duplicates(S) = {}
<1>1. Missing(S) = {}
  <2>1. SUFFICES ASSUME NEW d \in Data("bundles", S), NEW b \in d.bindings, NEW c \in b.capabilities
                 PROVE  c \in Capabilities(S)
    BY DEF Missing, Required
  <2>2. BundleRules(d, S) = {}
    BY RulesHold
  <2>3. BindingRules(d, b, S) = {}
    BY <2>2 DEF BundleRules
  <2>4. Unresolved("unprovided", b.capabilities, ProvidedBy(b.skills, S)) = {}
    BY <2>3 DEF BindingRules
  <2>5. c \in ProvidedBy(b.skills, S)
    BY <2>4, NoneUnresolved
  <2>6. PICK e \in Data("skills", S) : \E n \in e.provides : c = Strip[n]
    BY <2>5 DEF ProvidedBy, Selected, Stripped
  <2> QED
    BY <2>6 DEF Capabilities
<1>2. Duplicates(S) = {}
  <2>1. SUFFICES ASSUME NEW c \in Capabilities(S), NEW d \in Data("skills", S), NEW e \in Data("skills", S),
                        d.name # e.name, c \in d.provides \intersect e.provides
                 PROVE  FALSE
    BY DEF Duplicates
  <2>2. PICK s, t \in S["skills"] : s.data = d /\ t.data = e
    BY DEF Data
  <2>3. PICK u \in S["skills"] : {v \in S["skills"] : c \in v.data.provides} = {u}
    BY OneProvider
  <2> QED
    BY <2>1, <2>2, <2>3
<1> QED
  BY <1>1, <1>2

-----------------------------------------------------------------------------
(* Projections of what the index and the earlier validators let through.   *)
LEMMA FormKnown ==
  ASSUME TypeInv, NEW kind \in Elements(DependencyOrder), SourceDiagnostics(kind, sources) = {},
         NEW d \in Data(kind, sources)
  PROVE  /\ d \in ParsedData(kind, sources)
         /\ d.name # None /\ d.name \in DOMAIN Strip
         /\ kind = "skills" => d.provides \notin {None, {}} /\ None \notin d.provides \union d.requires
         /\ kind = "artifacts" => d.statuses \notin {None, {}} /\ None \notin d.statuses
         /\ kind = "workflows" =>
              /\ d.gates # None /\ None \notin d.states
              /\ \A g \in d.gates : g.name # None /\ \A names \in {g.capabilities, g.artifacts} :
                   names \notin {None, {}} /\ None \notin names
<1>1. kind \in Elements(Kinds)
  BY KindsFacts
<1>2. d \in ParsedData(kind, sources)
  BY AllParsed
<1>3. PICK s \in sources[kind] : s.data = d /\ d.form # "malformed"
  BY <1>2 DEF ParsedData, Parsed
<1>4. /\ s.path \in Elements(Files[kind])
      /\ d \in Contents[s.path] \ {Absent, NotAFile, Unreadable}
  BY <1>1, <1>3 DEF TypeInv
<1> QED
  BY <1>1, <1>2, <1>3, <1>4, FormAssumption

LEMMA CapabilitiesBlank ==
  ASSUME TypeInv, SourceDiagnostics("skills", sources) = {},
         CapabilitiesFail(sources) \/ RequirementsFail(sources)
  PROVE  BlankUsed(sources)
<1>1. "skills" \in Elements(DependencyOrder)
  BY KindsFacts
<1>2. CASE CapabilitiesFail(sources)
  <2>1. PICK d \in Data("skills", sources) : Unlisted(d.provides)
    BY <1>2 DEF CapabilitiesFail
  <2>2. d \in ParsedData("skills", sources) /\ d.provides \notin {None, {}} /\ None \notin d.provides
    BY <1>1, FormKnown
  <2>3. PICK n \in d.provides : Strip[n] = ""
    BY <2>1, <2>2 DEF Unlisted, Blank
  <2> QED
    BY <2>2, <2>3 DEF BlankUsed
<1>3. CASE RequirementsFail(sources)
  <2>1. PICK d \in Data("skills", sources) : \E n \in d.requires : Blank(n)
    BY <1>3 DEF RequirementsFail
  <2>2. d \in ParsedData("skills", sources) /\ None \notin d.requires
    BY <1>1, FormKnown
  <2>3. PICK n \in d.requires : Strip[n] = ""
    BY <2>1, <2>2 DEF Blank
  <2> QED
    BY <2>2, <2>3 DEF BlankUsed
<1> QED
  BY <1>2, <1>3

LEMMA StatusesBlank ==
  ASSUME TypeInv, SourceDiagnostics("artifacts", sources) = {}, StatusesFail(sources)
  PROVE  BlankUsed(sources)
<1>1. PICK d \in Data("artifacts", sources) : Unlisted(d.statuses)
  BY DEF StatusesFail
<1>2. d \in ParsedData("artifacts", sources) /\ d.statuses \notin {None, {}} /\ None \notin d.statuses
  BY KindsFacts, FormKnown
<1>3. PICK n \in d.statuses : Strip[n] = ""
  BY <1>1, <1>2 DEF Unlisted, Blank
<1> QED
  BY <1>2, <1>3 DEF BlankUsed

LEMMA StatesBlank ==
  ASSUME TypeInv, SourceDiagnostics("workflows", sources) = {}, StatesFail(sources)
  PROVE  BlankUsed(sources)
<1>1. PICK d \in Data("workflows", sources) :
        \/ d.gates = None \/ \E n \in d.states : Blank(n)
        \/ \E g \in d.gates : Blank(g.name) \/ Unlisted(g.capabilities) \/ Unlisted(g.artifacts)
  BY DEF StatesFail
<1>2. /\ d \in ParsedData("workflows", sources) /\ d.gates # None /\ None \notin d.states
      /\ \A g \in d.gates : g.name # None /\ \A names \in {g.capabilities, g.artifacts} :
           names \notin {None, {}} /\ None \notin names
  BY KindsFacts, FormKnown
<1>3. CASE \E n \in d.states : Blank(n)
  BY <1>2, <1>3 DEF BlankUsed, Blank
<1>4. CASE \E g \in d.gates : Blank(g.name) \/ Unlisted(g.capabilities) \/ Unlisted(g.artifacts)
  <2>1. PICK g \in d.gates : Blank(g.name) \/ Unlisted(g.capabilities) \/ Unlisted(g.artifacts)
    BY <1>4
  <2>2. PICK names \in {{g.name}, g.capabilities, g.artifacts} : \E n \in names : Strip[n] = ""
    BY <1>2, <2>1 DEF Unlisted, Blank
  <2>3. g \in GatesOf(sources)
    BY <1>2 DEF GatesOf
  <2> QED
    BY <2>2, <2>3 DEF BlankUsed
<1> QED
  BY <1>1, <1>2, <1>3, <1>4

(* A second name is no failure of a projection once the kind is indexed.   *)
LEMMA IndexedProjects ==
  ASSUME NEW S, NEW kind, Indexed(kind, S)
  PROVE  /\ ~NamesFail(kind, S)
         /\ ~OnceFails(kind, S, Strip)
         /\ (\A d \in Data(kind, S) : d.name \in DOMAIN Strip) => ~OnceFails(kind, S, AsWritten)
<1>1. ~NamesFail(kind, S)
  BY DEF NamesFail, Indexed
<1>2. ~Repeated(kind, S, AsWritten) /\ \A s \in S[kind] : Strip[s.data.name] = s.data.name
  BY DEF Indexed, Names, Data
<1>3. ASSUME NEW s \in S[kind], NEW t \in S[kind], s # t, s.data.name = t.data.name
      PROVE  FALSE
  BY <1>2, <1>3 DEF Repeated
<1>4. ~Repeated(kind, S, Strip)
  BY <1>2, <1>3 DEF Repeated
<1> QED
  BY <1>1, <1>2, <1>4 DEF OnceFails

LEMMA OnlyBlankFails ==
  ASSUME TypeInv, NEW j \in 0 .. 7,
         \A kind \in Elements(Kinds) : Indexed(kind, sources),
         \A i \in 1 .. j : SourceDiagnostics(DependencyOrder[i], sources) = {},
         ProjectionFails(DependencyOrder[j + 1], sources)
  PROVE  BlankUsed(sources)
<1>1. \A kind \in Elements(Kinds) : ~NamesFail(kind, sources) /\ ~OnceFails(kind, sources, Strip)
  BY IndexedProjects
<1>2. \A kind \in {"permission-profiles", "profiles", "workflows", "agents", "skills", "artifacts", "targets"} :
        ~NamesFail(kind, sources) /\ ~OnceFails(kind, sources, Strip)
  BY <1>1, KindsFacts
<1> DEFINE Judged(kind) == SourceDiagnostics(kind, sources) = {}
<1>3. /\ j = 3 => Judged("skills")
      /\ j = 5 => Judged("skills") /\ Judged("artifacts")
      /\ j = 6 => Judged("skills") /\ Judged("agents") /\ Judged("workflows")
      /\ j = 7 => Judged("skills") /\ Judged("workflows")
  <2>1. j = 3 => Judged(DependencyOrder[3])
    OBVIOUS
  <2>2. j = 5 => Judged(DependencyOrder[3]) /\ Judged(DependencyOrder[5])
    OBVIOUS
  <2>3. j = 6 => Judged(DependencyOrder[3]) /\ Judged(DependencyOrder[4]) /\ Judged(DependencyOrder[6])
    OBVIOUS
  <2>4. j = 7 => Judged(DependencyOrder[3]) /\ Judged(DependencyOrder[6])
    OBVIOUS
  <2>5. /\ DependencyOrder[3] = "skills" /\ DependencyOrder[4] = "agents"
        /\ DependencyOrder[5] = "artifacts" /\ DependencyOrder[6] = "workflows"
    BY DEF DependencyOrder
  <2> QED
    BY <2>1, <2>2, <2>3, <2>4, <2>5
<1>4. j \in {0, 1, 2, 3, 4, 5, 6, 7}
  OBVIOUS
<1>5. /\ DependencyOrder[1] = "permission-profiles" /\ DependencyOrder[2] = "targets"
      /\ DependencyOrder[3] = "skills" /\ DependencyOrder[4] = "agents"
      /\ DependencyOrder[5] = "artifacts" /\ DependencyOrder[6] = "workflows"
      /\ DependencyOrder[7] = "profiles" /\ DependencyOrder[8] = "bundles"
  BY DEF DependencyOrder
<1>6. CASE j \in {0, 1, 2, 4}
  BY <1>2, <1>5, <1>6 DEF ProjectionFails
<1>7. CASE j = 3
  <2>1. CapabilitiesFail(sources)
    BY <1>2, <1>5, <1>7 DEF ProjectionFails
  <2> QED
    BY <1>3, <1>7, <2>1, CapabilitiesBlank
<1>8. CASE j = 5
  <2>1. CapabilitiesFail(sources) \/ StatusesFail(sources)
    BY <1>2, <1>5, <1>8 DEF ProjectionFails
  <2> QED
    BY <1>3, <1>8, <2>1, CapabilitiesBlank, StatusesBlank
<1>9. CASE j = 6
  <2>1. \A kind \in {"agents", "workflows"} : \A d \in Data(kind, sources) : d.name \in DOMAIN Strip
    BY <1>3, <1>9, FormKnown, KindsFacts
  <2>2. \A kind \in {"agents", "workflows"} : ~OnceFails(kind, sources, AsWritten)
    BY <2>1, IndexedProjects, KindsFacts
  <2>3. CapabilitiesFail(sources)
    BY <2>2, <1>5, <1>9 DEF ProjectionFails
  <2> QED
    BY <1>3, <1>9, <2>3, CapabilitiesBlank
<1>10. CASE j = 7
  <2>1. CapabilitiesFail(sources) \/ RequirementsFail(sources) \/ StatesFail(sources)
    BY <1>2, <1>5, <1>10 DEF ProjectionFails
  <2> QED
    BY <1>3, <1>10, <2>1, CapabilitiesBlank, StatesBlank
<1> QED
  BY <1>4, <1>6, <1>7, <1>8, <1>9, <1>10

-----------------------------------------------------------------------------
(* The invariant: its first part, then the snapshot.                       *)
LEMMA TypesKept ==
  ASSUME TypeInv, [Next]_vars
  PROVE  TypeInv'
<1>1. CASE Discover
  BY <1>1 DEF Discover, TypeInv, Refuse, position
<1>2. CASE Read
  <2>1. PICK i \in DOMAIN Files[Kind] :
          LET p == Files[Kind][i]
          IN  IF disk[p] \in {Absent, NotAFile, Unreadable}
              THEN Refuse("read")
              ELSE sources' = [sources EXCEPT ![Kind] = @ \union {[path |-> p, data |-> disk[p]]}]
    BY <1>2 DEF Read
  <2> DEFINE p == Files[Kind][i]
             s == [path |-> p, data |-> disk[p]]
  <2>2. disk' = disk
    BY <1>2 DEF Read
  <2>3. CASE sources' = sources
    BY <2>2, <2>3 DEF TypeInv
  <2>4. CASE /\ disk[p] \notin {Absent, NotAFile, Unreadable}
             /\ sources' = [sources EXCEPT ![Kind] = @ \union {s}]
    <3>1. SUFFICES ASSUME NEW kind \in Elements(Kinds), NEW u \in sources'[kind]
                   PROVE  /\ u.path \in Elements(Files[kind])
                          /\ u.data \in Contents[u.path] \ {Absent, NotAFile, Unreadable}
      BY <2>2, <2>4 DEF TypeInv
    <3>2. CASE u \in sources[kind]
      BY <3>2 DEF TypeInv
    <3>3. CASE u \notin sources[kind]
      <4>1. kind = Kind /\ u = s
        BY <2>4, <3>3 DEF TypeInv
      <4>2. p \in Elements(Files[kind]) /\ p \in DOMAIN Seed
        BY <4>1, SeedAssumption, FilesAssumption DEF Elements
      <4>3. disk[p] \in Contents[p]
        BY <4>2, SeedAssumption DEF TypeInv
      <4> QED
        BY <4>1, <4>2, <4>3, <2>4
    <3> QED
      BY <3>2, <3>3
  <2> QED
    BY <2>1, <2>3, <2>4 DEF Refuse, position
<1>3. CASE Edit
  BY <1>3 DEF Edit, TypeInv, position
<1>4. CASE Run
  BY <1>4 DEF Run, TypeInv, Nothing
<1>5. CASE Finish
  BY <1>5 DEF Finish, TypeInv, Nothing
<1>6. CASE Loaded \/ Validate \/ Cover \/ UNCHANGED vars
  <2>1. UNCHANGED <<disk, sources>>
    BY <1>6 DEF Loaded, Validate, Cover, vars, position, Refuse
  <2> QED
    BY <2>1 DEF TypeInv
<1> QED
  BY <1>1, <1>2, <1>3, <1>4, <1>5, <1>6 DEF Next

(* All kinds went through, once everything is loaded and judged.           *)
LEMMA AllJudged ==
  ASSUME NEW S, \A i \in 1 .. 9 : Indexed(Kinds[i], S),
         \A i \in 1 .. 8 : SourceDiagnostics(DependencyOrder[i], S) = {}
  PROVE  Sound(S)
BY KindsFacts DEF Sound, Elements

LEMMA SnapshotKept ==
  ASSUME TypeInv, SnapshotInv, [Next]_vars
  PROVE  SnapshotInv'
<1>1. CASE Run
  BY <1>1, KindsFacts DEF Run, SnapshotInv, Snapshot
<1>2. SUFFICES ASSUME ~Run, command' = "snapshot"
               PROVE  SnapshotInv'
  BY <1>1 DEF SnapshotInv
<1>3. command = "snapshot"
  BY <1>2 DEF Next, Discover, Read, Loaded, Validate, Finish, Cover, Edit, vars
<1>4. /\ plan = Snapshot /\ Len(plan) = 1 /\ Load = Kinds /\ Judge = DependencyOrder
      /\ Len(Load) = 9 /\ Len(Judge) = 8
      /\ loaded \in 0 .. 9 /\ judged \in 0 .. 8
      /\ judged > 0 => loaded = 9
      /\ result = "passed" => judged = 8
      /\ \A i \in 1 .. loaded : Indexed(Kinds[i], sources)
      /\ \A i \in 1 .. judged : SourceDiagnostics(DependencyOrder[i], sources) = {}
  BY <1>3, SnapshotFacts, KindsFacts DEF SnapshotInv
<1>5. ASSUME Loading,
             \A kind \in Elements(Kinds) : kind # Kind => sources'[kind] = sources[kind],
             UNCHANGED <<plan, loaded, judged>>, result' \in {"running", "refused"}
      PROVE  SnapshotInv'
  <2>1. judged = 0 /\ loaded < 9
    BY <1>4, <1>5 DEF Loading
  <2>2. ASSUME NEW i \in 1 .. loaded
        PROVE  Indexed(Kinds[i], sources')
    <3>1. Kinds[i] \in Elements(Kinds) /\ Kinds[i] # Kinds[loaded + 1]
      BY <1>4, <2>1, KindsFacts DEF Elements
    <3>2. sources'[Kinds[i]] = sources[Kinds[i]]
      BY <1>4, <1>5, <3>1 DEF Kind
    <3> QED
      BY <1>4, <3>2 DEF Indexed, Names, Data, Repeated
  <2> QED
    BY <1>4, <1>5, <2>1, <2>2 DEF SnapshotInv
<1>6. CASE Discover
  BY <1>5, <1>6 DEF Discover, Loading, Refuse, position, TypeInv
<1>7. CASE Read
  BY <1>5, <1>7 DEF Read, Loading, Refuse, position, TypeInv
<1>8. CASE Loaded
  <2>1. UNCHANGED <<plan, judged, sources>>
    BY <1>8 DEF Loaded, Refuse, position
  <2>2. loaded < 9 /\ judged = 0
    BY <1>4, <1>8 DEF Loaded, Loading
  <2>3. result' \in {"running", "refused"}
    BY <1>8 DEF Loaded, Loading, Refuse
  <2>4. CASE loaded' = loaded
    BY <1>4, <2>1, <2>2, <2>3, <2>4 DEF SnapshotInv
  <2>5. CASE loaded' = loaded + 1 /\ Indexed(Kinds[loaded + 1], sources)
    <3>1. \A i \in 1 .. loaded + 1 : Indexed(Kinds[i], sources)
      BY <1>4, <2>5
    <3> QED
      BY <1>4, <2>1, <2>2, <2>3, <2>5, <3>1 DEF SnapshotInv
  <2> QED
    BY <1>3, <1>4, <1>8, <2>4, <2>5 DEF Loaded, Refuse, position, Kind
<1>9. CASE Validate
  <2>1. UNCHANGED <<plan, loaded, sources>>
    BY <1>9 DEF Validate, Refuse, position
  <2>2. loaded = 9 /\ judged < 8 /\ result = "running"
    BY <1>4, <1>9 DEF Validate
  <2>3. CASE judged' = judged /\ result' # "passed"
    BY <1>4, <2>1, <2>2, <2>3 DEF SnapshotInv
  <2>4. CASE /\ judged' = judged + 1 /\ result' = result
             /\ SourceDiagnostics(DependencyOrder[judged + 1], sources) = {}
    <3>1. \A i \in 1 .. judged + 1 : SourceDiagnostics(DependencyOrder[i], sources) = {}
      BY <1>4, <2>4
    <3> QED
      BY <1>4, <2>1, <2>2, <2>4, <3>1 DEF SnapshotInv
  <2>5. \/ judged' = judged /\ result' # "passed"
        \/ /\ judged' = judged + 1 /\ result' = result
           /\ SourceDiagnostics(Judge[judged + 1], sources)
                \union FileDiagnostics(Judge[judged + 1], sources, disk) = {}
    BY <1>9 DEF Validate, Refuse, position
  <2> QED
    BY <1>4, <2>3, <2>4, <2>5
<1>10. CASE Finish
  BY <1>4, <1>10 DEF Finish, SnapshotInv
<1>11. CASE Cover
  BY <1>2, <1>11 DEF Cover
<1>12. CASE Edit \/ UNCHANGED vars
  <2>1. UNCHANGED <<command, plan, loaded, judged, sources, result>>
    BY <1>12 DEF Edit, vars, position
  <2> QED
    BY <2>1, <1>4 DEF SnapshotInv
<1> QED
  BY <1>2, <1>6, <1>7, <1>8, <1>9, <1>10, <1>11, <1>12 DEF Next

LEMMA PassedIsSound ==
  ASSUME SnapshotInv, CoverageInv, Accepted
  PROVE  Sound(sources)
<1>1. CASE command = "snapshot" /\ result = "passed"
  <2>1. judged = 8 /\ loaded = 9
    BY <1>1 DEF SnapshotInv
  <2> QED
    BY <1>1, <2>1, AllJudged DEF SnapshotInv
<1> QED
  BY <1>1 DEF Accepted, CoverageInv

LEMMA CoverageKept ==
  ASSUME SnapshotInv, CoverageInv, [Next]_vars
  PROVE  CoverageInv'
<1>1. SUFFICES ASSUME command' = "coverage"
               PROVE  result' # "running" /\ Sound(sources')
  BY DEF CoverageInv, Sound
<1>2. CASE command = "coverage"
  <2>1. UNCHANGED <<sources, result>>
    BY <1>1, <1>2
    DEF CoverageInv, Next, Run, Discover, Read, Loaded, Validate, Finish, Cover, Edit, vars, position, Loading
  <2> QED
    BY <1>2, <2>1 DEF CoverageInv
<1>3. CASE command # "coverage"
  <2>1. Cover
    BY <1>1, <1>3 DEF Next, Run, Discover, Read, Loaded, Validate, Finish, Edit, vars
  <2>2. Accepted /\ sources' = sources /\ result' # "running"
    BY <2>1 DEF Cover, Accepted, position
  <2> QED
    BY <2>2, PassedIsSound
<1> QED
  BY <1>2, <1>3

LEMMA JudgedKept ==
  ASSUME TypeInv, SnapshotInv, JudgedByDiagnostics, [Next]_vars
  PROVE  JudgedByDiagnostics'
<1>1. SUFFICES ASSUME command' = "snapshot", result' = "refused", reason' = "projection"
               PROVE  BlankUsed(sources)'
  BY DEF JudgedByDiagnostics
<1>2. CASE Validate
  <2>1. command = "snapshot" /\ sources' = sources
    BY <1>1, <1>2 DEF Validate, Refuse, position
  <2>2. /\ Load = Kinds /\ Judge = DependencyOrder /\ judged \in 0 .. 8
        /\ \A i \in 1 .. loaded : Indexed(Kinds[i], sources)
        /\ \A i \in 1 .. judged : SourceDiagnostics(DependencyOrder[i], sources) = {}
    BY <2>1, SnapshotFacts DEF SnapshotInv
  <2>3. loaded = 9 /\ judged \in 0 .. 7
    BY <1>2, <2>2, KindsFacts DEF Validate
  <2>4. ProjectionFails(DependencyOrder[judged + 1], sources)
    BY <1>1, <1>2, <2>2 DEF Validate, Refuse
  <2>5. \A kind \in Elements(Kinds) : Indexed(kind, sources)
    BY <2>2, <2>3, KindsFacts DEF Elements
  <2>6. BlankUsed(sources)
    BY <2>2, <2>4, <2>5, <2>3, OnlyBlankFails
  <2> QED
    BY <2>1, <2>6 DEF BlankUsed, ParsedData, Parsed, GatesOf
<1>3. CASE Edit \/ UNCHANGED vars
  <2>1. UNCHANGED <<command, sources, result, reason>>
    BY <1>3 DEF Edit, vars, position
  <2> QED
    BY <1>1, <2>1 DEF JudgedByDiagnostics, BlankUsed, ParsedData, Parsed, GatesOf
<1>4. CASE Run \/ Discover \/ Read \/ Loaded \/ Finish \/ Cover
  BY <1>1, <1>4 DEF Run, Discover, Read, Loaded, Finish, Cover, Refuse, Loading
<1> QED
  BY <1>2, <1>3, <1>4 DEF Next

-----------------------------------------------------------------------------
(* The commands for single kinds.  The judgement of a kind reads the       *)
(* sources of these kinds and no others.                                   *)
Consulted(kind) ==
  {kind} \union
  CASE kind = "targets" -> {"permission-profiles"}
    [] kind = "skills" -> {"agents"}
    [] kind = "agents" -> {"skills", "permission-profiles"}
    [] kind = "workflows" -> {"skills", "artifacts"}
    [] kind = "profiles" -> {"workflows", "agents", "skills"}
    [] kind = "bundles" -> Elements(DependencyOrder)
    [] OTHER -> {}

LEMMA SameSources ==
  ASSUME NEW S, NEW T, NEW kind, S[kind] = T[kind]
  PROVE  /\ Data(kind, S) = Data(kind, T)
         /\ Parsed(kind, S) = Parsed(kind, T)
         /\ ParsedData(kind, S) = ParsedData(kind, T)
         /\ Names(kind, S) = Names(kind, T)
         /\ NamesFail(kind, S) = NamesFail(kind, T)
         /\ \A f : Repeated(kind, S, f) = Repeated(kind, T, f) /\ OnceFails(kind, S, f) = OnceFails(kind, T, f)
         /\ CommonDiagnostics(kind, S) = CommonDiagnostics(kind, T)
<1>1. Data(kind, S) = Data(kind, T) /\ Parsed(kind, S) = Parsed(kind, T)
  BY DEF Data, Parsed
<1>2. ParsedData(kind, S) = ParsedData(kind, T) /\ Names(kind, S) = Names(kind, T)
  BY <1>1 DEF ParsedData, Names
<1>3. NamesFail(kind, S) = NamesFail(kind, T)
  BY <1>2 DEF NamesFail
<1>4. ASSUME NEW f
      PROVE  Repeated(kind, S, f) = Repeated(kind, T, f) /\ OnceFails(kind, S, f) = OnceFails(kind, T, f)
  BY <1>3 DEF Repeated, OnceFails
<1>5. CommonDiagnostics(kind, S) = CommonDiagnostics(kind, T)
  BY <1>1 DEF CommonDiagnostics
<1> QED
  BY <1>1, <1>2, <1>3, <1>4, <1>5

LEMMA SameSkills ==
  ASSUME NEW S, NEW T, S["skills"] = T["skills"]
  PROVE  /\ Capabilities(S) = Capabilities(T)
         /\ Provided(S) = Provided(T) /\ ProvidedAgain(S) = ProvidedAgain(T)
         /\ CapabilitiesFail(S) = CapabilitiesFail(T) /\ RequirementsFail(S) = RequirementsFail(T)
         /\ \A names : ProvidedBy(names, S) = ProvidedBy(names, T) /\ RequiredBy(names, S) = RequiredBy(names, T)
<1>1. /\ Data("skills", S) = Data("skills", T) /\ Parsed("skills", S) = Parsed("skills", T)
      /\ ParsedData("skills", S) = ParsedData("skills", T)
  BY SameSources
<1>2. Capabilities(S) = Capabilities(T) /\ Provided(S) = Provided(T)
  BY <1>1 DEF Capabilities, Provided
<1>3. ProvidedAgain(S) = ProvidedAgain(T)
  BY <1>1, <1>2 DEF ProvidedAgain
<1>4. CapabilitiesFail(S) = CapabilitiesFail(T) /\ RequirementsFail(S) = RequirementsFail(T)
  BY <1>1 DEF CapabilitiesFail, RequirementsFail
<1>5. ASSUME NEW names
      PROVE  ProvidedBy(names, S) = ProvidedBy(names, T) /\ RequiredBy(names, S) = RequiredBy(names, T)
  BY <1>1 DEF ProvidedBy, RequiredBy, Selected
<1> QED
  BY <1>2, <1>3, <1>4, <1>5

LEMMA SameProjection ==
  ASSUME NEW S, NEW T, NEW kind \in Elements(DependencyOrder),
         \A k \in Consulted(kind) : S[k] = T[k]
  PROVE  ProjectionFails(kind, S) = ProjectionFails(kind, T)
<1>1. \A k \in Consulted(kind) :
        /\ NamesFail(k, S) = NamesFail(k, T)
        /\ OnceFails(k, S, Strip) = OnceFails(k, T, Strip)
        /\ OnceFails(k, S, AsWritten) = OnceFails(k, T, AsWritten)
  BY SameSources
<1>2. "skills" \in Consulted(kind) =>
        CapabilitiesFail(S) = CapabilitiesFail(T) /\ RequirementsFail(S) = RequirementsFail(T)
  BY SameSkills
<1>3. "artifacts" \in Consulted(kind) => StatusesFail(S) = StatusesFail(T)
  BY SameSources DEF StatusesFail
<1>4. "workflows" \in Consulted(kind) => StatesFail(S) = StatesFail(T)
  BY SameSources DEF StatesFail
<1>5. CASE kind = "skills"
  BY <1>1, <1>5 DEF ProjectionFails, Consulted
<1>6. CASE kind = "agents"
  BY <1>1, <1>2, <1>6 DEF ProjectionFails, Consulted
<1>7. CASE kind = "workflows"
  BY <1>1, <1>2, <1>3, <1>7 DEF ProjectionFails, Consulted
<1>8. CASE kind = "profiles"
  BY <1>1, <1>2, <1>8 DEF ProjectionFails, Consulted
<1>9. CASE kind = "bundles"
  <2>1. Consulted(kind) = Elements(DependencyOrder)
    BY <1>9 DEF Consulted
  <2>2. {"profiles", "workflows", "agents", "skills", "artifacts", "permission-profiles", "targets"}
          \subseteq Consulted(kind)
    BY <2>1, KindsFacts
  <2> QED
    BY <1>1, <1>2, <1>4, <1>9, <2>2 DEF ProjectionFails
<1>10. CASE kind \in {"permission-profiles", "targets", "artifacts"}
  BY <1>10 DEF ProjectionFails
<1> QED
  BY <1>5, <1>6, <1>7, <1>8, <1>9, <1>10, KindsFacts

LEMMA SameRules ==
  ASSUME NEW S, NEW T, NEW kind \in Elements(DependencyOrder),
         \A k \in Consulted(kind) : S[k] = T[k]
  PROVE  RuleDiagnostics(kind, S) = RuleDiagnostics(kind, T)
<1>1. \A k \in Consulted(kind) :
        /\ Data(k, S) = Data(k, T) /\ Parsed(k, S) = Parsed(k, T) /\ ParsedData(k, S) = ParsedData(k, T)
        /\ Names(k, S) = Names(k, T)
  BY SameSources
<1>2. kind \in Consulted(kind)
  BY DEF Consulted
<1>3. "skills" \in Consulted(kind) =>
        /\ Capabilities(S) = Capabilities(T)
        /\ Provided(S) = Provided(T) /\ ProvidedAgain(S) = ProvidedAgain(T)
        /\ \A names : ProvidedBy(names, S) = ProvidedBy(names, T) /\ RequiredBy(names, S) = RequiredBy(names, T)
  BY SameSkills
<1>4. CASE kind = "skills"
  <2>1. "agents" \in Consulted(kind)
    BY <1>4 DEF Consulted
  <2>2. \A d : SkillRules(d, S) = SkillRules(d, T)
    BY <1>1, <1>2, <1>3, <1>4, <2>1 DEF SkillRules
  <2>3. SkillDiagnostics(S) = SkillDiagnostics(T)
    BY <1>1, <1>2, <1>3, <1>4, <2>2 DEF SkillDiagnostics
  <2> QED
    BY <1>4, <2>3 DEF RuleDiagnostics
<1>5. CASE kind = "agents"
  <2>1. {"skills", "permission-profiles"} \subseteq Consulted(kind)
    BY <1>5 DEF Consulted
  <2>2. \A d : AgentRules(d, S) = AgentRules(d, T)
    BY <1>1, <1>3, <2>1 DEF AgentRules
  <2> QED
    BY <1>1, <1>2, <1>5, <2>2 DEF RuleDiagnostics
<1>6. CASE kind = "artifacts"
  BY <1>1, <1>2, <1>6 DEF RuleDiagnostics
<1>7. CASE kind = "workflows"
  <2>1. {"skills", "artifacts"} \subseteq Consulted(kind)
    BY <1>7 DEF Consulted
  <2>2. \A a : Allowed(a, S) = Allowed(a, T)
    BY <1>1, <2>1 DEF Allowed
  <2>3. \A g : Unsayable(g, S) = Unsayable(g, T)
    BY <2>2 DEF Unsayable
  <2>4. \A g : GateRules(g, S) = GateRules(g, T)
    BY <1>1, <1>3, <2>1, <2>3 DEF GateRules
  <2>5. GatesOf(S) = GatesOf(T)
    BY <1>1, <1>2, <1>7 DEF GatesOf
  <2> QED
    BY <1>7, <2>4, <2>5 DEF RuleDiagnostics
<1>8. CASE kind = "profiles"
  <2>1. {"workflows", "agents", "skills"} \subseteq Consulted(kind)
    BY <1>8 DEF Consulted
  <2>2. \A d : ProfileRules(d, S) = ProfileRules(d, T)
    BY <1>1, <1>3, <2>1 DEF ProfileRules
  <2> QED
    BY <1>1, <1>2, <1>8, <2>2 DEF RuleDiagnostics
<1>9. CASE kind = "targets"
  <2>1. "permission-profiles" \in Consulted(kind)
    BY <1>9 DEF Consulted
  <2>2. Profiled(S) = Profiled(T)
    BY <1>1, <2>1 DEF Profiled
  <2>3. \A d : TargetRules(d, S) = TargetRules(d, T)
    BY <2>2 DEF TargetRules
  <2> QED
    BY <1>1, <1>2, <1>9, <2>3 DEF RuleDiagnostics
<1>10. CASE kind = "bundles"
  <2>1. {"profiles", "workflows", "agents", "skills", "artifacts", "permission-profiles", "targets", "bundles"}
          \subseteq Consulted(kind)
    BY <1>10, KindsFacts DEF Consulted
  <2>2. \A d, b : BindingRules(d, b, S) = BindingRules(d, b, T)
    BY <1>1, <1>3, <2>1 DEF BindingRules
  <2>3. \A d : BundleRules(d, S) = BundleRules(d, T)
    BY <1>1, <2>1, <2>2 DEF BundleRules
  <2>4. UnproducedArtifacts(S) = UnproducedArtifacts(T)
    <3>1. Produced(S) = Produced(T)
      BY <1>1, <2>1 DEF Produced
    <3>2. S["bundles"] = T["bundles"]
      BY <2>1
    <3> QED
      BY <1>1, <2>1, <3>1, <3>2 DEF UnproducedArtifacts
  <2> QED
    BY <1>1, <2>1, <2>3, <2>4, <1>10 DEF RuleDiagnostics
<1>11. CASE kind = "permission-profiles"
  BY <1>11 DEF RuleDiagnostics
<1> QED
  BY <1>4, <1>5, <1>6, <1>7, <1>8, <1>9, <1>10, <1>11, KindsFacts

LEMMA SameJudgement ==
  ASSUME NEW S, NEW T, NEW tree, NEW kind \in Elements(DependencyOrder),
         \A k \in Consulted(kind) : S[k] = T[k]
  PROVE  /\ SourceDiagnostics(kind, S) = SourceDiagnostics(kind, T)
         /\ FileDiagnostics(kind, S, tree) = FileDiagnostics(kind, T, tree)
         /\ ProjectionFails(kind, S) = ProjectionFails(kind, T)
<1>1. kind \in Consulted(kind)
  BY DEF Consulted
<1>2. SourceDiagnostics(kind, S) = SourceDiagnostics(kind, T)
  BY <1>1, SameRules, SameSources DEF SourceDiagnostics
<1>3. FileDiagnostics(kind, S, tree) = FileDiagnostics(kind, T, tree)
  <2>1. S[kind] = T[kind]
    BY <1>1
  <2>2. Parsed(kind, S) = Parsed(kind, T) /\ ParsedData(kind, S) = ParsedData(kind, T)
    BY <2>1, SameSources
  <2>3. kind \notin {"skills", "artifacts"} => FileDiagnostics(kind, S, tree) = {} /\ FileDiagnostics(kind, T, tree) = {}
    BY DEF FileDiagnostics
  <2>4. kind = "skills" => FileDiagnostics(kind, S, tree) = FileDiagnostics(kind, T, tree)
    BY <2>2 DEF FileDiagnostics
  <2>5. kind = "artifacts" => FileDiagnostics(kind, S, tree) = FileDiagnostics(kind, T, tree)
    BY <2>2 DEF FileDiagnostics
  <2> QED
    BY <2>3, <2>4, <2>5
<1> QED
  BY <1>2, <1>3, SameProjection

(* The nine passes: each judges one kind, having loaded what it consults,  *)
(* and only the second relies on what the one before it has loaded.        *)
Orderly(i) ==
  LET v == Validators[i] IN
  /\ Len(v.judge) = 1 /\ v.judge[1] \in Elements(DependencyOrder)
  /\ Len(v.load) \in Nat
  /\ \A j \in 1 .. Len(v.load) : v.load[j] \in Elements(Kinds)
  /\ \A j, k \in 1 .. Len(v.load) : v.load[j] = v.load[k] => j = k
  /\ \A k \in Consulted(v.judge[1]) :
       (\E j \in 1 .. Len(v.load) : v.load[j] = k) \/ (i = 2 /\ k = "permission-profiles")
  /\ v.anew \/ i = 2

LEMMA PassFacts ==
  /\ Validators \in Seq(Elements(Validators)) /\ Len(Validators) = 9
  /\ \A i \in 1 .. 9 : Orderly(i)
  /\ \A kind \in Elements(DependencyOrder) : \E i \in 1 .. 9 : Validators[i].judge[1] = kind
  /\ Validators[1].load = <<"permission-profiles">>
<1>1. Len(Validators) = 9 /\ DOMAIN Validators = 1 .. 9
  BY DEF Validators
<1>2. Validators \in Seq(Elements(Validators))
  <2>1. \A i \in 1 .. 9 : Validators[i] \in Elements(Validators)
    BY <1>1 DEF Elements
  <2>2. Validators = [i \in 1 .. 9 |-> Validators[i]]
    BY <1>1 DEF Validators
  <2> QED
    BY <2>1, <2>2
<1>3. Orderly(1) /\ Orderly(2) /\ Orderly(7)
  BY KindsFacts DEF Orderly, Validators, Pass, Further, Consulted
<1>4. Orderly(3)
  <2>1. /\ Validators[3].judge = <<"skills">> /\ Validators[3].anew
        /\ Validators[3].load = <<"skills", "agents">>
    BY DEF Validators, Pass
  <2>2. Consulted("skills") = {"skills", "agents"} /\ "skills" \in Elements(DependencyOrder)
    BY KindsFacts DEF Consulted
  <2>3. {"skills", "agents"} \subseteq Elements(Kinds)
    BY KindsFacts
  <2> QED
    BY <2>1, <2>2, <2>3 DEF Orderly
<1>5. Orderly(4)
  <2>1. /\ Validators[4].judge = <<"workflows">> /\ Validators[4].anew
        /\ Validators[4].load = <<"workflows", "skills", "artifacts">>
    BY DEF Validators, Pass
  <2>2. Consulted("workflows") = {"workflows", "skills", "artifacts"} /\ "workflows" \in Elements(DependencyOrder)
    BY KindsFacts DEF Consulted
  <2>3. {"workflows", "skills", "artifacts"} \subseteq Elements(Kinds)
    BY KindsFacts
  <2> QED
    BY <2>1, <2>2, <2>3 DEF Orderly
<1>6. Orderly(5)
  <2>1. /\ Validators[5].judge = <<"profiles">> /\ Validators[5].anew
        /\ Validators[5].load = <<"profiles", "workflows", "agents", "skills">>
    BY DEF Validators, Pass
  <2>2. Consulted("profiles") = {"profiles", "workflows", "agents", "skills"} /\ "profiles" \in Elements(DependencyOrder)
    BY KindsFacts DEF Consulted
  <2>3. {"profiles", "workflows", "agents", "skills"} \subseteq Elements(Kinds)
    BY KindsFacts
  <2> QED
    BY <2>1, <2>2, <2>3 DEF Orderly
<1>7. Orderly(6)
  <2> DEFINE v == Validators[6]
             all == <<"bundles", "profiles", "workflows", "agents", "skills", "artifacts",
                      "permission-profiles", "targets">>
  <2>1. v.judge = <<"bundles">> /\ v.load = all /\ v.anew
    BY DEF Validators, Pass
  <2>2. Len(all) = 8 /\ \A j \in 1 .. 8 : all[j] \in Elements(Kinds)
    BY KindsFacts
  <2>3. \A j, k \in 1 .. 8 : all[j] = all[k] => j = k
    OBVIOUS
  <2>4. \A k \in Consulted("bundles") : \E j \in 1 .. 8 : all[j] = k
    <3>1. Consulted("bundles") = {"bundles"} \union Elements(DependencyOrder)
      BY DEF Consulted
    <3> QED
      BY <3>1, KindsFacts
  <2>5. Len(v.judge) = 1 /\ v.judge[1] = "bundles" /\ "bundles" \in Elements(DependencyOrder)
    BY <2>1, KindsFacts
  <2> HIDE DEF all
  <2> QED
    BY <2>1, <2>2, <2>3, <2>4, <2>5 DEF Orderly
<1>8. Orderly(8)
  BY KindsFacts DEF Orderly, Validators, Pass, Further, Consulted
<1>9. Orderly(9)
  <2>1. /\ Validators[9].judge = <<"agents">> /\ Validators[9].anew
        /\ Validators[9].load = <<"agents", "skills", "permission-profiles">>
    BY DEF Validators, Pass
  <2>2. Consulted("agents") = {"agents", "skills", "permission-profiles"} /\ "agents" \in Elements(DependencyOrder)
    BY KindsFacts DEF Consulted
  <2>3. {"agents", "skills", "permission-profiles"} \subseteq Elements(Kinds)
    BY KindsFacts
  <2> QED
    BY <2>1, <2>2, <2>3 DEF Orderly
<1>10. \A i \in 1 .. 9 : i \in {1, 2, 3, 4, 5, 6, 7, 8, 9}
  OBVIOUS
<1>11. \A kind \in Elements(DependencyOrder) : \E i \in 1 .. 9 : Validators[i].judge[1] = kind
  <2>1. /\ Validators[1].judge[1] = "permission-profiles" /\ Validators[2].judge[1] = "targets"
        /\ Validators[3].judge[1] = "skills" /\ Validators[4].judge[1] = "workflows"
        /\ Validators[5].judge[1] = "profiles" /\ Validators[6].judge[1] = "bundles"
        /\ Validators[8].judge[1] = "artifacts" /\ Validators[9].judge[1] = "agents"
    BY DEF Validators, Pass, Further
  <2> QED
    BY <2>1, KindsFacts
<1>12. Validators[1].load = <<"permission-profiles">>
  BY DEF Validators, Pass
<1> QED
  BY <1>1, <1>2, <1>3, <1>4, <1>5, <1>6, <1>7, <1>8, <1>9, <1>10, <1>11, <1>12

-----------------------------------------------------------------------------
(* A kind that has been judged, of the tree as it is.                      *)
Present(kind, tree) == {p \in Elements(Files[kind]) : tree[p] # Absent}
SourcesOf(paths, tree) == {[path |-> p, data |-> tree[p]] : p \in paths}

Settled(kind, tree) ==
  /\ ~SchemasFail(kind, tree) /\ ~ProjectionFails(kind, Registered(tree))
  /\ SourceDiagnostics(kind, Registered(tree)) \union FileDiagnostics(kind, Registered(tree), tree) = {}
  /\ \A s \in Registered(tree)[kind] :
       /\ s.path \in Elements(Files[kind])
       /\ s.data \in Contents[s.path] \ {Absent, NotAFile, Unreadable}

(* The passes that are over have settled their kinds; the one that runs    *)
(* has loaded what is on the disk, and the second keeps what the first had.*)
ValidatorsInv ==
  command = "validators" /\ fresh /\ result \in {"running", "passed"} =>
    /\ plan \in Seq(Elements(Validators)) /\ Len(plan) \in 1 .. 9
    /\ \A i \in 1 .. Len(plan) : plan[i] = Validators[9 - Len(plan) + i]
    /\ loaded \in 0 .. Len(Load) /\ judged \in 0 .. 1
    /\ judged = 1 => loaded = Len(Load)
    /\ result = "passed" => Len(plan) = 1 /\ judged = 1
    /\ \A i \in 1 .. 9 - Len(plan) : Settled(Validators[i].judge[1], disk)
    /\ judged = 1 => Settled(Judge[1], disk)
    /\ \A i \in 1 .. loaded : sources[Load[i]] = Registered(disk)[Load[i]]
    /\ found # None =>
         /\ loaded < Len(Load) /\ found \subseteq Present(Kind, disk)
         /\ sources[Kind] = SourcesOf(Present(Kind, disk) \ found, disk)
    /\ Len(plan) = 8 => sources["permission-profiles"] = Registered(disk)["permission-profiles"]

(* The pass that runs, in the words of the table.                          *)
LEMMA CurrentPass ==
  ASSUME ValidatorsInv, command = "validators", fresh, result \in {"running", "passed"}
  PROVE  LET i == 10 - Len(plan) IN
         /\ i \in 1 .. 9 /\ Head(plan) = Validators[i] /\ Orderly(i)
         /\ Load = Validators[i].load /\ Judge = Validators[i].judge
         /\ Len(Judge) = 1 /\ Judge[1] \in Elements(DependencyOrder)
         /\ Len(Load) \in Nat
         /\ \A j \in 1 .. Len(Load) : Load[j] \in Elements(Kinds)
         /\ \A j, k \in 1 .. Len(Load) : Load[j] = Load[k] => j = k
<1> DEFINE i == 10 - Len(plan)
<1>1. plan \in Seq(Elements(Validators)) /\ Len(plan) \in 1 .. 9 /\ plan[1] = Validators[9 - Len(plan) + 1]
  BY DEF ValidatorsInv
<1>2. i \in 1 .. 9 /\ plan[1] = Validators[i]
  <2>1. 9 - Len(plan) + 1 = 10 - Len(plan) /\ 10 - Len(plan) \in 1 .. 9
    <3> DEFINE l == Len(plan)
    <3>1. l \in 1 .. 9
      BY <1>1
    <3> HIDE DEF l
    <3>2. 9 - l + 1 = 10 - l /\ 10 - l \in 1 .. 9
      BY <3>1
    <3> QED
      BY <3>2 DEF l
  <2> QED
    BY <1>1, <2>1
<1>3. Head(plan) = plan[1]
  BY <1>1
<1>4. Load = Validators[i].load /\ Judge = Validators[i].judge
  BY <1>2, <1>3 DEF Load, Judge
<1>5. Orderly(i)
  BY <1>2, PassFacts
<1>6. Orderly(i) =>
        /\ Len(Validators[i].judge) = 1 /\ Validators[i].judge[1] \in Elements(DependencyOrder)
        /\ Len(Validators[i].load) \in Nat
        /\ \A j \in 1 .. Len(Validators[i].load) : Validators[i].load[j] \in Elements(Kinds)
        /\ \A j, k \in 1 .. Len(Validators[i].load) : Validators[i].load[j] = Validators[i].load[k] => j = k
  BY DEF Orderly
<1> QED
  BY <1>2, <1>3, <1>4, <1>5, <1>6

LEMMA RegisteredSources ==
  ASSUME NEW tree, NEW kind \in Elements(Kinds)
  PROVE  Registered(tree)[kind] = SourcesOf(Present(kind, tree), tree)
BY DEF Registered, SourcesOf, Present

(* Loading, of which the kinds loaded before are left alone.               *)
LEMMA LoadingKept ==
  ASSUME TypeInv, ValidatorsInv, command = "validators", fresh, Loading,
         UNCHANGED <<disk, command, plan, loaded, judged, result, fresh>>,
         \A kind \in Elements(Kinds) : kind # Kind => sources'[kind] = sources[kind],
         found' \subseteq Present(Kind, disk),
         sources'[Kind] = SourcesOf(Present(Kind, disk) \ found', disk)
  PROVE  ValidatorsInv'
<1>1. result = "running" /\ loaded < Len(Load)
  BY DEF Loading
<1>2. /\ Len(Load) \in Nat /\ \A j \in 1 .. Len(Load) : Load[j] \in Elements(Kinds)
      /\ \A j, k \in 1 .. Len(Load) : Load[j] = Load[k] => j = k
      /\ 10 - Len(plan) \in 1 .. 9
      /\ Load = Validators[10 - Len(plan)].load
  BY <1>1, CurrentPass
<1>3. /\ loaded \in 0 .. Len(Load) /\ Len(plan) \in 1 .. 9
      /\ \A j \in 1 .. loaded : sources[Load[j]] = Registered(disk)[Load[j]]
      /\ Len(plan) = 8 => sources["permission-profiles"] = Registered(disk)["permission-profiles"]
  BY <1>1 DEF ValidatorsInv
<1>4. Kind = Load[loaded + 1] /\ Kind \in Elements(Kinds) /\ loaded + 1 \in 1 .. Len(Load)
  BY <1>1, <1>2, <1>3 DEF Kind
<1>5. ASSUME NEW j \in 1 .. loaded
      PROVE  sources'[Load[j]] = Registered(disk)[Load[j]]
  <2>1. j \in 1 .. Len(Load) /\ j # loaded + 1
    BY <1>1, <1>3
  <2>2. Load[j] # Kind /\ Load[j] \in Elements(Kinds)
    BY <1>2, <1>4, <2>1
  <2> QED
    BY <1>3, <2>2
<1>6. Len(plan) = 8 => sources'["permission-profiles"] = Registered(disk)["permission-profiles"]
  <2>1. ASSUME Len(plan) = 8
        PROVE  Kind = "targets"
    <3>1. Load = Validators[2].load
      BY <1>2, <2>1
    <3>2. Load = <<"targets">>
      BY <3>1 DEF Validators, Further
    <3> QED
      BY <1>4, <3>2
  <2>2. "permission-profiles" \in Elements(Kinds)
    BY KindsFacts
  <2> QED
    BY <1>3, <2>1, <2>2
<1>7. Load' = Load /\ Judge' = Judge /\ Kind' = Kind
  BY DEF Load, Judge, Kind
<1>8. /\ plan' = plan /\ loaded' = loaded /\ judged' = judged /\ disk' = disk /\ result' = result
  OBVIOUS
<1> QED
  BY <1>1, <1>3, <1>5, <1>6, <1>7, <1>8 DEF ValidatorsInv

LEMMA ReadKept ==
  ASSUME TypeInv, ValidatorsInv, command = "validators", fresh, Discover \/ Read,
         result' # "refused"
  PROVE  ValidatorsInv'
<1>1. Loading /\ result = "running"
  BY DEF Discover, Read, Loading
<1>2. /\ Kind \in Elements(Kinds) /\ loaded < Len(Load)
      /\ found # None => found \subseteq Present(Kind, disk)
                         /\ sources[Kind] = SourcesOf(Present(Kind, disk) \ found, disk)
  <2>1. Len(Load) \in Nat /\ \A j \in 1 .. Len(Load) : Load[j] \in Elements(Kinds)
    BY <1>1, CurrentPass
  <2>2. loaded \in 0 .. Len(Load) /\ loaded < Len(Load)
    BY <1>1 DEF ValidatorsInv, Loading
  <2>3. loaded + 1 \in 1 .. Len(Load)
    BY <2>1, <2>2
  <2> QED
    BY <1>1, <2>1, <2>2, <2>3 DEF ValidatorsInv, Kind
<1>3. CASE Discover
  <2>1. /\ found' = Present(Kind, disk) /\ sources' = [sources EXCEPT ![Kind] = {}]
        /\ UNCHANGED <<disk, command, plan, loaded, judged, result, fresh>>
    BY <1>3 DEF Discover, Refuse, Present
  <2>2. sources'[Kind] = SourcesOf(Present(Kind, disk) \ found', disk)
    BY <1>2, <2>1 DEF TypeInv, SourcesOf
  <2> QED
    BY <1>1, <1>2, <2>1, <2>2, LoadingKept DEF TypeInv
<1>4. CASE Read
  <2>1. PICK i \in DOMAIN Files[Kind] :
          /\ Files[Kind][i] \in found
          /\ sources' = [sources EXCEPT ![Kind] = @ \union {[path |-> Files[Kind][i], data |-> disk[Files[Kind][i]]]}]
          /\ found' = found \ {Files[Kind][i]}
          /\ UNCHANGED <<plan, loaded, judged, result>>
    BY <1>4 DEF Read, Refuse
  <2> DEFINE p == Files[Kind][i]
  <2>2. found # None /\ UNCHANGED <<disk, command, fresh>>
    BY <1>4 DEF Read
  <2>3. Present(Kind, disk) \ found' = (Present(Kind, disk) \ found) \union {p}
    BY <1>2, <2>1, <2>2
  <2>4. sources'[Kind] = SourcesOf(Present(Kind, disk) \ found, disk) \union {[path |-> p, data |-> disk[p]]}
    BY <1>2, <2>1, <2>2 DEF TypeInv
  <2>5. sources'[Kind] = SourcesOf(Present(Kind, disk) \ found', disk)
    BY <2>3, <2>4 DEF SourcesOf
  <2>6. \A kind \in Elements(Kinds) : kind # Kind => sources'[kind] = sources[kind]
    BY <2>1 DEF TypeInv
  <2>7. found' \subseteq Present(Kind, disk)
    BY <1>2, <2>1, <2>2
  <2> QED
    BY <1>1, <2>1, <2>2, <2>5, <2>6, <2>7, LoadingKept
<1> QED
  BY <1>3, <1>4

LEMMA LoadedKept ==
  ASSUME ValidatorsInv, command = "validators", fresh, Loaded
  PROVE  ValidatorsInv'
<1>1. /\ result = "running" /\ loaded < Len(Load) /\ found = {} /\ found # None
      /\ loaded' = loaded + 1 /\ found' = None
      /\ UNCHANGED <<disk, command, plan, judged, sources, result, fresh>>
  BY NoneAssumption DEF Loaded, Loading
<1>2. Len(Load) \in Nat /\ \A j \in 1 .. Len(Load) : Load[j] \in Elements(Kinds)
  BY <1>1, CurrentPass
<1>3. /\ loaded \in 0 .. Len(Load) /\ judged \in 0 .. 1 /\ (judged = 1 => loaded = Len(Load))
      /\ sources[Kind] = SourcesOf(Present(Kind, disk) \ found, disk)
      /\ \A j \in 1 .. loaded : sources[Load[j]] = Registered(disk)[Load[j]]
  BY <1>1 DEF ValidatorsInv
<1>4. sources[Load[loaded + 1]] = Registered(disk)[Load[loaded + 1]]
  <2>1. Kind = Load[loaded + 1] /\ loaded + 1 \in 1 .. Len(Load)
    BY <1>1, <1>2, <1>3 DEF Kind
  <2>2. Present(Kind, disk) \ found = Present(Kind, disk)
    BY <1>1
  <2> QED
    BY <1>2, <1>3, <2>1, <2>2, RegisteredSources
<1>5. \A j \in 1 .. loaded + 1 : sources[Load[j]] = Registered(disk)[Load[j]]
  BY <1>3, <1>4
<1>6. judged = 0 /\ loaded + 1 \in 0 .. Len(Load)
  BY <1>1, <1>2, <1>3
<1>7. Load' = Load /\ Judge' = Judge
  BY <1>1 DEF Load, Judge
<1> QED
  BY <1>1, <1>5, <1>6, <1>7 DEF ValidatorsInv

LEMMA ValidateKept ==
  ASSUME TypeInv, ValidatorsInv, command = "validators", fresh, Validate,
         result' \in {"running", "passed"}
  PROVE  ValidatorsInv'
<1> DEFINE kind == Judge[judged + 1]
           T == Registered(disk)
<1>1. /\ result = "running" /\ loaded = Len(Load) /\ judged < Len(Judge)
      /\ ~SchemasFail(kind, disk) /\ ~ProjectionFails(kind, sources)
      /\ SourceDiagnostics(kind, sources) \union FileDiagnostics(kind, sources, disk) = {}
      /\ judged' = judged + 1
      /\ UNCHANGED <<disk, command, plan, loaded, found, sources, result, fresh>>
  BY DEF Validate, Refuse
<1>2. /\ Len(Judge) = 1 /\ Judge[1] \in Elements(DependencyOrder)
      /\ 10 - Len(plan) \in 1 .. 9 /\ Orderly(10 - Len(plan))
      /\ Load = Validators[10 - Len(plan)].load /\ Judge = Validators[10 - Len(plan)].judge
  BY <1>1, CurrentPass
<1>3. /\ judged \in 0 .. 1 /\ Len(plan) \in 1 .. 9
      /\ \A j \in 1 .. loaded : sources[Load[j]] = T[Load[j]]
      /\ Len(plan) = 8 => sources["permission-profiles"] = T["permission-profiles"]
      /\ found = None
  BY <1>1 DEF ValidatorsInv
<1>4. judged = 0 /\ kind = Judge[1]
  BY <1>1, <1>2, <1>3
<1>5. \A k \in Consulted(kind) : sources[k] = T[k]
  <2>1. TAKE k \in Consulted(kind)
  <2>2. (\E j \in 1 .. Len(Load) : Load[j] = k) \/ (10 - Len(plan) = 2 /\ k = "permission-profiles")
    BY <1>2, <1>4, <2>1 DEF Orderly
  <2>3. CASE \E j \in 1 .. Len(Load) : Load[j] = k
    BY <1>1, <1>3, <2>3
  <2>4. CASE 10 - Len(plan) = 2 /\ k = "permission-profiles"
    <3>1. Len(plan) = 8
      <4> DEFINE l == Len(plan)
      <4>1. l \in 1 .. 9 /\ 10 - l = 2
        BY <1>3, <2>4
      <4> HIDE DEF l
      <4>2. l = 8
        BY <4>1
      <4> QED
        BY <4>2 DEF l
    <3> QED
      BY <1>3, <2>4, <3>1
  <2> QED
    BY <2>2, <2>3, <2>4
<1>6. /\ SourceDiagnostics(kind, sources) = SourceDiagnostics(kind, T)
      /\ FileDiagnostics(kind, sources, disk) = FileDiagnostics(kind, T, disk)
      /\ ProjectionFails(kind, sources) = ProjectionFails(kind, T)
  BY <1>2, <1>4, <1>5, SameJudgement
<1>7. \A s \in T[kind] :
        /\ s.path \in Elements(Files[kind])
        /\ s.data \in Contents[s.path] \ {Absent, NotAFile, Unreadable}
  <2>1. sources[kind] = T[kind] /\ kind \in Elements(Kinds)
    BY <1>2, <1>4, <1>5, KindsFacts DEF Consulted
  <2> QED
    BY <2>1 DEF TypeInv
<1>8. Settled(Judge[1], disk)
  BY <1>1, <1>4, <1>6, <1>7 DEF Settled
<1>9. Load' = Load /\ Judge' = Judge
  BY <1>1 DEF Load, Judge
<1> QED
  BY <1>1, <1>3, <1>4, <1>8, <1>9 DEF ValidatorsInv

LEMMA FinishKept ==
  ASSUME ValidatorsInv, command = "validators", fresh, Finish
  PROVE  ValidatorsInv'
<1>1. /\ result = "running" /\ loaded = Len(Load) /\ judged = Len(Judge)
      /\ UNCHANGED <<disk, command, found, fresh>>
  BY DEF Finish
<1>2. /\ Len(Judge) = 1 /\ 10 - Len(plan) \in 1 .. 9
      /\ Load = Validators[10 - Len(plan)].load /\ Judge = Validators[10 - Len(plan)].judge
  BY <1>1, CurrentPass
<1>3. /\ plan \in Seq(Elements(Validators)) /\ Len(plan) \in 1 .. 9
      /\ \A i \in 1 .. Len(plan) : plan[i] = Validators[9 - Len(plan) + i]
      /\ \A i \in 1 .. 9 - Len(plan) : Settled(Validators[i].judge[1], disk)
      /\ Settled(Judge[1], disk)
      /\ \A i \in 1 .. loaded : sources[Load[i]] = Registered(disk)[Load[i]]
      /\ found = None
  BY <1>1, <1>2 DEF ValidatorsInv
<1>4. CASE Len(plan) = 1
  <2>1. result' = "passed" /\ UNCHANGED <<plan, loaded, judged, sources>>
    BY <1>4 DEF Finish
  <2>2. Load' = Load /\ Judge' = Judge
    BY <2>1 DEF Load, Judge
  <2>3. judged = 1 /\ plan' = plan /\ sources' = sources /\ loaded' = loaded /\ judged' = judged
        /\ disk' = disk /\ found' = None
    BY <1>1, <1>2, <1>3, <2>1
  <2>4. Len(plan) = 8 => sources["permission-profiles"] = Registered(disk)["permission-profiles"]
    BY <1>4
  <2>5. loaded \in 0 .. Len(Load)
    BY <1>1 DEF ValidatorsInv
  <2> QED
    BY <1>1, <1>3, <1>4, <2>2, <2>3, <2>4, <2>5 DEF ValidatorsInv
<1>5. CASE Len(plan) # 1
  <2>1. /\ plan' = Tail(plan) /\ loaded' = 0 /\ judged' = 0 /\ result' = result
        /\ sources' = IF plan[2].anew THEN Nothing ELSE sources
    BY <1>5 DEF Finish
  <2> DEFINE l == Len(plan)
             m == Len(plan')
  <2>2. /\ plan' \in Seq(Elements(Validators)) /\ m = l - 1
        /\ \A i \in 1 .. l - 1 : plan'[i] = plan[i + 1]
    BY <1>3, <1>5, <2>1
  <2>3. l \in 2 .. 9 /\ m \in 1 .. 8 /\ 9 - m = 10 - l
    <3>1. l \in 1 .. 9 /\ l # 1 /\ m = l - 1
      BY <1>3, <1>5, <2>2
    <3> HIDE DEF l, m
    <3> QED
      BY <3>1
  <2>4. \A i \in 1 .. m : plan'[i] = Validators[9 - m + i]
    <3> TAKE i \in 1 .. m
    <3>1. plan'[i] = plan[i + 1]
      BY <2>2
    <3>2. plan[i + 1] = Validators[9 - l + (i + 1)]
      <4>1. i + 1 \in 1 .. l
        <5> HIDE DEF l, m
        <5> QED
          BY <2>2, <2>3
      <4> QED
        BY <1>3, <4>1
    <3>3. 9 - l + (i + 1) = 9 - m + i
      <4> HIDE DEF l, m
      <4> QED
        BY <2>2, <2>3
    <3> QED
      BY <3>1, <3>2, <3>3
  <2>5. \A i \in 1 .. 9 - m : Settled(Validators[i].judge[1], disk)
    <3> TAKE i \in 1 .. 9 - m
    <3>1. i \in 1 .. 9 - l \/ i = 10 - l
      <4> HIDE DEF l, m
      <4> QED
        BY <2>3
    <3> QED
      BY <1>2, <1>3, <3>1
  <2>6. ASSUME m = 8
        PROVE  sources'["permission-profiles"] = Registered(disk)["permission-profiles"]
    <3>1. l = 9
      <4> HIDE DEF l, m
      <4> QED
        BY <2>2, <2>3, <2>6
    <3>2. Load = <<"permission-profiles">> /\ plan[2] = Validators[2]
      BY <1>2, <1>3, <3>1, PassFacts
    <3>3. Validators[2].anew = FALSE
      BY DEF Validators, Further
    <3>4. sources' = sources
      BY <2>1, <3>2, <3>3
    <3> QED
      BY <1>1, <1>3, <3>2, <3>4
  <2>7. Len(Load') \in Nat
    <3>1. 9 - m + 1 \in 1 .. 9 /\ 1 \in 1 .. m
      <4> HIDE DEF l, m
      <4> QED
        BY <2>3
    <3>2. Head(plan') = Validators[9 - m + 1]
      BY <2>2, <2>4, <3>1
    <3>3. Orderly(9 - m + 1)
      BY <3>1, PassFacts
    <3> QED
      BY <3>2, <3>3 DEF Orderly, Load
  <2>8. disk' = disk /\ found' = None /\ result' = "running" /\ loaded' = 0 /\ judged' = 0
    BY <1>1, <1>3, <2>1
  <2>9. m \in 1 .. 9
    <3> HIDE DEF l, m
    <3> QED
      BY <2>3
  <2> HIDE DEF l
  <2> QED
    BY <2>2, <2>4, <2>5, <2>6, <2>7, <2>8, <2>9 DEF ValidatorsInv
<1> QED
  BY <1>4, <1>5

LEMMA ValidatorsKept ==
  ASSUME TypeInv, ValidatorsInv, [Next]_vars
  PROVE  ValidatorsInv'
<1> SUFFICES ASSUME command' = "validators", fresh', result' \in {"running", "passed"}
             PROVE  ValidatorsInv'
  BY DEF ValidatorsInv
<1>1. CASE Run
  <2>1. /\ plan' = Validators /\ loaded' = 0 /\ judged' = 0 /\ found' = None /\ result' = "running"
    BY <1>1 DEF Run
  <2>2. Len(Load') \in Nat
    <3>1. Head(plan') = Validators[1]
      BY <2>1, PassFacts
    <3> QED
      BY <3>1, PassFacts DEF Load
  <2> QED
    BY <2>1, <2>2, PassFacts DEF ValidatorsInv
<1>2. CASE Discover \/ Read
  <2>1. command = "validators" /\ fresh /\ result' # "refused"
    BY <1>2 DEF Discover, Read
  <2> QED
    BY <1>2, <2>1, ReadKept
<1>3. CASE Loaded
  BY <1>3, LoadedKept DEF Loaded
<1>4. CASE Validate
  BY <1>4, ValidateKept DEF Validate
<1>5. CASE Finish
  BY <1>5, FinishKept DEF Finish
<1>6. CASE Cover \/ Edit
  BY <1>6 DEF Cover, Edit
<1>7. CASE UNCHANGED vars
  <2>1. UNCHANGED <<disk, command, plan, loaded, judged, found, sources, result, fresh>>
    BY <1>7 DEF vars
  <2>2. Load' = Load /\ Judge' = Judge /\ Kind' = Kind
    BY <2>1 DEF Load, Judge, Kind
  <2> QED
    BY <2>1, <2>2 DEF ValidatorsInv
<1> QED
  BY <1>1, <1>2, <1>3, <1>4, <1>5, <1>6, <1>7 DEF Next

(* A kind without diagnostics whose names are trimmed passes the index.    *)
LEMMA SettledIsIndexed ==
  ASSUME NEW kind \in Elements(DependencyOrder), NEW tree, Settled(kind, tree),
         \A n \in Names(kind, Registered(tree)) : Strip[n] = n
  PROVE  Indexed(kind, Registered(tree))
<1> DEFINE T == Registered(tree)
<1>1. SourceDiagnostics(kind, T) = {}
  BY DEF Settled
<1>2. Parsed(kind, T) = T[kind] /\ CommonDiagnostics(kind, T) = {}
  BY <1>1, AllParsed DEF SourceDiagnostics
<1>3. kind \in Elements(Kinds)
  BY KindsFacts
<1>4. \A s \in T[kind] :
        /\ s.data.name # None /\ s.data.name \in DOMAIN Strip
        /\ s.data.name = Implied[s.path] /\ Implied[s.path] # ""
  <2> TAKE s \in T[kind]
  <2>1. /\ s.path \in Elements(Files[kind]) /\ s.data.form # "malformed"
        /\ s.data \in Contents[s.path] \ {Absent, NotAFile, Unreadable}
    BY <1>2 DEF Settled, Parsed
  <2>2. s.data.name # None /\ s.data.name \in DOMAIN Strip
    BY <1>3, <2>1, FormAssumption
  <2>3. s.data.name = Implied[s.path]
    <3>1. {D("name", <<u.data.name, Implied[u.path]>>) :
            u \in {t \in Parsed(kind, T) : t.data.name # Implied[t.path]}} = {}
      BY <1>2 DEF CommonDiagnostics
    <3>2. {t \in Parsed(kind, T) : t.data.name # Implied[t.path]} = {}
      BY <3>1
    <3> QED
      BY <1>2, <3>2
  <2> QED
    BY <1>3, <2>1, <2>2, <2>3, ImpliedAssumption, FilesAssumption
<1>5. \A n \in Names(kind, T) : ~Blank(n) /\ Strip[n] = n
  <2> TAKE n \in Names(kind, T)
  <2>1. PICK s \in T[kind] : n = s.data.name
    BY DEF Names, Data
  <2>2. n # None /\ n # ""
    BY <1>4, <2>1
  <2> QED
    BY <2>2 DEF Blank
<1>6. ~Repeated(kind, T, AsWritten)
  <2>1. SUFFICES ASSUME NEW s \in T[kind], NEW u \in T[kind], s # u, s.data.name = u.data.name
                 PROVE  FALSE
    BY <1>4 DEF Repeated, AsWritten
  <2>2. D("duplicate", <<s.data.name>>) \in CommonDiagnostics(kind, T)
    BY <1>2, <2>1 DEF CommonDiagnostics
  <2> QED
    BY <1>2, <2>2
<1> QED
  BY <1>5, <1>6 DEF Indexed

LEMMA PassedSettlesAll ==
  ASSUME ValidatorsInv, command = "validators", result = "passed", fresh
  PROVE  \A kind \in Elements(DependencyOrder) : Settled(kind, disk)
<1>1. /\ Len(plan) = 1 /\ judged = 1 /\ Settled(Judge[1], disk)
      /\ \A i \in 1 .. 9 - Len(plan) : Settled(Validators[i].judge[1], disk)
  BY DEF ValidatorsInv
<1>2. Judge = Validators[9].judge
  BY <1>1, CurrentPass
<1>3. \A i \in 1 .. 9 : i \in 1 .. 8 \/ i = 9
  OBVIOUS
<1>4. \A i \in 1 .. 9 : Settled(Validators[i].judge[1], disk)
  BY <1>1, <1>2, <1>3
<1> QED
  BY <1>4, PassFacts

LEMMA PassedSuffices ==
  ASSUME ValidatorsInv
  PROVE  ValidatorsSuffice
<1> DEFINE S == Registered(disk)
<1>1. SUFFICES ASSUME command = "validators", result = "passed", fresh,
                      Indexed("setups", S),
                      \A kind \in Elements(Kinds) : \A n \in Names(kind, S) : Strip[n] = n
               PROVE  /\ \A kind \in Elements(Kinds) : Indexed(kind, S)
                      /\ \A kind \in Elements(DependencyOrder) :
                           /\ ~SchemasFail(kind, disk) /\ ~ProjectionFails(kind, S)
                           /\ SourceDiagnostics(kind, S) \union FileDiagnostics(kind, S, disk) = {}
  BY DEF ValidatorsSuffice
<1>2. \A kind \in Elements(DependencyOrder) : Settled(kind, disk)
  BY <1>1, PassedSettlesAll
<1>3. Elements(Kinds) = Elements(DependencyOrder) \union {"setups"}
  BY KindsFacts
<1>4. \A kind \in Elements(DependencyOrder) : Indexed(kind, S)
  BY <1>1, <1>2, <1>3, SettledIsIndexed
<1> QED
  BY <1>1, <1>2, <1>3, <1>4 DEF Settled

IInv == TypeInv /\ SnapshotInv /\ CoverageInv /\ JudgedByDiagnostics /\ ValidatorsInv

LEMMA Initially ==
  ASSUME Init
  PROVE  IInv
BY SeedAssumption DEF Init, IInv, TypeInv, SnapshotInv, CoverageInv, JudgedByDiagnostics, ValidatorsInv, Nothing

LEMMA Invariance == Spec => []IInv
<1>1. Init => IInv
  BY Initially
<1>2. IInv /\ [Next]_vars => IInv'
  BY TypesKept, SnapshotKept, CoverageKept, JudgedKept, ValidatorsKept DEF IInv
<1> QED
  BY <1>1, <1>2, PTL DEF Spec

(* An accepted snapshot is closed: the index and the validators have seen  *)
(* every kind, on the same sources, and their rules together imply it.     *)
THEOREM AcceptedIsClosed == Spec => []SnapshotIsClosed
<1>1. IInv => SnapshotIsClosed
  BY PassedIsSound, SoundIsClosed DEF IInv, SnapshotIsClosed
<1> QED
  BY <1>1, Invariance, PTL

(* No projection of the snapshot raises for anything but a blank name.     *)
THEOREM ProjectionsRead == Spec => []JudgedByDiagnostics
<1>1. IInv => JudgedByDiagnostics
  BY DEF IInv
<1> QED
  BY <1>1, Invariance, PTL

(* Among trimmed names the coverage command finds unused ones only.        *)
THEOREM CoverageIsOfUnused == Spec => []CoverageFindsOnlyUnused
<1>1. IInv => CoverageFindsOnlyUnused
  BY PassedIsSound, SoundIsCovered DEF IInv, CoverageFindsOnlyUnused
<1> QED
  BY <1>1, Invariance, PTL

(* Nine validators that each load for themselves see one registry, if      *)
(* nothing is edited meanwhile: their verdicts are those the snapshot      *)
(* would come to, and the index finds no name they have not refused.       *)
THEOREM ValidatorsAreEnough == Spec => []ValidatorsSuffice
<1>1. IInv => ValidatorsSuffice
  BY PassedSuffices DEF IInv
<1> QED
  BY <1>1, Invariance, PTL
=============================================================================
