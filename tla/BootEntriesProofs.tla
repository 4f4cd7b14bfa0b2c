------------------------- MODULE BootEntriesProofs --------------------------
(***************************************************************************)
(* The parser keeps its types and matches strings to modules in order, for *)
(* every configuration file and every set of file systems.                 *)
(***************************************************************************)
EXTENDS BootEntries, FiniteSetTheorems, TLAPS

Intervals == INSTANCE IntervalTheorems

(***************************************************************************)
(* URIs.                                                                   *)
(***************************************************************************)

\* A URI that resolves is parsed to a file system there is.
LEMMA ParsedUriType ==
    ASSUME NEW uri, AfterUri(uri) = "reading", NEW fs \in DOMAIN Handles
    PROVE  ParsedUri(uri, fs) \in DOMAIN Handles
<1>1. Resolves(uri)
  BY DEF AfterUri
<1>2. CASE Stays(uri)
  BY <1>2 DEF ParsedUri
<1>3. CASE ~Stays(uri)
  <2> DEFINE hs == Candidates(uri)
  <2>1. Len(Handles) \in Nat /\ DOMAIN Handles = 1 .. Len(Handles)
    BY HandlesAssumption
  <2>2. hs # {} /\ hs \subseteq DOMAIN Handles
    BY <1>1, <1>3 DEF Resolves, Candidates
  <2> HIDE DEF hs
  <2>3. \E h \in hs : \A g \in hs : h <= g
    BY <2>1, <2>2, Intervals!LeastElement
  <2>4. FirstHandle(hs) \in hs
    BY <2>3 DEF FirstHandle
  <2> QED BY <1>3, <2>2, <2>4 DEF ParsedUri, hs
<1> QED BY <1>2, <1>3

\* Where a URI leads is a place of the parser.
LEMMA AfterUriType ==
    ASSUME NEW uri
    PROVE  AfterUri(uri) \in {"reading", "refused", "undefined"}
  BY DEF AfterUri

(***************************************************************************)
(* Modules and their strings.                                              *)
(***************************************************************************)

\* A module added by the next line keeps the modules matched.
LEMMA MatchedAppend ==
    ASSUME NEW ms \in Seq(Modules), NEW n \in Nat,
           NEW ps \in SUBSET (1 .. n), NEW ts \in SUBSET (1 .. n), Matched(ms, ps, ts),
           NEW m \in Modules, m.path = n + 1, m.tag = NoLine
    PROVE  Matched(Append(ms, m), ps \cup {n + 1}, ts)
<1> DEFINE new == Append(ms, m)
           len == Len(ms)
<1>1. /\ len \in Nat /\ DOMAIN ms = 1 .. len /\ DOMAIN new = 1 .. len + 1
      /\ \A j \in 1 .. len : new[j] = ms[j] /\ ms[j] \in Modules
      /\ new[len + 1] = m
  OBVIOUS
<1> HIDE DEF new, len
<1>2. {new[j].path : j \in DOMAIN new} = ps \cup {n + 1}
  <2>1. {new[j].path : j \in DOMAIN new} = {new[j].path : j \in 1 .. len} \cup {new[len + 1].path}
    BY <1>1
  <2>2. {new[j].path : j \in 1 .. len} = {ms[j].path : j \in DOMAIN ms}
    BY <1>1
  <2> QED BY <1>1, <2>1, <2>2 DEF Matched
<1>3. {new[j].tag : j \in DOMAIN new} \ {NoLine} = ts
  <2>1. {new[j].tag : j \in DOMAIN new} = {new[j].tag : j \in 1 .. len} \cup {new[len + 1].tag}
    BY <1>1
  <2>2. {new[j].tag : j \in 1 .. len} = {ms[j].tag : j \in DOMAIN ms}
    BY <1>1
  <2> QED BY <1>1, <2>1, <2>2 DEF Matched
<1>4. ASSUME NEW i \in DOMAIN new, NEW j \in DOMAIN new, i < j
      PROVE  /\ new[i].path < new[j].path
             /\ new[j].tag # NoLine => new[i].tag \in 1 .. new[j].tag - 1
  <2>1. i \in 1 .. len
    BY <1>1, <1>4
  <2>2. CASE j \in 1 .. len
    <3>1. /\ ms[i].path < ms[j].path
          /\ ms[j].tag # NoLine => ms[i].tag \in 1 .. ms[j].tag - 1
      BY <1>1, <1>4, <2>1, <2>2 DEF Matched
    <3> QED BY <1>1, <2>1, <2>2, <3>1
  <2>3. CASE j = len + 1
    <3>1. ms[i].path \in ps
      BY <1>1, <2>1 DEF Matched
    <3>2. ms[i].path \in 1 .. n
      BY <3>1
    <3>3. ms[i].path < n + 1
      BY <3>2
    <3> QED BY <1>1, <2>1, <2>3, <3>3
  <2> QED BY <1>1, <2>2, <2>3
<1> QED BY <1>2, <1>3, <1>4 DEF Matched, new

\* A string given by the next line to the first module without one keeps the
\* modules matched.
LEMMA MatchedString ==
    ASSUME NEW ms \in Seq(Modules), NEW n \in Nat,
           NEW ps \in SUBSET (1 .. n), NEW ts \in SUBSET (1 .. n), Matched(ms, ps, ts),
           NEW w \in DOMAIN ms, \A j \in DOMAIN ms : ms[j].tag = NoLine <=> j >= w
    PROVE  Matched([ms EXCEPT ![w].tag = n + 1], ps, ts \cup {n + 1})
<1> DEFINE new == [ms EXCEPT ![w].tag = n + 1]
<1>1. /\ DOMAIN new = DOMAIN ms /\ DOMAIN ms \subseteq Nat
      /\ \A j \in DOMAIN ms : ms[j] \in Modules
  OBVIOUS
<1>2. /\ \A j \in DOMAIN ms : j # w => new[j] = ms[j]
      /\ new[w].tag = n + 1 /\ new[w].path = ms[w].path
  BY <1>1 DEF Modules
<1> HIDE DEF new
<1>3. {new[j].path : j \in DOMAIN new} = ps
  <2>1. \A j \in DOMAIN ms : new[j].path = ms[j].path
    BY <1>2
  <2>2. {new[j].path : j \in DOMAIN new} = {ms[j].path : j \in DOMAIN ms}
    BY <1>1, <2>1
  <2> QED BY <2>2 DEF Matched
<1>4. {new[j].tag : j \in DOMAIN new} \ {NoLine} = ts \cup {n + 1}
  <2>1. ts = {ms[j].tag : j \in DOMAIN ms} \ {NoLine}
    BY DEF Matched
  <2>2. ASSUME NEW x \in ts \cup {n + 1}
        PROVE  x \in {new[j].tag : j \in DOMAIN new} \ {NoLine}
    <3>1. CASE x = n + 1
      BY <1>1, <1>2, <3>1 DEF NoLine
    <3>2. CASE x \in ts
      <4>1. PICK j \in DOMAIN ms : x = ms[j].tag /\ x # NoLine
        BY <2>1, <3>2
      <4>2. j # w
        BY <1>1, <4>1
      <4> QED BY <1>1, <1>2, <4>1, <4>2
    <3> QED BY <3>1, <3>2
  <2>3. ASSUME NEW j \in DOMAIN new, new[j].tag # NoLine
        PROVE  new[j].tag \in ts \cup {n + 1}
    <3>1. CASE j = w
      BY <1>2, <3>1
    <3>2. CASE j # w
      BY <1>1, <1>2, <2>1, <2>3, <3>2
    <3> QED BY <3>1, <3>2
  <2> QED BY <2>2, <2>3
<1>5. ASSUME NEW i \in DOMAIN new, NEW j \in DOMAIN new, i < j
      PROVE  /\ new[i].path < new[j].path
             /\ new[j].tag # NoLine => new[i].tag \in 1 .. new[j].tag - 1
  <2>1. new[i].path < new[j].path
    BY <1>1, <1>2, <1>5 DEF Matched
  <2>2. ASSUME new[j].tag # NoLine
        PROVE  new[i].tag \in 1 .. new[j].tag - 1
    <3>1. CASE j = w
      <4>1. ms[i].tag # NoLine /\ i # w
        BY <1>1, <1>5, <3>1
      <4>2. ms[i].tag \in ts
        BY <1>1, <4>1 DEF Matched
      <4>3. ms[i].tag \in 1 .. n
        BY <4>2
      <4> QED BY <1>1, <1>2, <3>1, <4>1, <4>3
    <3>2. CASE j # w
      <4>1. ms[j].tag # NoLine /\ new[j] = ms[j]
        BY <1>1, <1>2, <2>2, <3>2
      <4>2. j < w
        BY <1>1, <4>1
      <4>3. i # w
        BY <1>1, <1>5, <4>2
      <4> QED BY <1>1, <1>2, <1>5, <4>1, <4>3 DEF Matched
    <3> QED BY <3>1, <3>2
  <2> QED BY <2>1, <2>2
<1> QED BY <1>3, <1>4, <1>5 DEF Matched, new

(***************************************************************************)
(* The lines of an entry.                                                  *)
(***************************************************************************)

\* What an entry of the list is made of.
LEMMA EntryFields ==
    ASSUME TypeOK
    PROVE  /\ Len(entries) \in Nat /\ DOMAIN entries = 1 .. Len(entries)
           /\ \A k \in DOMAIN entries :
                /\ entries[k] \in BootEntry /\ entries[k].name \in Nat \ {0}
                /\ entries[k].modules \in Seq(Modules)
           /\ entries # <<>> => Len(entries) \in DOMAIN entries
<1>1. entries \in Seq(BootEntry)
  BY DEF TypeOK
<1>2. \A e \in BootEntry : e.name \in Nat \ {0} /\ e.modules \in Seq(Modules)
  BY DEF BootEntry, NoLine
<1>3. \A k \in DOMAIN entries : entries[k] \in BootEntry
  BY <1>1
<1> QED BY <1>1, <1>2, <1>3

\* Reading a line adds it to the last entry, and to no other, if the entries stay
\* where they are.
LEMMA SectionStep ==
    ASSUME TypeOK, Headings, NEW line \in Lines, Read(line),
           entries' \in Seq(BootEntry), Len(entries') = Len(entries),
           \A k \in DOMAIN entries : entries'[k].name = entries[k].name,
           NEW k \in DOMAIN entries
    PROVE  /\ Section(k) \subseteq 1 .. Len(lines)
           /\ Section(k)' = Section(k) \cup (IF k = Len(entries) THEN {Here} ELSE {})
           /\ \A i \in Section(k) : lines'[i] = lines[i]
           /\ lines'[Here] = line
<1>1. /\ Len(lines) \in Nat /\ Len(entries) \in Nat /\ DOMAIN entries = 1 .. Len(entries)
      /\ \A j \in DOMAIN entries : entries[j].name \in Nat \ {0}
  BY EntryFields DEF TypeOK
<1>2. /\ Len(lines') = Here /\ lines'[Here] = line
      /\ \A i \in 1 .. Len(lines) : lines'[i] = lines[i]
  BY DEF Read, TypeOK, Here
<1>3. \A j \in DOMAIN entries : entries[j].name \in 1 .. Len(lines)
  BY <1>1 DEF Headings
<1>4. Section(k) \subseteq 1 .. Len(lines)
  <2>1. CASE k = Len(entries)
    BY <1>1, <1>3, <2>1 DEF Section
  <2>2. CASE k # Len(entries)
    <3>1. k + 1 \in DOMAIN entries
      BY <1>1, <2>2
    <3>2. entries[k].name \in 1 .. Len(lines) /\ entries[k + 1].name \in 1 .. Len(lines)
      BY <1>3, <3>1
    <3> QED BY <1>1, <2>2, <3>2 DEF Section
  <2> QED BY <2>1, <2>2
<1>5. Section(k)' = Section(k) \cup (IF k = Len(entries) THEN {Here} ELSE {})
  <2>1. CASE k = Len(entries)
    <3>1. entries[k].name \in 1 .. Len(lines)
      BY <1>3
    <3>2. Section(k)' = entries[k].name + 1 .. Here
      BY <1>2, <2>1 DEF Section
    <3>3. Section(k) = entries[k].name + 1 .. Len(lines)
      BY <2>1 DEF Section
    <3> QED BY <1>1, <2>1, <3>1, <3>2, <3>3 DEF Here
  <2>2. CASE k # Len(entries)
    <3>1. k + 1 \in DOMAIN entries
      BY <1>1, <2>2
    <3> QED BY <2>2, <3>1 DEF Section
  <2> QED BY <2>1, <2>2
<1> QED BY <1>2, <1>4, <1>5

\* Entries that stay where they are keep their order.
LEMMA HeadingsKept ==
    ASSUME TypeOK, Headings, NEW line \in Lines, Read(line),
           entries' \in Seq(BootEntry), Len(entries') = Len(entries),
           \A k \in DOMAIN entries : entries'[k].name = entries[k].name
    PROVE  Headings'
<1>1. /\ Len(lines) \in Nat /\ Len(lines') = Len(lines) + 1
      /\ Len(entries) \in Nat /\ DOMAIN entries = 1 .. Len(entries)
      /\ DOMAIN entries' = DOMAIN entries
  BY DEF TypeOK, Read
<1>2. ASSUME NEW k \in DOMAIN entries
      PROVE  /\ entries'[k].name <= Len(lines')
             /\ \A j \in 1 .. k - 1 : entries'[j].name < entries'[k].name
  <2>1. entries[k].name <= Len(lines) /\ \A j \in 1 .. k - 1 : entries[j].name < entries[k].name
    BY DEF Headings
  <2>2. \A j \in 1 .. k - 1 : j \in DOMAIN entries
    BY <1>1
  <2>3. entries[k].name \in Nat
    BY EntryFields
  <2> QED BY <1>1, <2>1, <2>2, <2>3
<1> QED BY <1>1, <1>2 DEF Headings

\* An assignment to the current entry.
LEMMA CurrentStep ==
    ASSUME TypeOK, entries # <<>>, NEW e \in BootEntry, SetCurrent(e)
    PROVE  /\ Len(entries) \in Nat \ {0} /\ DOMAIN entries = 1 .. Len(entries)
           /\ Current \in BootEntry
           /\ entries' \in Seq(BootEntry) /\ Len(entries') = Len(entries)
           /\ Current' = e /\ entries'[Len(entries)] = e
           /\ \A k \in DOMAIN entries \ {Len(entries)} : entries'[k] = entries[k]
           /\ override' = override
<1>1. entries \in Seq(BootEntry)
  BY DEF TypeOK
<1>2. Len(entries) \in Nat \ {0} /\ DOMAIN entries = 1 .. Len(entries)
  BY <1>1
<1>3. entries' = [entries EXCEPT ![Len(entries)] = e] /\ override' = override
  BY DEF SetCurrent
<1> QED BY <1>1, <1>2, <1>3 DEF Current

\* A line that is neither a module nor a string, or comes before the first entry,
\* disturbs no module.
LEMMA PlainStep ==
    ASSUME IInv, NEW line \in Lines, Read(line),
           entries' \in Seq(BootEntry), Len(entries') = Len(entries),
           \A k \in DOMAIN entries :
                entries'[k].name = entries[k].name /\ entries'[k].modules = entries[k].modules,
           entries = <<>> \/ line.key \notin {"MODULE_PATH", "MODULE_STRING"},
           UNCHANGED <<pc, moduleString>>, override' \in [BootDelay : Nat, DefaultOS : Nat]
    PROVE  IInv'
<1>1. /\ Len(lines) \in Nat /\ Len(entries) \in Nat /\ DOMAIN entries = 1 .. Len(entries)
      /\ DOMAIN entries' = DOMAIN entries /\ Len(lines') = Len(lines) + 1 /\ Accepted
  BY DEF IInv, TypeOK, Read, Accepted
<1>3. Headings'
  BY HeadingsKept DEF IInv
<1>4. Waiting'
  <2>1. entries # <<>> => Len(entries) \in DOMAIN entries
    BY <1>1 DEF IInv, TypeOK
  <2>2. entries' # <<>> => entries # <<>>
    BY <1>1
  <2> QED BY <1>1, <2>1, <2>2 DEF IInv, Waiting, Current
<1>5. ASSUME NEW k \in DOMAIN entries
      PROVE  /\ LinesOf(k, "MODULE_PATH")' = LinesOf(k, "MODULE_PATH")
             /\ LinesOf(k, "MODULE_STRING")' = LinesOf(k, "MODULE_STRING")
  <2>1. line.key # "MODULE_PATH" /\ line.key # "MODULE_STRING"
    BY <1>1
  <2>2. TypeOK /\ Headings
    BY DEF IInv
  <2>3. /\ Section(k)' = Section(k) \cup (IF k = Len(entries) THEN {Here} ELSE {})
        /\ \A i \in Section(k) : lines'[i] = lines[i]
        /\ lines'[Here] = line
    BY <2>2, SectionStep
  <2> QED BY <2>1, <2>3 DEF LinesOf
<1>6. StringsInOrder'
  BY <1>1, <1>5 DEF IInv, StringsInOrder
<1>7. TypeOK'
  <2>1. moduleString # NoModule => entries # <<>> /\ moduleString <= Len(Current.modules)
    BY DEF IInv, TypeOK
  <2>2. entries # <<>> => entries' # <<>> /\ Current'.modules = Current.modules
    BY <1>1 DEF Current
  <2> QED BY <1>1, <2>1, <2>2 DEF IInv, TypeOK, Read
<1>8. Unopened'
  BY DEF Unopened, Read
<1> QED BY <1>3, <1>4, <1>6, <1>7, <1>8 DEF IInv

\* A step that gives the current entry modules that match its lines.
LEMMA ModuleStep ==
    ASSUME IInv, NEW line \in Lines, Read(line), entries # <<>>,
           NEW e \in BootEntry, e.name = Current.name, SetCurrent(e),
           Matched(e.modules, LinesOf(Len(entries), "MODULE_PATH")',
                              LinesOf(Len(entries), "MODULE_STRING")'),
           \A j \in DOMAIN e.modules :
                e.modules[j].tag = NoLine <=> moduleString' # NoModule /\ j >= moduleString'
    PROVE  Headings' /\ Waiting' /\ StringsInOrder'
<1>1. /\ Len(entries) \in Nat \ {0} /\ DOMAIN entries = 1 .. Len(entries)
      /\ entries' \in Seq(BootEntry) /\ Len(entries') = Len(entries)
      /\ Current' = e /\ entries'[Len(entries)] = e
      /\ \A k \in DOMAIN entries \ {Len(entries)} : entries'[k] = entries[k]
  BY CurrentStep DEF IInv
<1>2. /\ Len(lines) \in Nat /\ Len(lines') = Len(lines) + 1 /\ Accepted
      /\ DOMAIN entries' = DOMAIN entries
  BY <1>1 DEF IInv, TypeOK, Read, Accepted
<1>3. \A k \in DOMAIN entries : entries[k].name \in Nat /\ entries'[k].name = entries[k].name
  <2>1. TypeOK
    BY DEF IInv
  <2>2. entries'[Len(entries)].name = entries[Len(entries)].name
    BY <1>1 DEF Current
  <2> QED BY <1>1, <2>1, <2>2, EntryFields
<1>4. Headings'
  BY <1>1, <1>3, HeadingsKept DEF IInv
<1>5. Waiting'
  BY <1>1 DEF Waiting
<1>6. ASSUME NEW k \in DOMAIN entries, k # Len(entries)
      PROVE  /\ LinesOf(k, "MODULE_PATH")' = LinesOf(k, "MODULE_PATH")
             /\ LinesOf(k, "MODULE_STRING")' = LinesOf(k, "MODULE_STRING")
  <2>1. TypeOK /\ Headings
    BY DEF IInv
  <2>2. Section(k)' = Section(k) /\ \A i \in Section(k) : lines'[i] = lines[i]
    BY <1>1, <1>3, <1>6, <2>1, SectionStep
  <2> QED BY <2>2 DEF LinesOf
<1>7. ASSUME NEW k \in DOMAIN entries
      PROVE  Matched(entries'[k].modules, LinesOf(k, "MODULE_PATH")', LinesOf(k, "MODULE_STRING")')
  <2>1. CASE k = Len(entries)
    BY <1>1, <2>1
  <2>2. CASE k # Len(entries)
    BY <1>1, <1>2, <1>6, <2>2 DEF IInv, StringsInOrder
  <2> QED BY <2>1, <2>2
<1>8. StringsInOrder'
  BY <1>2, <1>7 DEF StringsInOrder
<1> QED BY <1>4, <1>5, <1>8

(***************************************************************************)
(* The steps.                                                              *)
(***************************************************************************)

LEMMA InitIInv == Init => IInv
<1> SUFFICES ASSUME Init PROVE IInv
  OBVIOUS
<1>1. TypeOK
  BY HandlesAssumption DEF Init, TypeOK, NoLine, NoModule
<1> QED BY <1>1 DEF Init, IInv, Unopened, Headings, Waiting, StringsInOrder, Accepted

\* Steps that read no line.
LEMMA OpenIInv ==
    ASSUME IInv, OpenConfig \/ EndOfFile
    PROVE  IInv'
<1>1. /\ UNCHANGED <<lines, entries, moduleString, override>>
      /\ pc' \in {"reading", "parsed", "refused"} /\ pc \in {"open", "reading"}
  BY DEF OpenConfig, EndOfFile
<1>2. TypeOK'
  BY <1>1 DEF IInv, TypeOK, Current
<1>3. Headings' /\ Unopened'
  BY <1>1 DEF IInv, Headings, Unopened
<1>4. pc = "open" => entries = <<>>
  BY DEF IInv, Unopened
<1>5. Waiting'
  BY <1>1, <1>4 DEF IInv, Waiting, Current, Accepted
<1>6. \A k \in DOMAIN entries : \A key : LinesOf(k, key)' = LinesOf(k, key)
  BY <1>1 DEF LinesOf, Section
<1>7. StringsInOrder'
  <2>1. CASE entries = <<>>
    BY <1>1, <2>1 DEF StringsInOrder
  <2>2. CASE entries # <<>>
    <3>1. Accepted
      BY <1>1, <1>4, <2>2 DEF Accepted
    <3>2. \A k \in DOMAIN entries :
            Matched(entries[k].modules, LinesOf(k, "MODULE_PATH"), LinesOf(k, "MODULE_STRING"))
      BY <3>1 DEF IInv, StringsInOrder
    <3> QED BY <1>1, <3>2 DEF StringsInOrder, LinesOf, Section
  <2> QED BY <2>1, <2>2
<1> QED BY <1>2, <1>3, <1>5, <1>7 DEF IInv

\* A refused file is not looked at any more, whatever was set before.
LEMMA RefusedIInv ==
    ASSUME IInv, NEW line \in Lines, Read(line), pc' \in {"refused", "undefined"},
           UNCHANGED <<moduleString, override>>,
           entries' \in Seq(BootEntry), Len(entries') = Len(entries),
           \A k \in DOMAIN entries :
                entries'[k].name = entries[k].name /\ entries'[k].modules = entries[k].modules
    PROVE  IInv'
<1>1. /\ Len(lines) \in Nat /\ Len(entries) \in Nat /\ DOMAIN entries = 1 .. Len(entries)
      /\ DOMAIN entries' = DOMAIN entries /\ Len(lines') = Len(lines) + 1
      /\ lines' \in Seq(Lines)
  BY DEF IInv, TypeOK, Read
<1>3. Headings'
  BY HeadingsKept DEF IInv
<1>4. TypeOK'
  <2>1. moduleString # NoModule => entries # <<>> /\ moduleString <= Len(Current.modules)
    BY DEF IInv, TypeOK
  <2>2. entries # <<>> => entries' # <<>> /\ Current'.modules = Current.modules
    BY <1>1 DEF Current
  <2> QED BY <1>1, <2>1, <2>2 DEF IInv, TypeOK
<1> QED BY <1>3, <1>4 DEF IInv, Unopened, Waiting, StringsInOrder, Accepted

LEMMA UnreadableIInv ==
    ASSUME IInv, NEW line \in Lines, Unreadable(line)
    PROVE  IInv'
  BY RefusedIInv DEF Unreadable, IInv, TypeOK

\* A new entry starts without lines, at the end of the section of the one before it.
LEMMA NewEntryStep ==
    ASSUME TypeOK, Headings, NEW line \in Lines, NewEntry(line), NEW n, n = Len(entries)
    PROVE  /\ n \in Nat /\ DOMAIN entries = 1 .. n
           /\ entries' \in Seq(BootEntry) /\ Len(entries') = n + 1 /\ DOMAIN entries' = 1 .. n + 1
           /\ entries'[n + 1] = [name |-> Here, protocol |-> "BOOT_INVALID", fs |-> BootHandle,
                                 path |-> NoLine, cmdline |-> NoLine, modules |-> <<>>]
           /\ Section(n + 1)' = {}
           /\ \A k \in 1 .. n : /\ entries'[k] = entries[k] /\ entries[k].name \in 1 .. Len(lines)
                               /\ Section(k)' = Section(k) /\ Section(k) \subseteq 1 .. Len(lines)
<1> DEFINE e == [name |-> Here, protocol |-> "BOOT_INVALID", fs |-> BootHandle,
                 path |-> NoLine, cmdline |-> NoLine, modules |-> <<>>]
<1>1. /\ Len(lines) \in Nat /\ Here = Len(lines) + 1 /\ Len(lines') = Here
      /\ entries' = Append(entries, e) /\ entries \in Seq(BootEntry) /\ n \in Nat
  BY DEF TypeOK, NewEntry, FreshEntry, BlankEntry, Read, Here
<1>2. e \in BootEntry /\ e.name = Here
  BY <1>1, HandlesAssumption DEF BootEntry, NoLine
<1> HIDE DEF e
<1>3. /\ Len(entries') = n + 1 /\ entries' \in Seq(BootEntry) /\ entries'[n + 1] = e
      /\ \A k \in 1 .. n : entries'[k] = entries[k]
      /\ DOMAIN entries = 1 .. n /\ DOMAIN entries' = 1 .. n + 1
  BY <1>1, <1>2
<1>4. \A k \in 1 .. n : entries[k].name \in 1 .. Len(lines)
  BY <1>1, <1>3, EntryFields DEF Headings
<1>5. Section(n + 1)' = {}
  BY <1>1, <1>2, <1>3 DEF Section
<1>6. ASSUME NEW k \in 1 .. n
      PROVE  Section(k)' = Section(k) /\ Section(k) \subseteq 1 .. Len(lines)
  <2>1. CASE k = n
    <3>1. Section(k) = entries[k].name + 1 .. Len(lines)
      BY <2>1 DEF Section
    <3>2. Section(k)' = entries[k].name + 1 .. Here - 1
      <4>1. entries'[k] = entries[k] /\ entries'[k + 1].name = Here /\ k # Len(entries')
        BY <1>1, <1>2, <1>3, <2>1
      <4> QED BY <4>1 DEF Section
    <3> QED BY <1>1, <1>4, <3>1, <3>2
  <2>2. CASE k # n
    <3>1. k + 1 \in 1 .. n /\ k # n + 1
      BY <1>1, <2>2
    <3>2. Section(k) = entries[k].name + 1 .. entries[k + 1].name - 1
      BY <2>2 DEF Section
    <3>3. Section(k)' = entries[k].name + 1 .. entries[k + 1].name - 1
      BY <1>3, <3>1 DEF Section
    <3>4. entries[k].name \in 1 .. Len(lines) /\ entries[k + 1].name \in 1 .. Len(lines)
      BY <1>4, <3>1
    <3>5. Len(lines) \in Nat
      BY <1>1
    <3>6. ASSUME NEW i \in entries[k].name + 1 .. entries[k + 1].name - 1
          PROVE  i \in 1 .. Len(lines)
      BY ONLY <3>4, <3>5, <3>6
    <3> QED BY ONLY <3>2, <3>3, <3>6
  <2> QED BY <2>1, <2>2
<1> QED BY <1>1, <1>3, <1>4, <1>5, <1>6 DEF e

\* It starts without modules as well.
LEMMA NewEntryIInv ==
    ASSUME IInv, NEW line \in Lines, NewEntry(line)
    PROVE  IInv'
<1>0. PICK n : n = Len(entries)
  OBVIOUS
<1>1. /\ Len(lines) \in Nat /\ lines' = Append(lines, line) /\ lines \in Seq(Lines)
      /\ moduleString' = NoModule /\ UNCHANGED <<pc, override>> /\ pc = "reading"
  BY DEF IInv, TypeOK, NewEntry, Read, ForgetModule
<1>2. /\ n \in Nat /\ DOMAIN entries = 1 .. n
      /\ entries' \in Seq(BootEntry) /\ Len(entries') = n + 1 /\ DOMAIN entries' = 1 .. n + 1
      /\ entries'[n + 1].name = Here /\ entries'[n + 1].modules = <<>>
      /\ Section(n + 1)' = {}
      /\ \A k \in 1 .. n : /\ entries'[k] = entries[k] /\ entries[k].name \in 1 .. Len(lines)
                          /\ Section(k)' = Section(k) /\ Section(k) \subseteq 1 .. Len(lines)
  BY <1>0, NewEntryStep DEF IInv
<1>3. /\ Len(lines') = Here /\ Here = Len(lines) + 1 /\ lines' \in Seq(Lines)
      /\ \A i \in 1 .. Len(lines) : lines'[i] = lines[i]
  BY <1>1 DEF Here
<1>4. TypeOK'
  BY <1>1, <1>2, <1>3 DEF IInv, TypeOK, NoModule
<1>5. Headings'
  <2>1. ASSUME NEW k \in 1 .. n + 1
        PROVE  /\ entries'[k].name <= Len(lines')
               /\ \A j \in 1 .. k - 1 : entries'[j].name < entries'[k].name
    <3>1. CASE k = n + 1
      BY <1>1, <1>2, <1>3, <3>1
    <3>2. CASE k \in 1 .. n
      <4>1. \A j \in 1 .. k - 1 : j \in 1 .. n /\ entries[j].name < entries[k].name
        BY <1>2, <3>2 DEF IInv, Headings
      <4> QED BY <1>1, <1>2, <1>3, <3>2, <4>1
    <3> QED BY <1>2, <2>1, <3>1, <3>2
  <2> QED BY <1>2, <2>1 DEF Headings
<1>6. Waiting'
  BY <1>1, <1>2 DEF Waiting, Current
<1>7. ASSUME NEW k \in 1 .. n + 1
      PROVE  Matched(entries'[k].modules, LinesOf(k, "MODULE_PATH")', LinesOf(k, "MODULE_STRING")')
  <2>1. CASE k = n + 1
    <3>1. LinesOf(k, "MODULE_PATH")' = {} /\ LinesOf(k, "MODULE_STRING")' = {}
      BY <1>2, <2>1 DEF LinesOf
    <3> QED BY <1>2, <2>1, <3>1 DEF Matched
  <2>2. CASE k \in 1 .. n
    <3>1. LinesOf(k, "MODULE_PATH")' = LinesOf(k, "MODULE_PATH")
      BY <1>2, <1>3, <2>2 DEF LinesOf
    <3>2. LinesOf(k, "MODULE_STRING")' = LinesOf(k, "MODULE_STRING")
      BY <1>2, <1>3, <2>2 DEF LinesOf
    <3> QED BY <1>1, <1>2, <2>2, <3>1, <3>2 DEF IInv, StringsInOrder, Accepted
  <2> QED BY <1>2, <2>1, <2>2
<1>8. StringsInOrder'
  BY <1>2, <1>7 DEF StringsInOrder
<1> QED BY <1>1, <1>4, <1>5, <1>6, <1>8 DEF IInv, Unopened

\* Lines without an effect on the entries.
LEMMA GlobalIInv ==
    ASSUME IInv, NEW line \in Lines, GlobalKey(line) \/ IgnoredLine(line)
    PROVE  IInv'
<1>1. Read(line) /\ UNCHANGED <<pc, entries, moduleString>>
  BY DEF GlobalKey, IgnoredLine
<1>2. entries = <<>> \/ line.key \notin {"MODULE_PATH", "MODULE_STRING"}
  BY DEF GlobalKey, IgnoredLine, IsGlobal, GlobalKeys
<1>3. override' \in [BootDelay : Nat, DefaultOS : Nat]
  BY DEF GlobalKey, IgnoredLine, IInv, TypeOK, Here
<1> QED BY <1>1, <1>2, <1>3, PlainStep DEF IInv, TypeOK

\* What the steps on the current entry have in common.
LEMMA LocalFacts ==
    ASSUME IInv, NEW line \in Lines, Read(line), entries # <<>>
    PROVE  /\ TypeOK /\ Here \in Nat \ {0} /\ Here = Len(lines) + 1 /\ Len(lines) \in Nat
           /\ Current \in BootEntry /\ Current.modules \in Seq(Modules)
           /\ Len(entries) \in DOMAIN entries
           /\ pc = "reading" /\ Accepted
           /\ override \in [BootDelay : Nat, DefaultOS : Nat]
  BY EntryFields DEF IInv, TypeOK, Here, Read, Accepted, Current

\* An assignment that leaves name and modules of the current entry alone.
LEMMA AssignIInv ==
    ASSUME IInv, NEW line \in Lines, Read(line), entries # <<>>,
           line.key \notin {"MODULE_PATH", "MODULE_STRING"},
           NEW e \in BootEntry, e.name = Current.name, e.modules = Current.modules, SetCurrent(e),
           pc' \in {"reading", "refused", "undefined"}, UNCHANGED moduleString
    PROVE  IInv'
<1>1. TypeOK /\ pc = "reading" /\ override \in [BootDelay : Nat, DefaultOS : Nat]
  BY LocalFacts
<1>2. /\ DOMAIN entries = 1 .. Len(entries)
      /\ entries' \in Seq(BootEntry) /\ Len(entries') = Len(entries)
      /\ entries'[Len(entries)] = e
      /\ \A k \in DOMAIN entries \ {Len(entries)} : entries'[k] = entries[k]
      /\ override' = override
  BY <1>1, CurrentStep
<1>3. \A k \in DOMAIN entries :
        entries'[k].name = entries[k].name /\ entries'[k].modules = entries[k].modules
  <2>1. /\ entries'[Len(entries)].name = entries[Len(entries)].name
        /\ entries'[Len(entries)].modules = entries[Len(entries)].modules
    BY <1>2 DEF Current
  <2> QED BY <1>2, <2>1
<1>4. CASE pc' = "reading"
  BY <1>1, <1>2, <1>3, <1>4, PlainStep
<1>5. CASE pc' # "reading"
  BY <1>1, <1>2, <1>3, <1>5, RefusedIInv
<1> QED BY <1>4, <1>5

LEMMA SetPathIInv ==
    ASSUME IInv, NEW line \in Lines, SetPath(line)
    PROVE  IInv'
<1> DEFINE fs == IF pc' = "reading" THEN ParsedUri(line.uri, Current.fs) ELSE Current.fs
           e == [Current EXCEPT !.path = Here, !.fs = fs]
<1>1. /\ Read(line) /\ entries # <<>> /\ line.key = "PATH" /\ pc' = AfterUri(line.uri)
      /\ SetCurrent([Current EXCEPT
            !.path = Here, !.fs = IF pc' = "reading" THEN ParsedUri(line.uri, @) ELSE @])
      /\ UNCHANGED moduleString
  BY DEF SetPath, ReadLocal
<1>2. Current \in BootEntry /\ Here \in Nat \ {0}
  BY <1>1, LocalFacts
<1>3. fs \in DOMAIN Handles
  BY <1>1, <1>2, ParsedUriType DEF BootEntry
<1>4. SetCurrent(e)
  BY <1>1, <1>2 DEF BootEntry
<1>5. e \in BootEntry /\ e.name = Current.name /\ e.modules = Current.modules
  BY <1>2, <1>3 DEF BootEntry
<1>6. pc' \in {"reading", "refused", "undefined"}
  BY <1>1, AfterUriType
<1> QED BY <1>1, <1>4, <1>5, <1>6, AssignIInv

LEMMA SetCmdlineIInv ==
    ASSUME IInv, NEW line \in Lines, SetCmdline(line)
    PROVE  IInv'
<1> DEFINE e == [Current EXCEPT !.cmdline = Here]
<1>1. /\ Read(line) /\ entries # <<>> /\ line.key = "CMDLINE" /\ SetCurrent(e)
      /\ UNCHANGED <<pc, moduleString>>
  BY DEF SetCmdline, ReadLocal
<1>2. Current \in BootEntry /\ Here \in Nat \ {0} /\ pc = "reading"
  BY <1>1, LocalFacts
<1>3. e \in BootEntry /\ e.name = Current.name /\ e.modules = Current.modules
  BY <1>2 DEF BootEntry
<1> QED BY <1>1, <1>2, <1>3, AssignIInv

LEMMA SetProtocolIInv ==
    ASSUME IInv, NEW line \in Lines, SetProtocol(line)
    PROVE  IInv'
<1> DEFINE e == [Current EXCEPT !.protocol = line.protocol]
<1>1. Read(line) /\ entries # <<>> /\ line.key = "PROTOCOL" /\ UNCHANGED moduleString
  BY DEF SetProtocol, ReadLocal
<1>2. Current \in BootEntry /\ Here \in Nat \ {0} /\ pc = "reading"
  BY <1>1, LocalFacts
<1>3. CASE line.protocol = "unknown"
  BY <1>1, <1>3, RefusedIInv DEF SetProtocol, IInv, TypeOK
<1>4. CASE line.protocol # "unknown"
  <2>1. SetCurrent(e) /\ UNCHANGED pc
    BY <1>4 DEF SetProtocol
  <2>2. line.protocol \in BootProtocols
    BY <1>1, <1>4, LinesAssumption DEF LineForms, GlobalKeys, UriKeys
  <2>3. e \in BootEntry /\ e.name = Current.name /\ e.modules = Current.modules
    BY <1>2, <2>2 DEF BootEntry
  <2> QED BY <1>1, <1>2, <2>1, <2>3, AssignIInv
<1> QED BY <1>3, <1>4

\* A module is the last one of its entry, and waits for a string if none does yet.
LEMMA AddModuleIInv ==
    ASSUME IInv, NEW line \in Lines, AddModule(line)
    PROVE  IInv'
<1> DEFINE n == Len(entries)
           ms == Current.modules
           m == [fs |-> ParsedUri(line.uri, BootHandle), path |-> Here, tag |-> NoLine]
           e == [Current EXCEPT !.modules = Append(@, m)]
<1>1. Read(line) /\ entries # <<>> /\ line.key = "MODULE_PATH" /\ pc' = AfterUri(line.uri)
  BY DEF AddModule, ReadLocal
<1>2. /\ TypeOK /\ Here \in Nat \ {0} /\ Here = Len(lines) + 1 /\ Len(lines) \in Nat
      /\ Current \in BootEntry /\ ms \in Seq(Modules) /\ n \in DOMAIN entries
      /\ pc = "reading" /\ Accepted /\ override \in [BootDelay : Nat, DefaultOS : Nat]
  BY <1>1, LocalFacts
<1>3. CASE pc' # "reading"
  <2>1. pc' \in {"refused", "undefined"}
    BY <1>1, <1>3, AfterUriType
  <2> QED BY <1>1, <1>2, <1>3, <2>1, RefusedIInv DEF AddModule, TypeOK
<1>4. CASE pc' = "reading"
  <2>1. SetCurrent(e) /\ moduleString' = AwaitString(Len(ms) + 1)
    BY <1>4 DEF AddModule
  <2>2. m \in Modules /\ m.path = Len(lines) + 1 /\ m.tag = NoLine
    BY <1>1, <1>2, <1>4, ParsedUriType, HandlesAssumption DEF Modules, NoLine
  <2> HIDE DEF m
  <2>3. e \in BootEntry /\ e.name = Current.name /\ e.modules = Append(ms, m)
    <3>1. Append(ms, m) \in Seq(Modules)
      BY <1>2, <2>2
    <3>2. e = [Current EXCEPT !.modules = Append(ms, m)]
      OBVIOUS
    <3> HIDE DEF e
    <3> QED BY <1>2, <3>1, <3>2 DEF BootEntry
  <2> HIDE DEF e
  <2>4. /\ Section(n) \subseteq 1 .. Len(lines)
        /\ Section(n)' = Section(n) \cup {Here}
        /\ \A i \in Section(n) : lines'[i] = lines[i]
        /\ lines'[Here] = line
    <3>1. /\ entries' \in Seq(BootEntry) /\ Len(entries') = n
          /\ \A k \in DOMAIN entries : entries'[k].name = entries[k].name
      BY <1>1, <1>2, <2>1, <2>3, CurrentStep DEF Current
    <3> QED BY <1>1, <1>2, <3>1, SectionStep DEF IInv
  <2>5. /\ LinesOf(n, "MODULE_PATH")' = LinesOf(n, "MODULE_PATH") \cup {Here}
        /\ LinesOf(n, "MODULE_STRING")' = LinesOf(n, "MODULE_STRING")
        /\ LinesOf(n, "MODULE_PATH") \in SUBSET (1 .. Len(lines))
        /\ LinesOf(n, "MODULE_STRING") \in SUBSET (1 .. Len(lines))
    BY <1>1, <2>4 DEF LinesOf
  <2>6. Matched(ms, LinesOf(n, "MODULE_PATH"), LinesOf(n, "MODULE_STRING"))
    BY <1>2 DEF IInv, StringsInOrder, Current
  <2>7. Matched(e.modules, LinesOf(n, "MODULE_PATH")', LinesOf(n, "MODULE_STRING")')
    <3>1. Matched(Append(ms, m), LinesOf(n, "MODULE_PATH") \cup {Len(lines) + 1},
                  LinesOf(n, "MODULE_STRING"))
      <4> HIDE DEF ms, n
      <4> QED BY <1>2, <2>2, <2>5, <2>6, MatchedAppend
    <3> QED BY <1>2, <2>3, <2>5, <3>1
  <2>8. /\ Len(ms) \in Nat /\ DOMAIN ms = 1 .. Len(ms)
        /\ DOMAIN e.modules = 1 .. Len(ms) + 1 /\ Len(e.modules) = Len(ms) + 1
        /\ \A j \in 1 .. Len(ms) : e.modules[j] = ms[j]
        /\ e.modules[Len(ms) + 1] = m
    BY <1>2, <2>2, <2>3
  <2>9. /\ moduleString \in Nat
        /\ moduleString # NoModule => moduleString <= Len(ms)
        /\ \A j \in 1 .. Len(ms) : ms[j].tag = NoLine <=> moduleString # NoModule /\ j >= moduleString
    BY <1>1, <1>2, <2>8 DEF IInv, TypeOK, Waiting
  <2>10. /\ moduleString' \in 1 .. Len(ms) + 1
         /\ \A j \in DOMAIN e.modules :
                e.modules[j].tag = NoLine <=> moduleString' # NoModule /\ j >= moduleString'
    <3> HIDE DEF ms
    <3>1. moduleString' = IF moduleString = 0 THEN Len(ms) + 1 ELSE moduleString
      BY <2>1 DEF AwaitString, NoModule
    <3>2. moduleString' \in 1 .. Len(ms) + 1
      BY <2>8, <2>9, <3>1 DEF NoModule
    <3>3. \A j \in 1 .. Len(ms) : ms[j].tag = NoLine <=> j >= moduleString'
      BY <2>8, <2>9, <3>1 DEF NoModule
    <3>4. e.modules[Len(ms) + 1].tag = NoLine /\ Len(ms) + 1 >= moduleString'
      BY <2>2, <2>8, <3>2
    <3>5. \A j \in DOMAIN e.modules : e.modules[j].tag = NoLine <=> j >= moduleString'
      BY <2>8, <3>3, <3>4
    <3> QED BY <3>2, <3>5 DEF NoModule
  <2>11. Headings' /\ Waiting' /\ StringsInOrder'
    <3> HIDE DEF n, ms
    <3> QED BY <1>1, <2>1, <2>3, <2>7, <2>10, ModuleStep DEF n
  <2>12. TypeOK'
    <3>1. entries' \in Seq(BootEntry) /\ entries' # <<>> /\ Current' = e /\ override' = override
      BY <1>1, <1>2, <2>1, <2>3, CurrentStep
    <3> QED BY <1>1, <1>2, <1>4, <2>8, <2>10, <3>1 DEF TypeOK, Read
  <2> QED BY <1>4, <2>11, <2>12 DEF IInv, Unopened
<1> QED BY <1>3, <1>4

\* A string goes to the first module without one, and the next module waits.
LEMMA SetStringIInv ==
    ASSUME IInv, NEW line \in Lines, SetString(line)
    PROVE  IInv'
<1> DEFINE n == Len(entries)
           ms == Current.modules
           new == [ms EXCEPT ![moduleString].tag = Here]
           e == [Current EXCEPT !.modules = new]
<1>1. Read(line) /\ entries # <<>> /\ line.key = "MODULE_STRING"
  BY DEF SetString, ReadLocal
<1>2. /\ TypeOK /\ Here \in Nat \ {0} /\ Here = Len(lines) + 1 /\ Len(lines) \in Nat
      /\ Current \in BootEntry /\ ms \in Seq(Modules) /\ n \in DOMAIN entries
      /\ pc = "reading" /\ Accepted /\ override \in [BootDelay : Nat, DefaultOS : Nat]
  BY <1>1, LocalFacts
<1>3. CASE ~(TakesStrings(Current.protocol) /\ moduleString # NoModule)
  BY <1>1, <1>2, <1>3, RefusedIInv DEF SetString, TypeOK
<1>4. CASE TakesStrings(Current.protocol) /\ moduleString # NoModule
  <2>1. /\ SetCurrent([Current EXCEPT !.modules[moduleString].tag = Here])
        /\ moduleString' = AfterString /\ UNCHANGED pc
    BY <1>4 DEF SetString
  <2>2. /\ Len(ms) \in Nat /\ DOMAIN ms = 1 .. Len(ms)
        /\ moduleString \in 1 .. Len(ms)
        /\ \A j \in DOMAIN ms : ms[j].tag = NoLine <=> j >= moduleString
        /\ \A j \in DOMAIN ms : ms[j] \in Modules
    BY <1>1, <1>2, <1>4 DEF IInv, TypeOK, Waiting, NoModule
  <2>3. /\ new \in Seq(Modules) /\ Len(new) = Len(ms) /\ DOMAIN new = 1 .. Len(ms)
        /\ new[moduleString].tag = Here
        /\ \A j \in 1 .. Len(ms) : j # moduleString => new[j] = ms[j]
    <3>1. [ms[moduleString] EXCEPT !.tag = Here] \in Modules
          /\ [ms[moduleString] EXCEPT !.tag = Here].tag = Here
      BY <1>2, <2>2 DEF Modules
    <3> QED BY <1>2, <2>2, <3>1
  <2>4. SetCurrent(e)
    BY <1>2, <2>1 DEF BootEntry
  <2>5. Matched(ms, LinesOf(n, "MODULE_PATH"), LinesOf(n, "MODULE_STRING"))
    BY <1>2 DEF IInv, StringsInOrder, Current
  <2>6. e \in BootEntry /\ e.name = Current.name /\ e.modules = new
    <3> HIDE DEF new
    <3> QED BY <1>2, <2>3 DEF BootEntry
  <2> HIDE DEF e
  <2>7. /\ Section(n) \subseteq 1 .. Len(lines)
        /\ Section(n)' = Section(n) \cup {Here}
        /\ \A i \in Section(n) : lines'[i] = lines[i]
        /\ lines'[Here] = line
    <3>1. /\ entries' \in Seq(BootEntry) /\ Len(entries') = n
          /\ \A k \in DOMAIN entries : entries'[k].name = entries[k].name
      BY <1>1, <1>2, <2>4, <2>6, CurrentStep DEF Current
    <3> QED BY <1>1, <1>2, <3>1, SectionStep DEF IInv
  <2>8. /\ LinesOf(n, "MODULE_STRING")' = LinesOf(n, "MODULE_STRING") \cup {Here}
        /\ LinesOf(n, "MODULE_PATH")' = LinesOf(n, "MODULE_PATH")
        /\ LinesOf(n, "MODULE_PATH") \in SUBSET (1 .. Len(lines))
        /\ LinesOf(n, "MODULE_STRING") \in SUBSET (1 .. Len(lines))
    BY <1>1, <2>7 DEF LinesOf
  <2>9. Matched(new, LinesOf(n, "MODULE_PATH")', LinesOf(n, "MODULE_STRING")')
    <3>1. Matched([ms EXCEPT ![moduleString].tag = Len(lines) + 1], LinesOf(n, "MODULE_PATH"),
                  LinesOf(n, "MODULE_STRING") \cup {Len(lines) + 1})
      <4> HIDE DEF ms, n
      <4> QED BY <1>2, <2>2, <2>5, <2>8, MatchedString
    <3> QED BY <1>2, <2>8, <3>1
  <2> HIDE DEF new
  <2>10. /\ moduleString' = IF moduleString = Len(ms) THEN NoModule ELSE moduleString + 1
         /\ moduleString' \in 0 .. Len(ms)
    BY <2>1, <2>2 DEF AfterString, NoModule
  <2>11. \A j \in DOMAIN new :
            new[j].tag = NoLine <=> moduleString' # NoModule /\ j >= moduleString'
    BY <1>2, <2>2, <2>3, <2>10 DEF NoModule, NoLine
  <2>12. Headings' /\ Waiting' /\ StringsInOrder'
    <3> HIDE DEF n, ms
    <3> QED BY <1>1, <2>4, <2>6, <2>9, <2>11, ModuleStep DEF n
  <2>13. TypeOK'
    <3>1. entries' \in Seq(BootEntry) /\ entries' # <<>> /\ Current' = e /\ override' = override
      BY <1>1, <1>2, <2>4, <2>6, CurrentStep
    <3> QED BY <1>1, <1>2, <2>1, <2>3, <2>6, <2>10, <3>1 DEF TypeOK, Read
  <2> QED BY <1>2, <2>1, <2>12, <2>13 DEF IInv, Unopened
<1> QED BY <1>3, <1>4

(***************************************************************************)
(* The theorems.                                                           *)
(***************************************************************************)

LEMMA NextIInv == IInv /\ [Next]_vars => IInv'
<1> SUFFICES ASSUME IInv, [Next]_vars PROVE IInv'
  OBVIOUS
<1>1. CASE OpenConfig \/ EndOfFile
  BY <1>1, OpenIInv
<1>2. ASSUME NEW line \in Lines, ReadLine(line)
      PROVE  IInv'
  BY <1>2, UnreadableIInv, NewEntryIInv, GlobalIInv, SetPathIInv, SetCmdlineIInv, SetProtocolIInv,
     AddModuleIInv, SetStringIInv DEF ReadLine
<1>3. CASE UNCHANGED vars
  BY <1>3 DEF vars, IInv, TypeOK, Unopened, Headings, Waiting, StringsInOrder, Accepted, Current,
      LinesOf, Section
<1> QED BY <1>1, <1>2, <1>3 DEF Next

\* The inductive invariant: entries start at their lines in order, the modules from
\* the waiting one on have no string, and all that have one are matched.
THEOREM Invariance == Spec => []IInv
  BY InitIInv, NextIInv, PTL DEF Spec

\* Every variable keeps its type; CurrentModuleString is never a module of an entry
\* before the current one or past the end of its list.
THEOREM TypeCorrect == Spec => []TypeOK
<1>1. IInv => TypeOK
  BY DEF IInv
<1> QED BY <1>1, Invariance, PTL

\* For every file: the strings of an entry go to its modules in the order both
\* were written, as CONFIG.md says, and never to a module of another entry.
THEOREM StringsMatched == Spec => []StringsInOrder
<1>1. IInv => StringsInOrder
  BY DEF IInv
<1> QED BY <1>1, Invariance, PTL

(***************************************************************************)
(* The lines that assign.                                                  *)
(***************************************************************************)

\* What reading a line does to the lines.
LEMMA ReadFacts ==
    ASSUME TypeOK, NEW line \in Lines, Read(line)
    PROVE  /\ Len(lines) \in Nat /\ Here = Len(lines) + 1 /\ Len(lines') = Here
           /\ DOMAIN lines = 1 .. Len(lines) /\ DOMAIN lines' = 1 .. Here
           /\ lines'[Here] = line /\ \A i \in 1 .. Len(lines) : lines'[i] = lines[i]
           /\ pc = "reading" /\ Accepted
  BY DEF TypeOK, Read, Here, Accepted

\* The next line comes after all others.
LEMMA IsLastNext ==
    ASSUME NEW n \in Nat, NEW is \in SUBSET (1 .. n)
    PROVE  IsLast(n + 1, is \cup {n + 1})
  BY DEF IsLast

\* A line goes to the lines of its key in the last section.
LEMMA LinesStep ==
    ASSUME TypeOK, Headings, NEW line \in Lines, Read(line),
           entries' \in Seq(BootEntry), Len(entries') = Len(entries),
           \A k \in DOMAIN entries : entries'[k].name = entries[k].name,
           NEW k \in DOMAIN entries, NEW key
    PROVE  /\ LinesOf(k, key) \in SUBSET (1 .. Len(lines))
           /\ LinesOf(k, key)' = LinesOf(k, key) \cup (IF k = Len(entries) /\ line.key = key THEN {Here} ELSE {})
<1>1. /\ Section(k) \subseteq 1 .. Len(lines)
      /\ Section(k)' = Section(k) \cup (IF k = Len(entries) THEN {Here} ELSE {})
      /\ \A i \in Section(k) : lines'[i] = lines[i]
      /\ lines'[Here] = line
  BY SectionStep
<1> QED BY <1>1 DEF LinesOf

\* The kinds of lines an entry's own values come from.
Assigning == {"PATH", "CMDLINE", "PROTOCOL"}

\* An entry whose lines and values stay the same stays tied to them.
LEMMA EntryTiedKept ==
    ASSUME TypeOK, NEW line \in Lines, Read(line), NEW k \in DOMAIN entries,
           entries'[k].path = entries[k].path, entries'[k].fs = entries[k].fs,
           entries'[k].cmdline = entries[k].cmdline, entries'[k].protocol = entries[k].protocol,
           \A key \in Assigning :
                LinesOf(k, key) \in SUBSET (1 .. Len(lines)) /\ LinesOf(k, key)' = LinesOf(k, key),
           EntryTied(k), ModulesTied(k)'
    PROVE  EntryTied(k)'
<1>1. \A i \in 1 .. Len(lines) : lines'[i] = lines[i]
  BY ReadFacts
<1>2. /\ LinesOf(k, "PATH") \in SUBSET (1 .. Len(lines)) /\ LinesOf(k, "PATH")' = LinesOf(k, "PATH")
      /\ LinesOf(k, "CMDLINE")' = LinesOf(k, "CMDLINE")
      /\ LinesOf(k, "PROTOCOL") \in SUBSET (1 .. Len(lines)) /\ LinesOf(k, "PROTOCOL")' = LinesOf(k, "PROTOCOL")
  BY DEF Assigning
<1>3. Rooted(k)' = Rooted(k) /\ \A i \in Rooted(k) : lines'[i] = lines[i]
  BY <1>1, <1>2 DEF Rooted
<1>4. LastRootTied(k)'
  BY <1>3 DEF EntryTied, LocalsTied, LastRootTied
<1>5. ProtocolTied(k)'
  BY <1>1, <1>2 DEF EntryTied, LocalsTied, ProtocolTied
<1> QED BY <1>2, <1>4, <1>5 DEF EntryTied, LocalsTied

\* Modules come from lines that were read.
LEMMA ModulesTiedKept ==
    ASSUME TypeOK, NEW line \in Lines, Read(line), NEW k \in DOMAIN entries,
           \A j \in DOMAIN entries[k].modules : entries[k].modules[j].path \in 1 .. Len(lines),
           DOMAIN entries'[k].modules = DOMAIN entries[k].modules,
           \A j \in DOMAIN entries[k].modules :
                /\ entries'[k].modules[j].fs = entries[k].modules[j].fs
                /\ entries'[k].modules[j].path = entries[k].modules[j].path,
           ModulesTied(k)
    PROVE  ModulesTied(k)'
  BY ReadFacts DEF ModulesTied

\* Those of an entry are the MODULE_PATH lines of its section.
LEMMA ModulePaths ==
    ASSUME IInv, Accepted, NEW k \in DOMAIN entries
    PROVE  {entries[k].modules[j].path : j \in DOMAIN entries[k].modules} = LinesOf(k, "MODULE_PATH")
  BY DEF IInv, StringsInOrder, Matched

\* The head of the file ends where the first entry is.
LEMMA HeadStep ==
    ASSUME TypeOK, Headings, NEW line \in Lines, Read(line), NEW key
    PROVE  /\ HeadLinesOf(key) \in SUBSET (1 .. Len(lines))
           /\ entries = <<>> /\ entries' = <<>> =>
                HeadLinesOf(key)' = HeadLinesOf(key) \cup (IF line.key = key THEN {Here} ELSE {})
           /\ entries = <<>> /\ entries' # <<>> /\ entries'[1].name = Here => HeadLinesOf(key)' = HeadLinesOf(key)
           /\ entries # <<>> /\ entries' # <<>> /\ entries'[1].name = entries[1].name =>
                HeadLinesOf(key)' = HeadLinesOf(key)
<1>1. /\ Len(lines) \in Nat /\ Here = Len(lines) + 1 /\ Len(lines') = Here /\ lines'[Here] = line
      /\ \A i \in 1 .. Len(lines) : lines'[i] = lines[i]
  BY ReadFacts
<1>2. HeadSection \subseteq 1 .. Len(lines)
  <2>1. CASE entries = <<>>
    BY <2>1 DEF HeadSection
  <2>2. CASE entries # <<>>
    <3>1. 1 \in DOMAIN entries
      BY <2>2, EntryFields
    <3>2. entries[1].name <= Len(lines) /\ entries[1].name \in Nat
      BY <3>1, EntryFields DEF Headings
    <3> QED BY <1>1, <2>2, <3>2 DEF HeadSection
  <2> QED BY <2>1, <2>2
<1>3. CASE entries = <<>> /\ entries' = <<>>
  <2>1. HeadSection' = HeadSection \cup {Here}
    BY <1>1, <1>3 DEF HeadSection
  <2> QED BY <1>1, <1>2, <1>3, <2>1 DEF HeadLinesOf
<1>4. CASE \/ entries = <<>> /\ entries' # <<>> /\ entries'[1].name = Here
           \/ entries # <<>> /\ entries' # <<>> /\ entries'[1].name = entries[1].name
  <2>1. HeadSection' = HeadSection
    BY <1>1, <1>4 DEF HeadSection
  <2> QED BY <1>1, <1>2, <1>4, <2>1 DEF HeadLinesOf
<1> QED BY <1>1, <1>2, <1>3, <1>4 DEF HeadLinesOf

\* Lines other than entries leave the entries where they are.
LEMMA EntriesTiedKept ==
    ASSUME TypeOK, NEW line \in Lines, Read(line), line.key # "entry", EntriesTied,
           DOMAIN entries' = DOMAIN entries,
           \A k \in DOMAIN entries : entries'[k].name = entries[k].name
    PROVE  EntriesTied'
<1>1. {entries'[k].name : k \in DOMAIN entries'} = {entries[k].name : k \in DOMAIN entries}
  OBVIOUS
<1>2. {i \in DOMAIN lines' : lines'[i].key = "entry"} = {i \in DOMAIN lines : lines[i].key = "entry"}
  BY ReadFacts
<1> QED BY <1>1, <1>2 DEF EntriesTied

-----------------------------------------------------------------------------
(* An assignment to the current entry ties it to the line.                 *)

LEMMA LocalTied ==
    ASSUME TiedIInv, NEW line \in Lines, Read(line), entries # <<>>, line.key # "entry",
           NEW e \in BootEntry, e.name = Current.name, SetCurrent(e),
           NEW n, n = Len(entries), EntryTied(n)'
    PROVE  LinesTied'
<1>1. /\ TypeOK /\ Headings /\ Len(entries) \in Nat \ {0} /\ DOMAIN entries = 1 .. Len(entries)
      /\ entries' \in Seq(BootEntry) /\ Len(entries') = Len(entries)
      /\ entries'[Len(entries)] = e
      /\ \A k \in DOMAIN entries \ {Len(entries)} : entries'[k] = entries[k]
      /\ override' = override
  BY CurrentStep DEF TiedIInv, IInv
<1>2. DOMAIN entries' = DOMAIN entries /\ entries' # <<>>
      /\ \A k \in DOMAIN entries : entries'[k].name = entries[k].name
  <2>1. entries'[Len(entries)].name = entries[Len(entries)].name
    BY <1>1 DEF Current
  <2> QED BY <1>1, <2>1
<1>3. Accepted
  BY <1>1, ReadFacts
<1>4. EntriesTied /\ HeadTied /\ \A k \in DOMAIN entries : EntryTied(k)
  BY <1>3 DEF TiedIInv, LinesTied
<1>5. EntriesTied'
  BY <1>1, <1>2, <1>4, EntriesTiedKept
<1>6. HeadTied'
  <2>1. 1 \in DOMAIN entries
    BY <1>1
  <2>2. entries'[1].name = entries[1].name
    BY <1>2, <2>1
  <2>3. \A key : HeadLinesOf(key)' = HeadLinesOf(key)
    BY <1>1, <1>2, <2>2, HeadStep
  <2> QED BY <1>1, <1>4, <2>3 DEF HeadTied
<1>7. ASSUME NEW k \in DOMAIN entries, k # n PROVE EntryTied(k)'
  <2>1. \A key : LinesOf(k, key) \in SUBSET (1 .. Len(lines)) /\ LinesOf(k, key)' = LinesOf(k, key)
    <3>1. \A key :
            /\ LinesOf(k, key) \in SUBSET (1 .. Len(lines))
            /\ LinesOf(k, key)' = LinesOf(k, key) \cup (IF k = Len(entries) /\ line.key = key THEN {Here} ELSE {})
      BY <1>1, <1>2, LinesStep
    <3> QED BY <1>7, <3>1
  <2>2. entries'[k] = entries[k]
    BY <1>1, <1>7
  <2>3. \A j \in DOMAIN entries[k].modules : entries[k].modules[j].path \in 1 .. Len(lines)
    BY <1>3, <2>1, ModulePaths DEF TiedIInv
  <2>4. EntryTied(k) /\ ModulesTied(k)
    BY <1>4 DEF EntryTied, LocalsTied
  <2>5. ModulesTied(k)'
    BY <1>1, <2>2, <2>3, <2>4, ModulesTiedKept
  <2> QED BY <1>1, <2>1, <2>2, <2>4, <2>5, EntryTiedKept
<1> QED BY <1>2, <1>5, <1>6, <1>7 DEF LinesTied

\* What assignments to the current entry have in common.
LEMMA CurrentLines ==
    ASSUME TiedIInv, NEW line \in Lines, Read(line), entries # <<>>,
           NEW e \in BootEntry, e.name = Current.name, SetCurrent(e), NEW n, n = Len(entries)
    PROVE  /\ n \in DOMAIN entries /\ entries'[n] = e
           /\ EntryTied(n)
           /\ \A j \in DOMAIN Current.modules : Current.modules[j].path \in 1 .. Len(lines)
           /\ \A key :
                /\ LinesOf(n, key) \in SUBSET (1 .. Len(lines))
                /\ LinesOf(n, key)' =
                        LinesOf(n, key) \cup (IF line.key = key THEN {Here} ELSE {})
<1>1. /\ TypeOK /\ Headings /\ Len(entries) \in Nat \ {0} /\ DOMAIN entries = 1 .. Len(entries)
      /\ entries' \in Seq(BootEntry) /\ Len(entries') = Len(entries)
      /\ entries'[Len(entries)] = e
      /\ \A k \in DOMAIN entries \ {Len(entries)} : entries'[k] = entries[k]
  BY CurrentStep DEF TiedIInv, IInv
<1>2. \A k \in DOMAIN entries : entries'[k].name = entries[k].name
  <2>1. entries'[Len(entries)].name = entries[Len(entries)].name
    BY <1>1 DEF Current
  <2> QED BY <1>1, <2>1
<1>3. n \in DOMAIN entries /\ Accepted
  BY <1>1, ReadFacts
<1>4. \A key :
        /\ LinesOf(n, key) \in SUBSET (1 .. Len(lines))
        /\ LinesOf(n, key)' =
                LinesOf(n, key) \cup (IF line.key = key THEN {Here} ELSE {})
  BY <1>1, <1>2, <1>3, LinesStep
<1>5. EntryTied(n)
  BY <1>3 DEF TiedIInv, LinesTied
<1>6. \A j \in DOMAIN Current.modules : Current.modules[j].path \in 1 .. Len(lines)
  BY <1>3, <1>4, ModulePaths DEF TiedIInv, Current
<1> QED BY <1>1, <1>3, <1>4, <1>5, <1>6

LEMMA SetPathTied ==
    ASSUME TiedIInv, NEW line \in Lines, SetPath(line), pc' = "reading"
    PROVE  LinesTied'
<1> DEFINE fs == ParsedUri(line.uri, Current.fs)
           e == [Current EXCEPT !.path = Here, !.fs = fs]
<1>0. PICK n : n = Len(entries)
  OBVIOUS
<1>1. /\ Read(line) /\ entries # <<>> /\ line.key = "PATH" /\ AfterUri(line.uri) = "reading"
      /\ SetCurrent([Current EXCEPT
            !.path = Here, !.fs = IF pc' = "reading" THEN ParsedUri(line.uri, @) ELSE @])
  BY DEF SetPath, ReadLocal
<1>2. IInv /\ Current \in BootEntry /\ Here \in Nat \ {0} /\ Here = Len(lines) + 1 /\ Len(lines) \in Nat
  BY <1>0, <1>1, LocalFacts DEF TiedIInv
<1>3. fs \in DOMAIN Handles
  BY <1>0, <1>1, <1>2, ParsedUriType DEF BootEntry
<1>4. SetCurrent(e)
  BY <1>0, <1>1, <1>2 DEF BootEntry
<1> HIDE DEF fs
<1>5. /\ e \in BootEntry /\ e.name = Current.name /\ e.modules = Current.modules /\ e.path = Here /\ e.fs = fs
      /\ e.cmdline = Current.cmdline /\ e.protocol = Current.protocol
  BY <1>2, <1>3 DEF BootEntry
<1> HIDE DEF e
<1>6. /\ n \in DOMAIN entries /\ entries'[n] = e /\ EntryTied(n)
      /\ \A j \in DOMAIN Current.modules : Current.modules[j].path \in 1 .. Len(lines)
      /\ \A key : /\ LinesOf(n, key) \in SUBSET (1 .. Len(lines))
                  /\ LinesOf(n, key)' = LinesOf(n, key) \cup (IF line.key = key THEN {Here} ELSE {})
  BY <1>0, <1>1, <1>4, <1>5, CurrentLines
<1>7. /\ lines'[Here] = line /\ \A i \in 1 .. Len(lines) : lines'[i] = lines[i]
  BY <1>0, <1>1, <1>2, ReadFacts DEF IInv
<1>8. /\ LinesOf(n, "PATH") \in SUBSET (1 .. Len(lines)) /\ LinesOf(n, "PATH")' = LinesOf(n, "PATH") \cup {Here}
      /\ LinesOf(n, "CMDLINE")' = LinesOf(n, "CMDLINE")
      /\ LinesOf(n, "PROTOCOL") \in SUBSET (1 .. Len(lines)) /\ LinesOf(n, "PROTOCOL")' = LinesOf(n, "PROTOCOL")
  <2>1. LinesOf(n, "PATH") \in SUBSET (1 .. Len(lines)) /\ LinesOf(n, "PATH")' = LinesOf(n, "PATH") \cup {Here}
    BY <1>1, <1>6
  <2>2. LinesOf(n, "CMDLINE") \in SUBSET (1 .. Len(lines)) /\ LinesOf(n, "CMDLINE")' = LinesOf(n, "CMDLINE")
    BY <1>1, <1>6
  <2>3. LinesOf(n, "PROTOCOL") \in SUBSET (1 .. Len(lines)) /\ LinesOf(n, "PROTOCOL")' = LinesOf(n, "PROTOCOL")
    BY <1>1, <1>6
  <2> QED BY <2>1, <2>2, <2>3
<1>9. IsLast(entries'[n].path, LinesOf(n, "PATH")')
  BY <1>2, <1>5, <1>6, <1>8, IsLastNext
<1>10. Rooted(n)' = Rooted(n) \cup (IF Stays(line.uri) THEN {} ELSE {Here})
       /\ Rooted(n) \in SUBSET (1 .. Len(lines)) /\ \A i \in Rooted(n) : lines'[i] = lines[i]
  BY <1>7, <1>8 DEF Rooted
<1>11. LastRootTied(n)'
  <2>1. CASE Stays(line.uri)
    <3>1. entries'[n].fs = entries[n].fs
      BY <1>0, <1>5, <1>6, <2>1 DEF fs, ParsedUri, Current
    <3>2. Rooted(n)' = Rooted(n)
      BY <1>10, <2>1
    <3> QED BY <1>6, <1>10, <3>1, <3>2 DEF EntryTied, LocalsTied, LastRootTied
  <2>2. CASE ~Stays(line.uri)
    <3>1. entries'[n].fs = ParsedUri(lines'[Here].uri, BootHandle)
      BY <1>5, <1>6, <1>7, <2>2 DEF fs, ParsedUri
    <3>2. Rooted(n)' = Rooted(n) \cup {Here}
      BY <1>10, <2>2
    <3>3. IsLast(Here, Rooted(n)') /\ Here \in Rooted(n)'
      BY <1>2, <1>10, <3>2, IsLastNext
    <3> QED BY <3>1, <3>3 DEF LastRootTied
  <2> QED BY <2>1, <2>2
<1>12. ProtocolTied(n)'
  BY <1>0, <1>5, <1>6, <1>7, <1>8 DEF EntryTied, LocalsTied, ProtocolTied, Current
<1>13. ModulesTied(n)'
  BY <1>0, <1>5, <1>6, <1>7 DEF EntryTied, LocalsTied, ModulesTied, Current
<1>14. EntryTied(n)'
  BY <1>0, <1>5, <1>6, <1>8, <1>9, <1>11, <1>12, <1>13 DEF EntryTied, LocalsTied, Current
<1> QED BY <1>0, <1>1, <1>4, <1>5, <1>14, LocalTied

LEMMA SetCmdlineTied ==
    ASSUME TiedIInv, NEW line \in Lines, SetCmdline(line)
    PROVE  LinesTied'
<1> DEFINE e == [Current EXCEPT !.cmdline = Here]
<1>0. PICK n : n = Len(entries)
  OBVIOUS
<1>1. Read(line) /\ entries # <<>> /\ line.key = "CMDLINE" /\ SetCurrent(e)
  BY DEF SetCmdline, ReadLocal
<1>2. IInv /\ Current \in BootEntry /\ Here \in Nat \ {0} /\ Here = Len(lines) + 1 /\ Len(lines) \in Nat
  BY <1>0, <1>1, LocalFacts DEF TiedIInv
<1>3. /\ e \in BootEntry /\ e.name = Current.name /\ e.modules = Current.modules /\ e.path = Current.path
      /\ e.fs = Current.fs /\ e.cmdline = Here /\ e.protocol = Current.protocol
  BY <1>2 DEF BootEntry
<1> HIDE DEF e
<1>4. /\ n \in DOMAIN entries /\ entries'[n] = e /\ EntryTied(n)
      /\ \A j \in DOMAIN Current.modules : Current.modules[j].path \in 1 .. Len(lines)
      /\ \A key : /\ LinesOf(n, key) \in SUBSET (1 .. Len(lines))
                  /\ LinesOf(n, key)' = LinesOf(n, key) \cup (IF line.key = key THEN {Here} ELSE {})
  BY <1>0, <1>1, <1>3, CurrentLines
<1>5. \A i \in 1 .. Len(lines) : lines'[i] = lines[i]
  BY <1>0, <1>1, <1>2, ReadFacts DEF IInv
<1>6. /\ LinesOf(n, "PATH") \in SUBSET (1 .. Len(lines)) /\ LinesOf(n, "PATH")' = LinesOf(n, "PATH")
      /\ LinesOf(n, "CMDLINE") \in SUBSET (1 .. Len(lines))
      /\ LinesOf(n, "CMDLINE")' = LinesOf(n, "CMDLINE") \cup {Here}
      /\ LinesOf(n, "PROTOCOL") \in SUBSET (1 .. Len(lines)) /\ LinesOf(n, "PROTOCOL")' = LinesOf(n, "PROTOCOL")
  <2>1. LinesOf(n, "PATH") \in SUBSET (1 .. Len(lines)) /\ LinesOf(n, "PATH")' = LinesOf(n, "PATH")
    BY <1>1, <1>4
  <2>2. LinesOf(n, "CMDLINE") \in SUBSET (1 .. Len(lines)) /\ LinesOf(n, "CMDLINE")' = LinesOf(n, "CMDLINE") \cup {Here}
    BY <1>1, <1>4
  <2>3. LinesOf(n, "PROTOCOL") \in SUBSET (1 .. Len(lines)) /\ LinesOf(n, "PROTOCOL")' = LinesOf(n, "PROTOCOL")
    BY <1>1, <1>4
  <2> QED BY <2>1, <2>2, <2>3
<1>7. IsLast(entries'[n].cmdline, LinesOf(n, "CMDLINE")')
  BY <1>2, <1>3, <1>4, <1>6, IsLastNext
<1>8. Rooted(n)' = Rooted(n) /\ \A i \in Rooted(n) : lines'[i] = lines[i]
  BY <1>5, <1>6 DEF Rooted
<1>9. LastRootTied(n)'
  BY <1>0, <1>3, <1>4, <1>8 DEF EntryTied, LocalsTied, LastRootTied, Current
<1>10. ProtocolTied(n)'
  BY <1>0, <1>3, <1>4, <1>5, <1>6 DEF EntryTied, LocalsTied, ProtocolTied, Current
<1>11. ModulesTied(n)'
  BY <1>0, <1>3, <1>4, <1>5 DEF EntryTied, LocalsTied, ModulesTied, Current
<1>12. EntryTied(n)'
  BY <1>0, <1>3, <1>4, <1>6, <1>7, <1>9, <1>10, <1>11 DEF EntryTied, LocalsTied, Current
<1> QED BY <1>0, <1>1, <1>3, <1>12, LocalTied

LEMMA SetProtocolTied ==
    ASSUME TiedIInv, NEW line \in Lines, SetProtocol(line), pc' = "reading"
    PROVE  LinesTied'
<1> DEFINE e == [Current EXCEPT !.protocol = line.protocol]
<1>0. PICK n : n = Len(entries)
  OBVIOUS
<1>1. Read(line) /\ entries # <<>> /\ line.key = "PROTOCOL" /\ line.protocol # "unknown" /\ SetCurrent(e)
  BY DEF SetProtocol, ReadLocal
<1>2. IInv /\ Current \in BootEntry /\ Here \in Nat \ {0} /\ Here = Len(lines) + 1 /\ Len(lines) \in Nat
  BY <1>0, <1>1, LocalFacts DEF TiedIInv
<1>3. line.protocol \in BootProtocols
  BY <1>0, <1>1, LinesAssumption DEF LineForms, GlobalKeys, UriKeys
<1>4. /\ e \in BootEntry /\ e.name = Current.name /\ e.modules = Current.modules /\ e.path = Current.path
      /\ e.fs = Current.fs /\ e.cmdline = Current.cmdline /\ e.protocol = line.protocol
  BY <1>2, <1>3 DEF BootEntry
<1> HIDE DEF e
<1>5. /\ n \in DOMAIN entries /\ entries'[n] = e /\ EntryTied(n)
      /\ \A j \in DOMAIN Current.modules : Current.modules[j].path \in 1 .. Len(lines)
      /\ \A key : /\ LinesOf(n, key) \in SUBSET (1 .. Len(lines))
                  /\ LinesOf(n, key)' = LinesOf(n, key) \cup (IF line.key = key THEN {Here} ELSE {})
  BY <1>0, <1>1, <1>4, CurrentLines
<1>6. lines'[Here] = line /\ \A i \in 1 .. Len(lines) : lines'[i] = lines[i]
  BY <1>0, <1>1, <1>2, ReadFacts DEF IInv
<1>7. /\ LinesOf(n, "PATH") \in SUBSET (1 .. Len(lines)) /\ LinesOf(n, "PATH")' = LinesOf(n, "PATH")
      /\ LinesOf(n, "CMDLINE")' = LinesOf(n, "CMDLINE")
      /\ LinesOf(n, "PROTOCOL") \in SUBSET (1 .. Len(lines))
      /\ LinesOf(n, "PROTOCOL")' = LinesOf(n, "PROTOCOL") \cup {Here}
  BY <1>0, <1>1, <1>5
<1>8. Rooted(n)' = Rooted(n) /\ \A i \in Rooted(n) : lines'[i] = lines[i]
  BY <1>6, <1>7 DEF Rooted
<1>9. LastRootTied(n)'
  BY <1>0, <1>4, <1>5, <1>8 DEF EntryTied, LocalsTied, LastRootTied, Current
<1>10. ProtocolTied(n)'
  <2>1. IsLast(Here, LinesOf(n, "PROTOCOL")') /\ Here \in LinesOf(n, "PROTOCOL")'
    BY <1>2, <1>7, IsLastNext
  <2> QED BY <1>4, <1>5, <1>6, <2>1 DEF ProtocolTied
<1>11. ModulesTied(n)'
  BY <1>0, <1>4, <1>5, <1>6 DEF EntryTied, LocalsTied, ModulesTied, Current
<1>12. EntryTied(n)'
  BY <1>0, <1>4, <1>5, <1>7, <1>9, <1>10, <1>11 DEF EntryTied, LocalsTied, Current
<1> QED BY <1>0, <1>1, <1>4, <1>12, LocalTied

\* A line that leaves the values of the current entry alone.
LEMMA OwnValuesKept ==
    ASSUME TiedIInv, NEW line \in Lines, Read(line), entries # <<>>, line.key \notin Assigning, line.key # "entry",
           NEW e \in BootEntry, e.name = Current.name, e.path = Current.path, e.fs = Current.fs,
           e.cmdline = Current.cmdline, e.protocol = Current.protocol, SetCurrent(e),
           NEW n, n = Len(entries), ModulesTied(n)'
    PROVE  LinesTied'
<1>1. /\ n \in DOMAIN entries /\ entries'[n] = e /\ EntryTied(n) /\ TypeOK
      /\ \A key : /\ LinesOf(n, key) \in SUBSET (1 .. Len(lines))
                  /\ LinesOf(n, key)' = LinesOf(n, key) \cup (IF line.key = key THEN {Here} ELSE {})
  BY CurrentLines DEF TiedIInv, IInv
<1>2. \A key \in Assigning : LinesOf(n, key) \in SUBSET (1 .. Len(lines)) /\ LinesOf(n, key)' = LinesOf(n, key)
  <2>1. ASSUME NEW key \in Assigning
        PROVE  LinesOf(n, key) \in SUBSET (1 .. Len(lines)) /\ LinesOf(n, key)' = LinesOf(n, key)
    <3>1. line.key # key
      BY <2>1
    <3>2. /\ LinesOf(n, key) \in SUBSET (1 .. Len(lines))
          /\ LinesOf(n, key)' = LinesOf(n, key) \cup (IF line.key = key THEN {Here} ELSE {})
      BY ONLY <1>1
    <3> QED BY ONLY <3>1, <3>2
  <2> QED BY <2>1
<1>3. /\ entries'[n].path = entries[n].path /\ entries'[n].fs = entries[n].fs
      /\ entries'[n].cmdline = entries[n].cmdline /\ entries'[n].protocol = entries[n].protocol
  BY <1>1 DEF Current
<1>4. EntryTied(n)'
  BY <1>1, <1>2, <1>3, EntryTiedKept
<1> QED BY <1>4, LocalTied

LEMMA AddModuleTied ==
    ASSUME TiedIInv, NEW line \in Lines, AddModule(line), pc' = "reading"
    PROVE  LinesTied'
<1> DEFINE ms == Current.modules
           m == [fs |-> ParsedUri(line.uri, BootHandle), path |-> Here, tag |-> NoLine]
           e == [Current EXCEPT !.modules = Append(ms, m)]
<1>0. PICK n : n = Len(entries)
  OBVIOUS
<1>1. /\ Read(line) /\ entries # <<>> /\ line.key = "MODULE_PATH" /\ AfterUri(line.uri) = "reading"
      /\ SetCurrent(e)
  BY DEF AddModule, ReadLocal
<1>2. /\ IInv /\ Current \in BootEntry /\ ms \in Seq(Modules) /\ Here \in Nat \ {0}
      /\ Here = Len(lines) + 1 /\ Len(lines) \in Nat
  BY <1>0, <1>1, LocalFacts DEF TiedIInv
<1>3. m \in Modules /\ m.path = Here /\ m.fs = ParsedUri(line.uri, BootHandle)
  BY <1>0, <1>1, <1>2, ParsedUriType, HandlesAssumption DEF Modules, NoLine
<1> HIDE DEF m
<1>4. /\ Append(ms, m) \in Seq(Modules) /\ Len(ms) \in Nat /\ DOMAIN ms = 1 .. Len(ms)
      /\ DOMAIN Append(ms, m) = 1 .. Len(ms) + 1 /\ Append(ms, m)[Len(ms) + 1] = m
      /\ \A j \in 1 .. Len(ms) : Append(ms, m)[j] = ms[j]
  BY <1>2, <1>3
<1>5. /\ e \in BootEntry /\ e.name = Current.name /\ e.path = Current.path /\ e.fs = Current.fs
      /\ e.cmdline = Current.cmdline /\ e.protocol = Current.protocol /\ e.modules = Append(ms, m)
  <2> HIDE DEF ms
  <2> QED BY <1>2, <1>4 DEF BootEntry
<1> HIDE DEF e
<1>6. /\ n \in DOMAIN entries /\ entries'[n] = e /\ EntryTied(n)
      /\ \A j \in DOMAIN ms : ms[j].path \in 1 .. Len(lines)
  BY <1>0, <1>1, <1>5, CurrentLines
<1>7. lines'[Here] = line /\ \A i \in 1 .. Len(lines) : lines'[i] = lines[i]
  BY <1>0, <1>1, <1>2, ReadFacts DEF IInv
<1>8. \A j \in DOMAIN ms : ms[j].fs = ParsedUri(lines[ms[j].path].uri, BootHandle)
  BY <1>0, <1>6 DEF EntryTied, LocalsTied, ModulesTied, Current
<1>9. ModulesTied(n)'
  <2>1. entries'[n].modules = Append(ms, m)
    BY <1>5, <1>6
  <2>2. ASSUME NEW j \in 1 .. Len(ms) + 1
        PROVE  Append(ms, m)[j].fs = ParsedUri(lines'[Append(ms, m)[j].path].uri, BootHandle)
    <3> HIDE DEF ms
    <3>1. CASE j = Len(ms) + 1
      BY <1>3, <1>4, <1>7, <3>1
    <3>2. CASE j \in 1 .. Len(ms)
      BY <1>4, <1>6, <1>7, <1>8, <3>2
    <3> QED BY <1>4, <3>1, <3>2
  <2> QED BY <1>4, <2>1, <2>2 DEF ModulesTied
<1>10. line.key \notin Assigning /\ line.key # "entry"
  BY <1>1 DEF Assigning
<1> QED BY <1>0, <1>1, <1>5, <1>9, <1>10, OwnValuesKept

LEMMA SetStringTied ==
    ASSUME TiedIInv, NEW line \in Lines, SetString(line), pc' = "reading"
    PROVE  LinesTied'
<1> DEFINE ms == Current.modules
           new == [ms EXCEPT ![moduleString].tag = Here]
           e == [Current EXCEPT !.modules = new]
<1>0. PICK n : n = Len(entries)
  OBVIOUS
<1>1. Read(line) /\ entries # <<>> /\ line.key = "MODULE_STRING"
  BY DEF SetString, ReadLocal
<1>2. /\ IInv /\ Current \in BootEntry /\ ms \in Seq(Modules) /\ Here \in Nat \ {0}
      /\ Here = Len(lines) + 1 /\ Len(lines) \in Nat
  BY <1>0, <1>1, LocalFacts DEF TiedIInv
<1>3. moduleString # NoModule /\ SetCurrent([Current EXCEPT !.modules[moduleString].tag = Here])
  BY DEF SetString
<1>4. moduleString \in 1 .. Len(ms) /\ Len(ms) \in Nat /\ DOMAIN ms = 1 .. Len(ms)
      /\ \A j \in DOMAIN ms : ms[j] \in Modules
  BY <1>0, <1>1, <1>2, <1>3 DEF IInv, TypeOK, NoModule
<1>5. /\ new \in Seq(Modules) /\ DOMAIN new = DOMAIN ms
      /\ \A j \in DOMAIN ms : new[j].fs = ms[j].fs /\ new[j].path = ms[j].path
  <2>1. /\ [ms[moduleString] EXCEPT !.tag = Here] \in Modules
        /\ [ms[moduleString] EXCEPT !.tag = Here].fs = ms[moduleString].fs
        /\ [ms[moduleString] EXCEPT !.tag = Here].path = ms[moduleString].path
    BY <1>2, <1>4 DEF Modules
  <2> QED BY <1>2, <1>4, <2>1
<1>6. SetCurrent(e)
  BY <1>2, <1>3 DEF BootEntry
<1> HIDE DEF new
<1>7. /\ e \in BootEntry /\ e.name = Current.name /\ e.path = Current.path /\ e.fs = Current.fs
      /\ e.cmdline = Current.cmdline /\ e.protocol = Current.protocol /\ e.modules = new
  BY <1>2, <1>5 DEF BootEntry
<1> HIDE DEF e
<1>8. /\ n \in DOMAIN entries /\ entries'[n] = e /\ EntryTied(n)
      /\ \A j \in DOMAIN ms : ms[j].path \in 1 .. Len(lines)
  BY <1>0, <1>1, <1>6, <1>7, CurrentLines
<1>9. ModulesTied(n)'
  <2>1. /\ entries[n].modules = ms /\ DOMAIN entries'[n].modules = DOMAIN ms
        /\ \A j \in DOMAIN ms :
              entries'[n].modules[j].fs = ms[j].fs /\ entries'[n].modules[j].path = ms[j].path
    BY <1>0, <1>5, <1>7, <1>8 DEF Current
  <2>2. ModulesTied(n) /\ TypeOK
    BY <1>2, <1>8 DEF EntryTied, LocalsTied, IInv
  <2> HIDE DEF ms
  <2> QED BY <1>0, <1>1, <1>8, <2>1, <2>2, ModulesTiedKept
<1>10. line.key \notin Assigning /\ line.key # "entry"
  BY <1>1 DEF Assigning
<1> QED BY <1>0, <1>1, <1>6, <1>7, <1>9, <1>10, OwnValuesKept

-----------------------------------------------------------------------------
(* Lines that assign nothing to an entry.                                  *)

\* A new entry is empty and has its own name; the others stay tied.
LEMMA NewEntryTied ==
    ASSUME TiedIInv, NEW line \in Lines, NewEntry(line)
    PROVE  LinesTied'
<1>0. PICK n : n = Len(entries)
  OBVIOUS
<1>1. /\ TypeOK /\ Headings /\ Read(line) /\ line.key = "entry" /\ override' = override
      /\ \A k \in DOMAIN entries : Accepted => EntryTied(k)
  BY DEF TiedIInv, IInv, NewEntry, LinesTied
<1>2. /\ n \in Nat /\ DOMAIN entries = 1 .. n
      /\ entries' \in Seq(BootEntry) /\ Len(entries') = n + 1 /\ DOMAIN entries' = 1 .. n + 1
      /\ entries'[n + 1] = [name |-> Here, protocol |-> "BOOT_INVALID", fs |-> BootHandle,
                            path |-> NoLine, cmdline |-> NoLine, modules |-> <<>>]
      /\ Section(n + 1)' = {}
      /\ \A k \in 1 .. n : /\ entries'[k] = entries[k] /\ entries[k].name \in 1 .. Len(lines)
                          /\ Section(k)' = Section(k) /\ Section(k) \subseteq 1 .. Len(lines)
  BY <1>0, <1>1, NewEntryStep
<1>3. /\ Len(lines) \in Nat /\ Here = Len(lines) + 1
      /\ DOMAIN lines = 1 .. Len(lines) /\ DOMAIN lines' = 1 .. Here
      /\ lines'[Here] = line /\ \A i \in 1 .. Len(lines) : lines'[i] = lines[i]
      /\ pc = "reading" /\ Accepted
  BY <1>1, ReadFacts
<1>4. EntriesTied /\ HeadTied
  BY <1>3 DEF TiedIInv, LinesTied
<1>5. EntriesTied'
  <2>1. {entries'[k].name : k \in DOMAIN entries'} = {entries[k].name : k \in DOMAIN entries} \cup {Here}
    BY <1>2
  <2>2. {i \in DOMAIN lines' : lines'[i].key = "entry"} =
            {i \in DOMAIN lines : lines[i].key = "entry"} \cup {Here}
    BY <1>1, <1>3
  <2> QED BY <1>4, <2>1, <2>2 DEF EntriesTied
<1>6. HeadTied'
  <2>1. entries' # <<>> /\ (entries = <<>> => n = 0) /\ (entries # <<>> => 1 \in 1 .. n)
    BY <1>0, <1>1, <1>2 DEF TypeOK
  <2>2. /\ entries = <<>> => entries'[1].name = Here
        /\ entries # <<>> => entries'[1].name = entries[1].name
    BY <1>2, <2>1
  <2>3. \A key : HeadLinesOf(key)' = HeadLinesOf(key)
    BY <1>1, <2>1, <2>2, HeadStep
  <2> QED BY <1>1, <1>4, <2>3 DEF HeadTied
<1>7. ASSUME NEW k \in 1 .. n PROVE EntryTied(k)'
  <2>1. \A key : LinesOf(k, key) \in SUBSET (1 .. Len(lines)) /\ LinesOf(k, key)' = LinesOf(k, key)
    BY <1>2, <1>3 DEF LinesOf
  <2>2. entries'[k] = entries[k] /\ k \in DOMAIN entries /\ EntryTied(k) /\ ModulesTied(k)
    BY <1>1, <1>2, <1>3 DEF EntryTied, LocalsTied
  <2>3. \A j \in DOMAIN entries[k].modules : entries[k].modules[j].path \in 1 .. Len(lines)
    BY <1>3, <2>1, <2>2, ModulePaths DEF TiedIInv
  <2>4. ModulesTied(k)'
    BY <1>1, <2>2, <2>3, ModulesTiedKept
  <2> QED BY <1>1, <2>1, <2>2, <2>4, EntryTiedKept
<1>8. EntryTied(n + 1)'
  <2>1. \A key : LinesOf(n + 1, key)' = {}
    BY <1>2 DEF LinesOf
  <2>2. /\ IsLast(entries'[n + 1].path, LinesOf(n + 1, "PATH")')
        /\ IsLast(entries'[n + 1].cmdline, LinesOf(n + 1, "CMDLINE")')
    BY <1>2, <2>1 DEF IsLast
  <2>3. LastRootTied(n + 1)'
    BY <1>2, <2>1 DEF LastRootTied, Rooted
  <2>4. ProtocolTied(n + 1)'
    BY <1>2, <2>1 DEF ProtocolTied
  <2>5. ModulesTied(n + 1)'
    BY <1>2 DEF ModulesTied
  <2> QED BY <2>2, <2>3, <2>4, <2>5 DEF EntryTied, LocalsTied
<1> QED BY <1>2, <1>5, <1>6, <1>7, <1>8 DEF LinesTied

\* Global keys count up to the first entry, and nothing else is assigned there.
LEMMA GlobalTied ==
    ASSUME TiedIInv, NEW line \in Lines, GlobalKey(line) \/ IgnoredLine(line)
    PROVE  LinesTied'
<1>1. /\ TypeOK /\ Headings /\ Read(line) /\ line.key # "entry" /\ entries' = entries /\ pc' = pc
  BY DEF TiedIInv, IInv, GlobalKey, IgnoredLine
<1>2. /\ Len(lines) \in Nat /\ Here = Len(lines) + 1 /\ DOMAIN lines = 1 .. Len(lines)
      /\ lines'[Here] = line /\ \A i \in 1 .. Len(lines) : lines'[i] = lines[i]
      /\ pc = "reading" /\ Accepted
  BY <1>1, ReadFacts
<1>3. EntriesTied /\ HeadTied /\ \A k \in DOMAIN entries : EntryTied(k)
  BY <1>2 DEF TiedIInv, LinesTied
<1>4. EntriesTied'
  BY <1>1, <1>3, EntriesTiedKept
<1>5. HeadTied'
  <2>1. CASE entries # <<>>
    <3>1. \A key : HeadLinesOf(key)' = HeadLinesOf(key)
      BY <1>1, <2>1, HeadStep
    <3>2. override' = override
      BY <2>1 DEF GlobalKey, IgnoredLine, IsGlobal
    <3> QED BY <1>3, <3>1, <3>2 DEF HeadTied
  <2>2. CASE entries = <<>>
    <3>1. \A key : /\ HeadLinesOf(key) \in SUBSET (1 .. Len(lines))
                  /\ HeadLinesOf(key)' =
                        HeadLinesOf(key) \cup (IF line.key = key THEN {Here} ELSE {})
      BY <1>1, <2>2, HeadStep
    <3>2. /\ HeadLinesOf("TIMEOUT") \in SUBSET (1 .. Len(lines))
          /\ HeadLinesOf("TIMEOUT")' =
                HeadLinesOf("TIMEOUT") \cup (IF line.key = "TIMEOUT" THEN {Here} ELSE {})
      BY ONLY <3>1
    <3>3. /\ HeadLinesOf("DEFAULT_ENTRY") \in SUBSET (1 .. Len(lines))
          /\ HeadLinesOf("DEFAULT_ENTRY")' =
                HeadLinesOf("DEFAULT_ENTRY") \cup (IF line.key = "DEFAULT_ENTRY" THEN {Here} ELSE {})
      BY ONLY <3>1
    <3>4. /\ override'.BootDelay = IF line.key = "TIMEOUT" THEN Here ELSE override.BootDelay
          /\ override'.DefaultOS = IF line.key = "DEFAULT_ENTRY" THEN Here ELSE override.DefaultOS
      BY <1>1, <2>2 DEF GlobalKey, IgnoredLine, IsGlobal, GlobalKeys, TypeOK
    <3>5. IsLast(override'.BootDelay, HeadLinesOf("TIMEOUT")')
      BY <1>2, <1>3, <3>2, <3>4, IsLastNext DEF HeadTied
    <3>6. IsLast(override'.DefaultOS, HeadLinesOf("DEFAULT_ENTRY")')
      BY <1>2, <1>3, <3>3, <3>4, IsLastNext DEF HeadTied
    <3> QED BY <3>5, <3>6 DEF HeadTied
  <2> QED BY <2>1, <2>2
<1>6. ASSUME NEW k \in DOMAIN entries PROVE EntryTied(k)'
  <2>1. line.key \notin Assigning
    <3>1. entries # <<>>
      BY <1>1 DEF TypeOK
    <3> QED BY <3>1 DEF GlobalKey, IgnoredLine, IsGlobal, GlobalKeys, Assigning
  <2>2. ASSUME NEW key
        PROVE /\ LinesOf(k, key) \in SUBSET (1 .. Len(lines))
              /\ LinesOf(k, key)' =
                    LinesOf(k, key) \cup (IF k = Len(entries) /\ line.key = key THEN {Here} ELSE {})
    BY <1>1, LinesStep DEF TypeOK
  <2>3. ASSUME NEW key \in Assigning
        PROVE  LinesOf(k, key) \in SUBSET (1 .. Len(lines)) /\ LinesOf(k, key)' = LinesOf(k, key)
    <3>1. line.key # key
      BY <2>1, <2>3
    <3> QED BY ONLY <2>2, <3>1
  <2>4. \A j \in DOMAIN entries[k].modules : entries[k].modules[j].path \in 1 .. Len(lines)
    BY <1>2, <2>2, ModulePaths DEF TiedIInv
  <2>5. EntryTied(k) /\ ModulesTied(k)
    BY <1>3 DEF EntryTied, LocalsTied
  <2>6. ModulesTied(k)'
    BY <1>1, <2>4, <2>5, ModulesTiedKept
  <2> QED BY <1>1, <2>3, <2>5, <2>6, EntryTiedKept
<1> QED BY <1>1, <1>4, <1>5, <1>6 DEF LinesTied

-----------------------------------------------------------------------------
(* Every line is applied where it belongs.                                 *)

LEMMA InitTied == Init => TiedIInv
<1> SUFFICES ASSUME Init PROVE TiedIInv
  OBVIOUS
<1> QED BY InitIInv DEF Init, TiedIInv, Unassigned, LinesTied, Accepted

\* Nothing changes for an entry if neither the lines nor the entries do.
LEMMA EntryTiedStays ==
    ASSUME UNCHANGED <<lines, entries>>, NEW k \in DOMAIN entries, EntryTied(k)
    PROVE  EntryTied(k)'
<1>1. \A key : LinesOf(k, key)' = LinesOf(k, key)
  BY DEF LinesOf, Section
<1>2. LastRootTied(k)'
  BY <1>1 DEF EntryTied, LocalsTied, LastRootTied, Rooted
<1>3. ProtocolTied(k)'
  BY <1>1 DEF EntryTied, LocalsTied, ProtocolTied
<1>4. ModulesTied(k)'
  BY DEF EntryTied, LocalsTied, ModulesTied
<1> QED BY <1>1, <1>2, <1>3, <1>4 DEF EntryTied, LocalsTied

\* Opening the file assigns nothing, and its end leaves everything as it is.
LEMMA OpenTied ==
    ASSUME TiedIInv, OpenConfig \/ EndOfFile
    PROVE  LinesTied'
<1>1. UNCHANGED <<lines, entries, override>> /\ pc \in {"open", "reading"}
  BY DEF OpenConfig, EndOfFile
<1>2. CASE pc = "open"
  <2>1. lines = <<>> /\ entries = <<>> /\ override = [BootDelay |-> NoLine, DefaultOS |-> NoLine]
    BY <1>2 DEF TiedIInv, IInv, Unopened, Unassigned
  <2>2. EntriesTied'
    BY <1>1, <2>1 DEF EntriesTied
  <2>3. HeadTied'
    BY <1>1, <2>1 DEF HeadTied, HeadLinesOf, HeadSection, IsLast
  <2> QED BY <1>1, <2>1, <2>2, <2>3 DEF LinesTied
<1>3. CASE pc = "reading"
  <2>1. EntriesTied /\ HeadTied /\ \A k \in DOMAIN entries : EntryTied(k)
    BY <1>3 DEF TiedIInv, LinesTied, Accepted
  <2>2. EntriesTied'
    BY <1>1, <2>1 DEF EntriesTied
  <2>3. HeadTied'
    BY <1>1, <2>1 DEF HeadTied, HeadLinesOf, HeadSection
  <2>4. \A k \in DOMAIN entries : EntryTied(k)'
    BY <1>1, <2>1, EntryTiedStays
  <2> QED BY <1>1, <2>2, <2>3, <2>4 DEF LinesTied
<1> QED BY <1>1, <1>2, <1>3

LEMMA NextTied == TiedIInv /\ [Next]_vars => TiedIInv'
<1> SUFFICES ASSUME TiedIInv, [Next]_vars PROVE TiedIInv'
  OBVIOUS
<1>1. IInv'
  BY NextIInv DEF TiedIInv
<1>2. CASE OpenConfig \/ EndOfFile
  <2>1. LinesTied' /\ pc' # "open"
    BY <1>2, OpenTied DEF OpenConfig, EndOfFile
  <2> QED BY <1>1, <2>1 DEF TiedIInv, Unassigned
<1>3. ASSUME NEW line \in Lines, ReadLine(line)
      PROVE  TiedIInv'
  <2>1. Read(line) /\ pc = "reading"
    BY <1>3 DEF ReadLine, Unreadable, NewEntry, GlobalKey, IgnoredLine, SetPath, SetCmdline, SetProtocol,
        AddModule, SetString, ReadLocal, Read
  <2>2. pc' \in {"reading", "refused", "undefined"}
    BY <1>3, <2>1, AfterUriType DEF ReadLine, Unreadable, NewEntry, GlobalKey, IgnoredLine, SetPath, SetCmdline,
        SetProtocol, AddModule, SetString
  <2>3. ASSUME pc' # "reading" PROVE LinesTied'
    BY <2>2, <2>3 DEF LinesTied, Accepted
  <2>4. ASSUME pc' = "reading" PROVE LinesTied'
    <3>1. ~Unreadable(line)
      BY <2>4 DEF Unreadable
    <3> QED BY <1>3, <2>4, <3>1, NewEntryTied, GlobalTied, SetPathTied, SetCmdlineTied, SetProtocolTied,
            AddModuleTied, SetStringTied DEF ReadLine
  <2>5. LinesTied'
    BY <2>3, <2>4
  <2> QED BY <1>1, <2>2, <2>5 DEF TiedIInv, Unassigned
<1>4. CASE UNCHANGED vars
  <2>1. UNCHANGED <<pc, lines, entries, override>> /\ Unassigned /\ LinesTied
    BY <1>4 DEF vars, TiedIInv
  <2>2. CASE Accepted
    <3>1. EntriesTied /\ HeadTied /\ \A k \in DOMAIN entries : EntryTied(k)
      BY <2>1, <2>2 DEF LinesTied
    <3>2. EntriesTied'
      BY <2>1, <3>1 DEF EntriesTied
    <3>3. HeadTied'
      BY <2>1, <3>1 DEF HeadTied, HeadLinesOf, HeadSection
    <3>4. \A k \in DOMAIN entries : EntryTied(k)'
      BY <2>1, <3>1, EntryTiedStays
    <3> QED BY <1>1, <2>1, <3>2, <3>3, <3>4 DEF TiedIInv, Unassigned, LinesTied
  <2>3. CASE ~Accepted
    BY <1>1, <2>1, <2>3 DEF TiedIInv, Unassigned, LinesTied, Accepted
  <2> QED BY <2>2, <2>3
<1> QED BY <1>2, <1>3, <1>4 DEF Next

\* The inductive invariant of the assignments: with the order of the entries and
\* the matching of strings, every value is that of its line.
THEOREM AssignmentsInvariance == Spec => []TiedIInv
  BY InitTied, NextTied, PTL DEF Spec

\* A value of the last head line of a key is that of the last of all lines of the key,
\* if they are all in the head.
LEMMA HeadDecides ==
    ASSUME TypeOK, Headings, NEW i, NEW key, IsLast(i, HeadLinesOf(key))
    PROVE  IsValueOf(i, key)
<1>1. HeadLinesOf(key) \subseteq AllLinesOf(key)
  <2>1. HeadSection \subseteq DOMAIN lines
    <3>1. Len(lines) \in Nat /\ DOMAIN lines = 1 .. Len(lines)
      BY DEF TypeOK
    <3>2. CASE entries # <<>>
      <4>1. 1 \in DOMAIN entries
        BY <3>2, EntryFields
      <4>2. entries[1].name <= Len(lines) /\ entries[1].name \in Nat
        BY <4>1, EntryFields DEF Headings
      <4> QED BY <3>1, <3>2, <4>2 DEF HeadSection
    <3>3. CASE entries = <<>>
      BY <3>1, <3>3 DEF HeadSection
    <3> QED BY <3>2, <3>3
  <2> QED BY <2>1 DEF HeadLinesOf, AllLinesOf
<1> QED BY <1>1 DEF IsValueOf, IsLast

\* For every file and all file systems: the last assignment of a section wins and
\* reaches no other entry, so does the last of a global key that is only given at the
\* beginning of the file, and what a path of an entry names is on the file system
\* that its own URI gives.
THEOREM LinesApplied == Spec => []AssignmentsTied
<1>1. TiedIInv => AssignmentsTied
  <2> SUFFICES ASSUME TiedIInv, Accepted
               PROVE  EntriesTied /\ GlobalsTied /\ \A k \in DOMAIN entries : LocalsTied(k) /\ RootTied(k)
    BY DEF AssignmentsTied
  <2>1. /\ TypeOK /\ Headings /\ EntriesTied /\ HeadTied
        /\ \A k \in DOMAIN entries : LocalsTied(k) /\ LastRootTied(k)
    BY DEF TiedIInv, IInv, LinesTied, EntryTied
  <2>2. GlobalsTied
    BY <2>1, HeadDecides DEF HeadTied, GlobalsTied
  <2>3. ASSUME NEW k \in DOMAIN entries PROVE RootTied(k)
    <3>1. ASSUME entries[k].path \in Rooted(k)
          PROVE  entries[k].fs = ParsedUri(lines[entries[k].path].uri, BootHandle)
      <4> DEFINE last == entries[k].path
      <4>1. /\ last \in LinesOf(k, "PATH") /\ \A j \in LinesOf(k, "PATH") : j <= last
            /\ Rooted(k) \subseteq LinesOf(k, "PATH")
        BY <2>1, <3>1 DEF LocalsTied, IsLast, Rooted
      <4>2. PICK i \in Rooted(k) : IsLast(i, Rooted(k)) /\ entries[k].fs = ParsedUri(lines[i].uri, BootHandle)
        BY <2>1, <3>1 DEF LastRootTied
      <4>3. i <= last /\ last <= i
        BY <3>1, <4>1, <4>2 DEF IsLast
      <4>4. i \in Int /\ last \in Int
        BY <4>1, <4>2 DEF Rooted, LinesOf, Section
      <4>5. i = last
        BY ONLY <4>3, <4>4
      <4> QED BY <4>2, <4>5
    <3>2. Rooted(k) = {} => entries[k].fs = BootHandle
      BY <2>1 DEF LastRootTied
    <3> QED BY <3>1, <3>2 DEF RootTied
  <2> QED BY <2>1, <2>2, <2>3
<1> QED BY <1>1, AssignmentsInvariance, PTL

(***************************************************************************)
(* The lines that are refused.                                             *)
(***************************************************************************)

LEMMA CardinalityNext ==
    ASSUME NEW n \in Nat, NEW is \in SUBSET (1 .. n)
    PROVE  Cardinality(is) \in Nat /\ Cardinality(is \cup {n + 1}) = Cardinality(is) + 1
<1>1. IsFiniteSet(1 .. n)
  BY FS_Interval
<1>2. IsFiniteSet(is)
  BY <1>1, FS_Subset
<1>3. n + 1 \notin is
  OBVIOUS
<1> QED BY <1>2, <1>3, FS_CardinalityType, FS_AddElement

\* A line that is no module and no string, nor an entry, leaves the count alone.
LEMMA CountedKept ==
    ASSUME IInv, Counted, NEW line \in Lines, Read(line),
           entries = <<>> \/ line.key \notin {"MODULE_PATH", "MODULE_STRING"},
           entries' \in Seq(BootEntry), Len(entries') = Len(entries),
           \A k \in DOMAIN entries :
                entries'[k].name = entries[k].name /\ entries'[k].modules = entries[k].modules,
           UNCHANGED moduleString
    PROVE  Counted'
<1>0. PICK n : n = Len(entries)
  OBVIOUS
<1>1. TypeOK /\ Headings /\ Accepted
  BY ReadFacts DEF IInv
<1>2. CASE entries = <<>>
  BY <1>1, <1>2 DEF Counted, TypeOK
<1>3. CASE entries # <<>>
  <2>1. n \in DOMAIN entries /\ Len(entries') = n
    BY <1>0, <1>1, <1>3 DEF TypeOK
  <2>2. ASSUME NEW key
        PROVE  LinesOf(n, key)' = LinesOf(n, key) \cup (IF n = Len(entries) /\ line.key = key THEN {Here} ELSE {})
    BY <1>1, <2>1, LinesStep
  <2>3. /\ LinesOf(n, "MODULE_PATH")' = LinesOf(n, "MODULE_PATH")
        /\ LinesOf(n, "MODULE_STRING")' = LinesOf(n, "MODULE_STRING")
    BY <1>3, <2>2
  <2>4. Current'.modules = Current.modules
    BY <1>0, <2>1 DEF Current
  <2>5. /\ Cardinality(LinesOf(n, "MODULE_PATH")) = Len(Current.modules)
        /\ Cardinality(LinesOf(n, "MODULE_STRING")) =
                IF moduleString = NoModule THEN Len(Current.modules) ELSE moduleString - 1
    BY <1>0, <1>1, <1>3 DEF Counted
  <2> QED BY <2>1, <2>3, <2>4, <2>5 DEF Counted
<1> QED BY <1>2, <1>3

\* So does an assignment to the current entry.
LEMMA CountedAssign ==
    ASSUME IInv, Counted, NEW line \in Lines, Read(line), entries # <<>>,
           line.key \notin {"MODULE_PATH", "MODULE_STRING"},
           NEW e \in BootEntry, e.name = Current.name, e.modules = Current.modules, SetCurrent(e),
           UNCHANGED moduleString
    PROVE  Counted'
<1>1. /\ entries' \in Seq(BootEntry) /\ Len(entries') = Len(entries)
      /\ entries'[Len(entries)] = e
      /\ \A k \in DOMAIN entries \ {Len(entries)} : entries'[k] = entries[k]
  BY CurrentStep DEF IInv
<1>2. \A k \in DOMAIN entries :
        entries'[k].name = entries[k].name /\ entries'[k].modules = entries[k].modules
  <2>1. /\ entries'[Len(entries)].name = entries[Len(entries)].name
        /\ entries'[Len(entries)].modules = entries[Len(entries)].modules
    BY <1>1 DEF Current
  <2> QED BY <1>1, <2>1
<1> QED BY <1>1, <1>2, CountedKept

\* A module is one more path, a string one more string.
LEMMA CountedModule ==
    ASSUME IInv, Counted, NEW line \in Lines, Read(line), entries # <<>>,
           NEW e \in BootEntry, e.name = Current.name, SetCurrent(e),
           \/ /\ line.key = "MODULE_PATH" /\ Len(e.modules) = Len(Current.modules) + 1
              /\ moduleString' = AwaitString(Len(Current.modules) + 1)
           \/ /\ line.key = "MODULE_STRING" /\ Len(e.modules) = Len(Current.modules)
              /\ moduleString # NoModule /\ moduleString' = AfterString
    PROVE  Counted'
<1>0. PICK n : n = Len(entries)
  OBVIOUS
<1>1. /\ TypeOK /\ Headings /\ Accepted /\ Current.modules \in Seq(Modules)
      /\ Len(lines) \in Nat /\ Here = Len(lines) + 1
  BY LocalFacts DEF IInv
<1>2. PICK len : len = Len(Current.modules)
  OBVIOUS
<1>3. /\ n \in DOMAIN entries /\ entries' \in Seq(BootEntry) /\ Len(entries') = n
      /\ Current' = e /\ entries'[n] = e
      /\ \A k \in DOMAIN entries \ {n} : entries'[k] = entries[k]
  BY <1>0, <1>1, CurrentStep
<1>4. \A k \in DOMAIN entries : entries'[k].name = entries[k].name
  BY <1>0, <1>3 DEF Current
<1>5. ASSUME NEW key
      PROVE  /\ LinesOf(n, key) \in SUBSET (1 .. Len(lines))
             /\ LinesOf(n, key)' = LinesOf(n, key) \cup (IF line.key = key THEN {Here} ELSE {})
  BY <1>0, <1>1, <1>3, <1>4, LinesStep
<1>6. /\ LinesOf(n, "MODULE_PATH") \in SUBSET (1 .. Len(lines))
      /\ LinesOf(n, "MODULE_STRING") \in SUBSET (1 .. Len(lines))
      /\ LinesOf(n, "MODULE_PATH")' =
            LinesOf(n, "MODULE_PATH") \cup (IF line.key = "MODULE_PATH" THEN {Here} ELSE {})
      /\ LinesOf(n, "MODULE_STRING")' =
            LinesOf(n, "MODULE_STRING") \cup (IF line.key = "MODULE_STRING" THEN {Here} ELSE {})
  BY <1>5
<1>7. /\ Cardinality(LinesOf(n, "MODULE_PATH")) = len
      /\ Cardinality(LinesOf(n, "MODULE_STRING")) = IF moduleString = 0 THEN len ELSE moduleString - 1
      /\ len \in Nat /\ moduleString \in Nat /\ moduleString <= len
  BY <1>0, <1>1, <1>2 DEF Counted, TypeOK, NoModule
<1>8. CASE line.key = "MODULE_PATH"
  <2>1. /\ Len(e.modules) = len + 1
        /\ moduleString' = IF moduleString = 0 THEN len + 1 ELSE moduleString
    BY <1>2, <1>8 DEF AwaitString, NoModule
  <2>2. LinesOf(n, "MODULE_STRING")' = LinesOf(n, "MODULE_STRING")
    BY <1>6, <1>8
  <2>3. Cardinality(LinesOf(n, "MODULE_PATH")') = len + 1
    <3>1. LinesOf(n, "MODULE_PATH")' = LinesOf(n, "MODULE_PATH") \cup {Len(lines) + 1}
      BY <1>1, <1>6, <1>8
    <3> QED BY <1>1, <1>6, <1>7, <3>1, CardinalityNext
  <2>4. Cardinality(LinesOf(n, "MODULE_STRING")') =
            IF moduleString' = 0 THEN len + 1 ELSE moduleString' - 1
    BY <1>7, <2>1, <2>2
  <2> QED BY <1>3, <2>1, <2>3, <2>4 DEF Counted, NoModule
<1>9. CASE line.key = "MODULE_STRING"
  <2>1. /\ Len(e.modules) = len /\ moduleString # 0
        /\ moduleString' = IF moduleString = len THEN 0 ELSE moduleString + 1
    BY <1>2, <1>9 DEF AfterString, NoModule
  <2>2. LinesOf(n, "MODULE_PATH")' = LinesOf(n, "MODULE_PATH")
    BY <1>6, <1>9
  <2>3. Cardinality(LinesOf(n, "MODULE_STRING")') = moduleString
    <3>1. LinesOf(n, "MODULE_STRING")' = LinesOf(n, "MODULE_STRING") \cup {Len(lines) + 1}
      BY <1>1, <1>6, <1>9
    <3>2. Cardinality(LinesOf(n, "MODULE_STRING")') = moduleString - 1 + 1
      BY <1>1, <1>6, <1>7, <2>1, <3>1, CardinalityNext
    <3> QED BY <1>7, <3>2
  <2>4. Cardinality(LinesOf(n, "MODULE_STRING")') = IF moduleString' = 0 THEN len ELSE moduleString' - 1
    BY <1>7, <2>1, <2>3
  <2>5. Cardinality(LinesOf(n, "MODULE_PATH")') = len
    BY <1>7, <2>2
  <2> QED BY <1>3, <2>1, <2>4, <2>5 DEF Counted, NoModule
<1> QED BY <1>8, <1>9

LEMMA CountedNewEntry ==
    ASSUME IInv, NEW line \in Lines, NewEntry(line)
    PROVE  Counted'
<1>0. PICK n : n = Len(entries)
  OBVIOUS
<1>1. /\ n \in Nat /\ Len(entries') = n + 1 /\ entries'[n + 1].modules = <<>>
      /\ Section(n + 1)' = {}
  BY <1>0, NewEntryStep DEF IInv
<1>2. LinesOf(n + 1, "MODULE_PATH")' = {} /\ LinesOf(n + 1, "MODULE_STRING")' = {}
  BY <1>1 DEF LinesOf
<1>3. moduleString' = NoModule
  BY DEF NewEntry, ForgetModule
<1>4. Current'.modules = <<>>
  BY <1>1 DEF Current
<1> QED BY <1>1, <1>2, <1>3, <1>4, FS_EmptySet DEF Counted

LEMMA NextCounted ==
    ASSUME IInv, Counted, [Next]_vars
    PROVE  Counted'
<1>1. CASE OpenConfig \/ EndOfFile
  <2>1. UNCHANGED <<lines, entries, moduleString>> /\ (entries # <<>> => Accepted)
    BY <1>1 DEF OpenConfig, EndOfFile, IInv, Unopened, Accepted
  <2> QED BY <2>1 DEF Counted, LinesOf, Section, Current
<1>2. ASSUME NEW line \in Lines, ReadLine(line)
      PROVE  Counted'
  <2>1. CASE Unreadable(line)
    BY <2>1 DEF Unreadable, Counted, Accepted
  <2>2. CASE NewEntry(line)
    BY <2>2, CountedNewEntry
  <2>3. CASE GlobalKey(line) \/ IgnoredLine(line)
    BY <2>3, CountedKept DEF GlobalKey, IgnoredLine, IsGlobal, GlobalKeys, IInv, TypeOK
  <2>4. CASE SetPath(line)
    <3> DEFINE fs == IF pc' = "reading" THEN ParsedUri(line.uri, Current.fs) ELSE Current.fs
               e == [Current EXCEPT !.path = Here, !.fs = fs]
    <3>1. /\ Read(line) /\ entries # <<>> /\ line.key = "PATH" /\ pc' = AfterUri(line.uri)
          /\ SetCurrent([Current EXCEPT
                !.path = Here, !.fs = IF pc' = "reading" THEN ParsedUri(line.uri, @) ELSE @])
          /\ UNCHANGED moduleString
      BY <2>4 DEF SetPath, ReadLocal
    <3>2. Current \in BootEntry /\ Here \in Nat \ {0}
      BY <3>1, LocalFacts
    <3>3. fs \in DOMAIN Handles
      BY <3>1, <3>2, ParsedUriType DEF BootEntry
    <3>4. SetCurrent(e)
      BY <3>1, <3>2 DEF BootEntry
    <3>5. e \in BootEntry /\ e.name = Current.name /\ e.modules = Current.modules
      BY <3>2, <3>3 DEF BootEntry
    <3> QED BY <3>1, <3>4, <3>5, CountedAssign
  <2>5. CASE SetCmdline(line)
    <3> DEFINE e == [Current EXCEPT !.cmdline = Here]
    <3>1. Read(line) /\ entries # <<>> /\ line.key = "CMDLINE" /\ SetCurrent(e) /\ UNCHANGED moduleString
      BY <2>5 DEF SetCmdline, ReadLocal
    <3>2. Current \in BootEntry /\ Here \in Nat \ {0}
      BY <3>1, LocalFacts
    <3>3. e \in BootEntry /\ e.name = Current.name /\ e.modules = Current.modules
      BY <3>2 DEF BootEntry
    <3> QED BY <3>1, <3>3, CountedAssign
  <2>6. CASE SetProtocol(line)
    <3> DEFINE e == [Current EXCEPT !.protocol = line.protocol]
    <3>1. Read(line) /\ entries # <<>> /\ line.key = "PROTOCOL" /\ UNCHANGED moduleString
      BY <2>6 DEF SetProtocol, ReadLocal
    <3>2. Current \in BootEntry
      BY <3>1, LocalFacts
    <3>3. CASE line.protocol = "unknown"
      BY <2>6, <3>3 DEF SetProtocol, Counted, Accepted
    <3>4. CASE line.protocol # "unknown"
      <4>1. SetCurrent(e)
        BY <2>6, <3>4 DEF SetProtocol
      <4>2. line.protocol \in BootProtocols
        BY <3>1, <3>4, LinesAssumption DEF LineForms, GlobalKeys, UriKeys
      <4>3. e \in BootEntry /\ e.name = Current.name /\ e.modules = Current.modules
        BY <3>2, <4>2 DEF BootEntry
      <4> QED BY <3>1, <4>1, <4>3, CountedAssign
    <3> QED BY <3>3, <3>4
  <2>7. CASE AddModule(line)
    <3> DEFINE ms == Current.modules
               m == [fs |-> ParsedUri(line.uri, BootHandle), path |-> Here, tag |-> NoLine]
               e == [Current EXCEPT !.modules = Append(ms, m)]
    <3>1. Read(line) /\ entries # <<>> /\ line.key = "MODULE_PATH" /\ pc' = AfterUri(line.uri)
      BY <2>7 DEF AddModule, ReadLocal
    <3>2. CASE pc' # "reading"
      <4>1. pc' \in {"refused", "undefined"}
        BY <3>1, <3>2, AfterUriType
      <4> QED BY <4>1 DEF Counted, Accepted
    <3>3. CASE pc' = "reading"
      <4>1. /\ SetCurrent(e)
            /\ moduleString' = AwaitString(Len(ms) + 1)
        BY <2>7, <3>3 DEF AddModule
      <4>2. Current \in BootEntry /\ ms \in Seq(Modules) /\ Here \in Nat \ {0}
        BY <3>1, LocalFacts
      <4>3. m \in Modules
        BY <3>1, <3>3, <4>2, ParsedUriType, HandlesAssumption DEF Modules, NoLine
      <4> HIDE DEF m
      <4>4. Append(ms, m) \in Seq(Modules) /\ Len(Append(ms, m)) = Len(ms) + 1
        BY <4>2, <4>3
      <4>5. e \in BootEntry /\ e.name = Current.name /\ e.modules = Append(ms, m)
        <5> HIDE DEF ms
        <5> QED BY <4>2, <4>4 DEF BootEntry
      <4> HIDE DEF e
      <4> QED BY <3>1, <4>1, <4>4, <4>5, CountedModule
    <3> QED BY <3>2, <3>3
  <2>8. CASE SetString(line)
    <3> DEFINE ms == Current.modules
               new == [ms EXCEPT ![moduleString].tag = Here]
               e == [Current EXCEPT !.modules = new]
    <3>1. Read(line) /\ entries # <<>> /\ line.key = "MODULE_STRING"
      BY <2>8 DEF SetString, ReadLocal
    <3>2. CASE ~(TakesStrings(Current.protocol) /\ moduleString # NoModule)
      BY <2>8, <3>2 DEF SetString, Counted, Accepted
    <3>3. CASE TakesStrings(Current.protocol) /\ moduleString # NoModule
      <4>1. /\ SetCurrent([Current EXCEPT !.modules[moduleString].tag = Here])
            /\ moduleString' = AfterString
        BY <2>8, <3>3 DEF SetString
      <4>2. Current \in BootEntry /\ ms \in Seq(Modules) /\ Here \in Nat \ {0}
        BY <3>1, LocalFacts
      <4>3. moduleString \in 1 .. Len(ms) /\ \A j \in DOMAIN ms : ms[j] \in Modules
        BY <3>1, <3>3, <4>2 DEF IInv, TypeOK, NoModule
      <4>4. new \in Seq(Modules) /\ Len(new) = Len(ms)
        <5>1. ms[moduleString] \in Modules /\ Here \in Nat
          BY <4>2, <4>3
        <5>2. [ms[moduleString] EXCEPT !.tag = Here] \in Modules
          BY ONLY <5>1 DEF Modules
        <5> QED BY <4>2, <4>3, <5>2
      <4>5. SetCurrent(e)
        BY <4>1, <4>2 DEF BootEntry
      <4> HIDE DEF new
      <4>6. e \in BootEntry /\ e.name = Current.name /\ e.modules = new
        <5> HIDE DEF ms
        <5> QED BY <4>2, <4>4 DEF BootEntry
      <4> HIDE DEF e
      <4> QED BY <3>1, <3>3, <4>1, <4>4, <4>5, <4>6, CountedModule
    <3> QED BY <3>2, <3>3
  <2> QED BY <1>2, <2>1, <2>2, <2>3, <2>4, <2>5, <2>6, <2>7, <2>8 DEF ReadLine
<1>3. CASE UNCHANGED vars
  BY <1>3 DEF vars, Counted, Accepted, LinesOf, Section, Current
<1> QED BY <1>1, <1>2, <1>3 DEF Next

\* Does the parser take offence at this line, if it is the next one?
Refuses(line) ==
    \/ line.key = "unreadable"
    \/ /\ entries # <<>>
       /\ \/ line.key = "PROTOCOL" /\ line.protocol = "unknown"
          \/ line.key \in UriKeys /\ ~Resolves(line.uri)
          \/ /\ line.key = "MODULE_STRING"
             /\ ~TakesStrings(Current.protocol) \/ moduleString = NoModule

\* What came before a line does not change.
LEMMA BeforeStep ==
    ASSUME TypeOK, NEW line \in Lines, Read(line), NEW i \in DOMAIN lines
    PROVE  /\ InEntry(i)' <=> InEntry(i)
           /\ \A key : Before(i, key)' = Before(i, key)
           /\ BadLine(i)' <=> BadLine(i)
<1>1. /\ DOMAIN lines = 1 .. Len(lines) /\ Len(lines) \in Nat
      /\ \A j \in 1 .. Len(lines) : lines'[j] = lines[j]
  BY ReadFacts
<1>2. \A j \in 1 .. i : lines'[j] = lines[j]
  BY <1>1
<1>3. InEntry(i)' <=> InEntry(i)
  BY <1>2 DEF InEntry
<1>4. ASSUME NEW key PROVE Before(i, key)' = Before(i, key)
  <2>1. ASSUME NEW j \in 1 .. i - 1
        PROVE  /\ lines'[j] = lines[j]
               /\ \A e \in j .. i : lines'[e] = lines[e]
    BY <1>1, <1>2
  <2> QED BY <2>1 DEF Before
<1>5. Unpaired(i)' <=> Unpaired(i)
  <2>1. \A j \in Before(i, "PROTOCOL") : lines'[j] = lines[j]
    BY <1>1, <1>2 DEF Before
  <2>2. ProtocolTakesStrings(i)' <=> ProtocolTakesStrings(i)
    BY <1>4, <2>1 DEF ProtocolTakesStrings
  <2> QED BY <1>4, <2>2 DEF Unpaired
<1>6. lines'[i] = lines[i]
  BY <1>1
<1>7. BadLine(i)' <=> BadLine(i)
  BY <1>3, <1>5, <1>6 DEF BadLine
<1> QED BY <1>3, <1>4, <1>7

\* The lines before the next one, back to its entry, are those of the current entry.
LEMMA BeforeNext ==
    ASSUME IInv, LinesTied, NEW line \in Lines, Read(line), line.key # "entry",
           NEW i, i = Here, NEW n, n = Len(entries)
    PROVE  /\ InEntry(i)' <=> entries # <<>>
           /\ entries # <<>> => \A key : Before(i, key)' = LinesOf(n, key)
<1>1. /\ TypeOK /\ Headings /\ Len(lines) \in Nat /\ i = Len(lines) + 1 /\ DOMAIN lines = 1 .. Len(lines)
      /\ lines'[i] = line /\ \A j \in 1 .. Len(lines) : lines'[j] = lines[j]
      /\ Accepted
  BY ReadFacts DEF IInv
<1>2. /\ n \in Nat /\ DOMAIN entries = 1 .. n
      /\ \A k \in 1 .. n : entries[k].name \in Nat
  BY <1>1, EntryFields
<1>3. \A e \in 1 .. Len(lines) : lines[e].key = "entry" <=> \E k \in 1 .. n : entries[k].name = e
  <2>1. {entries[k].name : k \in 1 .. n} = {e \in 1 .. Len(lines) : lines[e].key = "entry"}
    BY <1>1, <1>2 DEF LinesTied, EntriesTied
  <2> QED BY ONLY <2>1
<1>4. CASE entries = <<>>
  <2>1. n = 0
    BY <1>4
  <2>2. ASSUME NEW e \in 1 .. i PROVE lines'[e].key # "entry"
    BY <1>1, <1>3, <2>1
  <2> QED BY <1>4, <2>2 DEF InEntry
<1>5. CASE entries # <<>>
  <2>1. n \in 1 .. n
    BY <1>1, <1>2, <1>5 DEF TypeOK
  <2>2. PICK last : last = entries[n].name
    OBVIOUS
  <2>3. /\ last \in Nat /\ last <= Len(lines)
        /\ \A k \in 1 .. n : entries[k].name <= last
    <3>1. \A k \in 1 .. n - 1 : entries[k].name < entries[n].name
      BY <1>1, <1>2, <2>1 DEF Headings
    <3>2. entries[n].name <= Len(lines)
      BY <1>1, <1>2, <2>1 DEF Headings
    <3>3. ASSUME NEW k \in 1 .. n PROVE entries[k].name <= last
      <4>1. CASE k = n
        BY <1>2, <2>1, <2>2, <4>1
      <4>2. CASE k \in 1 .. n - 1
        BY <1>2, <2>1, <2>2, <3>1, <4>2
      <4> QED BY <1>2, <3>3, <4>1, <4>2
    <3> QED BY <1>2, <2>1, <2>2, <3>2, <3>3
  <2>4. last \in 1 .. Len(lines) /\ lines[last].key = "entry"
    <3>1. last \in 1 .. Len(lines)
      BY <1>1, <1>2, <2>1, <2>2, <2>3, EntryFields
    <3> QED BY <1>3, <2>1, <2>2, <3>1
  <2>5. InEntry(i)'
    <3>1. last \in 1 .. i /\ lines'[last].key = "entry"
      BY <1>1, <2>4
    <3> QED BY <3>1 DEF InEntry
  <2>6. \A e \in last + 1 .. i : lines'[e].key # "entry"
    <3>1. ASSUME NEW e \in last + 1 .. Len(lines) PROVE lines'[e].key # "entry"
      <4>1. e \in 1 .. Len(lines) /\ e > last
        BY <1>1, <2>3
      <4>2. lines[e].key # "entry"
        BY <1>2, <1>3, <2>3, <4>1
      <4> QED BY <1>1, <4>1, <4>2
    <3> QED BY <1>1, <2>3, <3>1
  <2>7. ASSUME NEW key PROVE Before(i, key)' = LinesOf(n, key)
    <3>1. LinesOf(n, key) = {j \in last + 1 .. Len(lines) : lines[j].key = key}
      BY <2>2 DEF LinesOf, Section
    <3>2. Before(i, key)' = {j \in 1 .. i - 1 : lines'[j].key = key /\ \A e \in j .. i : lines'[e].key # "entry"}
      BY DEF Before
    <3>3. ASSUME NEW j \in 1 .. i - 1, \A e \in j .. i : lines'[e].key # "entry"
          PROVE  j \in last + 1 .. Len(lines)
      <4>1. last \notin j .. i
        BY <1>1, <2>4, <3>3
      <4> QED BY <1>1, <2>4, <4>1
    <3>4. ASSUME NEW j \in last + 1 .. Len(lines)
          PROVE  j \in 1 .. i - 1 /\ \A e \in j .. i : lines'[e].key # "entry"
      <4>1. j \in 1 .. i - 1
        BY <1>1, <2>3
      <4>2. \A e \in j .. i : e \in last + 1 .. i
        BY <1>1, <2>3
      <4> QED BY <2>6, <4>1, <4>2
    <3>5. \A j \in 1 .. i - 1 : lines'[j] = lines[j]
      BY <1>1
    <3> QED BY <3>1, <3>2, <3>3, <3>4, <3>5
  <2> QED BY <1>5, <2>5, <2>7
<1> QED BY <1>4, <1>5

\* The parser refuses just the lines that no entry can take.
LEMMA RefusesBad ==
    ASSUME IInv, LinesTied, Counted, NEW line \in Lines, Read(line), NEW i, i = Here
    PROVE  BadLine(i)' <=> Refuses(line)
<1>0. PICK n : n = Len(entries)
  OBVIOUS
<1>1. TypeOK /\ lines'[i] = line /\ Accepted
  BY ReadFacts DEF IInv
<1>2. CASE line.key = "entry"
  BY <1>1, <1>2 DEF BadLine, Refuses, UriKeys
<1>3. CASE line.key # "entry" /\ entries = <<>>
  <2>1. ~InEntry(i)'
    BY <1>0, <1>3, BeforeNext
  <2> QED BY <1>1, <1>3, <2>1 DEF BadLine, Refuses
<1>4. CASE line.key # "entry" /\ entries # <<>>
  <2>1. InEntry(i)' /\ \A key : Before(i, key)' = LinesOf(n, key)
    BY <1>0, <1>4, BeforeNext
  <2>2. /\ n \in DOMAIN entries /\ Current = entries[n] /\ ProtocolTied(n)
        /\ \A key : LinesOf(n, key) \subseteq 1 .. Len(lines)
    <3>1. n \in DOMAIN entries
      BY <1>0, <1>1, <1>4, EntryFields
    <3>2. ProtocolTied(n)
      BY <1>1, <3>1 DEF LinesTied, EntryTied, LocalsTied
    <3>3. entries[n].name \in Nat
      BY <1>1, <3>1, EntryFields
    <3>4. Section(n) \subseteq 1 .. Len(lines)
      BY <1>0, <1>1, <3>3 DEF Section, TypeOK
    <3> QED BY <1>0, <3>1, <3>2, <3>4 DEF Current, LinesOf
  <2>3. ProtocolTakesStrings(i)' <=> TakesStrings(Current.protocol)
    <3> DEFINE is == LinesOf(n, "PROTOCOL")
    <3>1. Before(i, "PROTOCOL")' = is /\ is \subseteq 1 .. Len(lines) /\ Len(lines) \in Nat
      BY <1>1, <2>1, <2>2 DEF TypeOK
    <3>2. \A j \in is : lines'[j] = lines[j]
      BY <1>1, <3>1, ReadFacts
    <3>3. ProtocolTakesStrings(i)' <=> \E j \in is : IsLast(j, is) /\ TakesStrings(lines[j].protocol)
      BY <3>1, <3>2 DEF ProtocolTakesStrings
    <3>4. CASE is = {}
      BY <2>2, <3>3, <3>4 DEF ProtocolTied, TakesStrings
    <3>5. CASE is # {}
      <4>1. PICK j \in is : IsLast(j, is) /\ entries[n].protocol = lines[j].protocol
        BY <2>2, <3>5 DEF ProtocolTied
      <4>2. ASSUME NEW k \in is, IsLast(k, is) PROVE k = j
        <5>1. k <= j /\ j <= k /\ k \in Nat /\ j \in Nat
          BY <3>1, <3>5, <4>1, <4>2 DEF IsLast
        <5> QED BY ONLY <5>1
      <4> QED BY <2>2, <3>3, <4>1, <4>2
    <3> QED BY <3>4, <3>5
  <2>4. Cardinality(Before(i, "MODULE_PATH")') <= Cardinality(Before(i, "MODULE_STRING")')
            <=> moduleString = NoModule
    <3>1. /\ Before(i, "MODULE_PATH")' = LinesOf(n, "MODULE_PATH")
          /\ Before(i, "MODULE_STRING")' = LinesOf(n, "MODULE_STRING")
      BY <2>1
    <3>2. /\ Cardinality(LinesOf(n, "MODULE_PATH")) = Len(Current.modules)
          /\ Cardinality(LinesOf(n, "MODULE_STRING")) =
                IF moduleString = NoModule THEN Len(Current.modules) ELSE moduleString - 1
      BY <1>0, <1>1, <1>4 DEF Counted
    <3>3. /\ Len(Current.modules) \in Nat /\ moduleString \in Nat
          /\ moduleString # NoModule => moduleString <= Len(Current.modules)
      BY <1>4, LocalFacts DEF TypeOK
    <3> QED BY <3>1, <3>2, <3>3 DEF NoModule
  <2>5. Unpaired(i)' <=> ~TakesStrings(Current.protocol) \/ moduleString = NoModule
    BY <2>3, <2>4 DEF Unpaired
  <2> QED BY <1>1, <1>4, <2>1, <2>5 DEF BadLine, Refuses
<1> QED BY <1>2, <1>3, <1>4

\* The verdict on a line decides whether the file is accepted.
LEMMA VerdictStep ==
    ASSUME IInv, LinesTied, Counted, RefusedForCause, NEW line \in Lines, Read(line),
           pc' \in {"reading", "refused", "undefined"},
           pc' = "reading" => ~Refuses(line), pc' = "refused" => Refuses(line)
    PROVE  RefusedForCause'
<1>0. PICK i : i = Here
  OBVIOUS
<1>1. /\ TypeOK /\ Accepted /\ DOMAIN lines' = 1 .. i /\ Len(lines') = i
      /\ DOMAIN lines = 1 .. Len(lines) /\ i = Len(lines) + 1 /\ Len(lines) \in Nat
  BY <1>0, ReadFacts DEF IInv
<1>2. BadLine(i)' <=> Refuses(line)
  BY <1>0, RefusesBad
<1>3. \A j \in DOMAIN lines : ~BadLine(j)'
  BY <1>1, BeforeStep DEF RefusedForCause
<1>4. pc' = "refused" => BadLine(Len(lines))'
  BY <1>1, <1>2 DEF BadLine, InEntry, Unpaired, ProtocolTakesStrings, Before
<1>5. Accepted' => \A j \in DOMAIN lines' : ~BadLine(j)'
  <2>1. Accepted' => pc' = "reading"
    BY DEF Accepted
  <2> QED BY <1>1, <1>2, <1>3, <2>1
<1> QED BY <1>4, <1>5 DEF RefusedForCause

LEMMA NextCause == CauseIInv /\ [Next]_vars => CauseIInv'
<1> SUFFICES ASSUME CauseIInv, [Next]_vars PROVE CauseIInv'
  OBVIOUS
<1>1. /\ TiedIInv /\ IInv /\ LinesTied /\ Counted /\ RefusedForCause
      /\ TiedIInv' /\ Counted'
  BY NextTied, NextCounted DEF CauseIInv, TiedIInv
<1>2. CASE OpenConfig
  <2>1. lines = <<>> /\ lines' = lines
    BY <1>1, <1>2 DEF OpenConfig, IInv, Unopened
  <2> QED BY <1>1, <2>1 DEF CauseIInv, RefusedForCause
<1>3. CASE EndOfFile \/ UNCHANGED vars
  <2>1. lines' = lines /\ (pc' = "refused" => pc = "refused") /\ (Accepted' => Accepted)
    BY <1>3 DEF EndOfFile, vars, Accepted
  <2>2. \A i : BadLine(i)' <=> BadLine(i)
    BY <2>1 DEF BadLine, InEntry, Unpaired, ProtocolTakesStrings, Before
  <2>3. BadLine(Len(lines))' <=> BadLine(Len(lines))
    BY <2>1 DEF BadLine, InEntry, Unpaired, ProtocolTakesStrings, Before
  <2>4. RefusedForCause'
    BY <1>1, <2>1, <2>2, <2>3 DEF RefusedForCause
  <2> QED BY <1>1, <2>4 DEF CauseIInv
<1>4. ASSUME NEW line \in Lines, ReadLine(line)
      PROVE  CauseIInv'
  <2>1. Read(line) /\ pc = "reading"
    BY <1>4 DEF ReadLine, Unreadable, NewEntry, GlobalKey, IgnoredLine, SetPath, SetCmdline, SetProtocol,
        AddModule, SetString, ReadLocal, Read
  <2>2. CASE Unreadable(line)
    BY <1>1, <2>1, <2>2, VerdictStep DEF Unreadable, Refuses, CauseIInv
  <2>3. CASE NewEntry(line) \/ SetCmdline(line)
    <3>1. line.key \in {"entry", "CMDLINE"} /\ pc' = "reading"
      BY <2>1, <2>3 DEF NewEntry, SetCmdline, ReadLocal
    <3>2. ~Refuses(line)
      BY <3>1 DEF Refuses, UriKeys
    <3> QED BY <1>1, <2>1, <3>1, <3>2, VerdictStep DEF CauseIInv
  <2>4. CASE GlobalKey(line) \/ IgnoredLine(line)
    <3>1. pc' = "reading" /\ ~Refuses(line)
      BY <2>1, <2>4 DEF GlobalKey, IgnoredLine, IsGlobal, GlobalKeys, Refuses, UriKeys
    <3> QED BY <1>1, <2>1, <3>1, VerdictStep DEF CauseIInv
  <2>5. CASE SetPath(line) \/ AddModule(line)
    <3>1. entries # <<>> /\ line.key \in UriKeys /\ pc' = AfterUri(line.uri)
      BY <2>5 DEF SetPath, AddModule, ReadLocal, UriKeys
    <3>2. pc' = "reading" => Resolves(line.uri)
      BY <3>1 DEF AfterUri
    <3>3. pc' = "refused" => ~Resolves(line.uri)
      BY <3>1 DEF AfterUri
    <3>4. Refuses(line) <=> ~Resolves(line.uri)
      BY <3>1 DEF Refuses, UriKeys
    <3>5. pc' \in {"reading", "refused", "undefined"}
      BY <3>1, AfterUriType
    <3> QED BY <1>1, <2>1, <3>2, <3>3, <3>4, <3>5, VerdictStep DEF CauseIInv
  <2>6. CASE SetProtocol(line)
    <3>1. /\ entries # <<>> /\ line.key = "PROTOCOL"
          /\ pc' = IF line.protocol = "unknown" THEN "refused" ELSE "reading"
      BY <2>1, <2>6 DEF SetProtocol, ReadLocal
    <3>2. Refuses(line) <=> line.protocol = "unknown"
      BY <3>1 DEF Refuses, UriKeys
    <3> QED BY <1>1, <2>1, <3>1, <3>2, VerdictStep DEF CauseIInv
  <2>7. CASE SetString(line)
    <3>1. /\ entries # <<>> /\ line.key = "MODULE_STRING"
          /\ pc' = IF TakesStrings(Current.protocol) /\ moduleString # NoModule THEN "reading" ELSE "refused"
      BY <2>1, <2>7 DEF SetString, ReadLocal
    <3>2. Refuses(line) <=> ~(TakesStrings(Current.protocol) /\ moduleString # NoModule)
      BY <3>1 DEF Refuses, UriKeys
    <3> QED BY <1>1, <2>1, <3>1, <3>2, VerdictStep DEF CauseIInv
  <2> QED BY <1>4, <2>2, <2>3, <2>4, <2>5, <2>6, <2>7 DEF ReadLine
<1> QED BY <1>2, <1>3, <1>4 DEF Next

LEMMA InitCause == Init => CauseIInv
<1> SUFFICES ASSUME Init PROVE CauseIInv
  OBVIOUS
<1> QED BY InitTied DEF Init, CauseIInv, Counted, RefusedForCause, Accepted

\* The inductive invariant of the refusals: the module that waits for a string tells
\* how many more paths than strings the current entry has.
THEOREM CauseInvariance == Spec => []CauseIInv
  BY InitCause, NextCause, PTL DEF Spec

\* For every file: it is refused for a line that says something no entry can take, and
\* a file with such a line is never accepted, however its lines are mixed.
THEOREM RefusedForACause == Spec => []RefusedForCause
<1>1. CauseIInv => RefusedForCause
  BY DEF CauseIInv
<1> QED BY <1>1, CauseInvariance, PTL
=============================================================================
