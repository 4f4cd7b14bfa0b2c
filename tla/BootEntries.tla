----------------------------- MODULE BootEntries ----------------------------
(***************************************************************************)
(* The parser of the configuration file, config/BootEntries.c.  A step     *)
(* reads one line, which may be any; the lines read so far are kept as a   *)
(* history, and a value that a line assigns is named by the index of that  *)
(* line.  File systems are the indexes of their handles.                   *)
(***************************************************************************)
EXTENDS Integers, Sequences, FiniteSets

CONSTANTS
    Handles,    \* the handles with a file system, as LocateHandleBuffer lists them
    BootHandle, \* the one TomatBoot was started from
    Lines,      \* the lines a configuration file may have
    InBounds(_) \* bound: the sequences of lines that are looked at

\* Each of them has a device path: its drive and, if the last node is a partition,
\* the number and the GPT signature of that; "" if there is none.
ASSUME HandlesAssumption ==
    /\ Handles \in Seq([drive : STRING, partition : STRING, guid : STRING])
    /\ BootHandle \in DOMAIN Handles

\* "malformed" is a text without ":" or "/", "other" every other resource.  The
\* root is a partition number, a GUID or, after boot://, missing.
Uris == [resource : {"boot", "guid", "uuid", "other", "malformed"}, root : STRING]

BootProtocols == {"BOOT_LINUX", "BOOT_MB2", "BOOT_STIVALE", "BOOT_STIVALE2"}

\* A line is its key, aliases not told apart, with the part of its value the parser
\* looks at.  "unreadable" is a line that is too long or cannot be read, "other"
\* everything that is neither an entry nor an assignment the parser knows.
GlobalKeys == {"TIMEOUT", "DEFAULT_ENTRY"}
UriKeys == {"PATH", "MODULE_PATH"}
LineForms ==
    [key : GlobalKeys \cup {"entry", "CMDLINE", "MODULE_STRING", "unreadable", "other"}]
    \cup [key : UriKeys, uri : Uris]
    \cup [key : {"PROTOCOL"}, protocol : BootProtocols \cup {"unknown"}]

ASSUME LinesAssumption == Lines \subseteq LineForms

VARIABLES
    pc,           \* "open", "reading", "parsed", "refused", "undefined"
    lines,        \* history: the lines read
    entries,      \* the list of boot entries; CurrentEntry is the last of them
    moduleString, \* CurrentModuleString, an index of the modules of CurrentEntry
    override      \* gBootConfigOverride

vars == <<pc, lines, entries, moduleString, override>>

NoLine == 0   \* nothing has been assigned
NoModule == 0 \* CurrentModuleString is NULL

-----------------------------------------------------------------------------
(* ParseUri                                                                *)

\* boot:/// leaves the file system alone.
Stays(uri) == uri.resource = "boot" /\ uri.root = ""

\* The handles the search of ParseUri accepts.
Candidates(uri) ==
    {h \in DOMAIN Handles :
        /\ uri.root # ""
        /\ \/ /\ uri.resource = "boot"
              /\ Handles[h].drive = Handles[BootHandle].drive
              /\ Handles[h].partition = uri.root
           \/ uri.resource \in {"guid", "uuid"} /\ Handles[h].guid = uri.root}

Resolves(uri) == Stays(uri) \/ Candidates(uri) # {}

FirstHandle(hs) == CHOOSE h \in hs : \A g \in hs : h <= g

ParsedUri(uri, fs) == IF Stays(uri) THEN fs ELSE FirstHandle(Candidates(uri))

\* Where the parser goes after a URI: splitting a malformed one dereferences NULL.
AfterUri(uri) ==
    IF uri.resource = "malformed" THEN "undefined"
    ELSE IF Resolves(uri) THEN "reading" ELSE "refused"

-----------------------------------------------------------------------------
(* LoadBootEntries                                                         *)

Init ==
    /\ pc = "open" /\ lines = <<>> /\ entries = <<>>
    /\ moduleString = NoModule
    /\ override = [BootDelay |-> NoLine, DefaultOS |-> NoLine]

\* No configuration file is no error, a volume that cannot be opened is one.
OpenConfig ==
    /\ pc = "open"
    /\ pc' \in {"reading", "parsed", "refused"}
    /\ UNCHANGED <<lines, entries, moduleString, override>>

EndOfFile ==
    /\ pc = "reading" /\ pc' = "parsed"
    /\ UNCHANGED <<lines, entries, moduleString, override>>

Here == Len(lines) + 1

Read(line) ==
    /\ pc = "reading"
    /\ lines' = Append(lines, line) /\ InBounds(lines')

Unreadable(line) ==
    /\ Read(line) /\ line.key = "unreadable"
    /\ pc' = "refused"
    /\ UNCHANGED <<entries, moduleString, override>>

\* CurrentModuleString after a new entry.
ForgetModuleNot == moduleString
ForgetModule == NoModule

Current == entries[Len(entries)]

BlankEntry ==
    [name |-> Here, protocol |-> "BOOT_INVALID", fs |-> BootHandle,
     path |-> NoLine, cmdline |-> NoLine, modules |-> <<>>]

\* What an entry starts with.
EntryReused == IF entries = <<>> THEN BlankEntry ELSE [Current EXCEPT !.name = Here, !.modules = <<>>]
FreshEntry == BlankEntry

NewEntry(line) ==
    /\ Read(line) /\ line.key = "entry"
    /\ entries' = Append(entries, FreshEntry)
    /\ moduleString' = ForgetModule
    /\ UNCHANGED <<pc, override>>

\* CurrentEntry == NULL.
IsGlobal == entries = <<>>

GlobalKey(line) ==
    /\ Read(line) /\ IsGlobal
    /\ \/ line.key = "TIMEOUT" /\ override' = [override EXCEPT !.BootDelay = Here]
       \/ line.key = "DEFAULT_ENTRY" /\ override' = [override EXCEPT !.DefaultOS = Here]
    /\ UNCHANGED <<pc, entries, moduleString>>

\* A global key after the first entry, a local one before it, anything else.
IgnoredLine(line) ==
    /\ Read(line) /\ line.key \notin {"entry", "unreadable"}
    /\ line.key = "other" \/ (IsGlobal <=> line.key \notin GlobalKeys)
    /\ UNCHANGED <<pc, entries, moduleString, override>>

ReadLocal(line, key) == Read(line) /\ ~IsGlobal /\ entries # <<>> /\ line.key = key
SetCurrent(entry) == entries' = [entries EXCEPT ![Len(entries)] = entry] /\ UNCHANGED override

\* KERNEL_PATH; the path is set before the file system is looked for.
SetPath(line) ==
    /\ ReadLocal(line, "PATH")
    /\ pc' = AfterUri(line.uri)
    /\ SetCurrent([Current EXCEPT
            !.path = Here,
            !.fs = IF pc' = "reading" THEN ParsedUri(line.uri, @) ELSE @])
    /\ UNCHANGED moduleString

SetCmdline(line) ==
    /\ ReadLocal(line, "CMDLINE")
    /\ SetCurrent([Current EXCEPT !.cmdline = Here])
    /\ UNCHANGED <<pc, moduleString>>

SetProtocol(line) ==
    /\ ReadLocal(line, "PROTOCOL")
    /\ IF line.protocol = "unknown"
       THEN pc' = "refused" /\ UNCHANGED <<entries, override>>
       ELSE SetCurrent([Current EXCEPT !.protocol = line.protocol]) /\ UNCHANGED pc
    /\ UNCHANGED moduleString

\* The module that waits for a string after one was added as number count.
AwaitLatest(count) == count
AwaitString(count) == IF moduleString = NoModule THEN count ELSE moduleString

AddModule(line) ==
    /\ ReadLocal(line, "MODULE_PATH")
    /\ pc' = AfterUri(line.uri)
    /\ IF pc' = "reading"
       THEN /\ SetCurrent([Current EXCEPT
                    !.modules = Append(@, [fs |-> ParsedUri(line.uri, BootHandle),
                                           path |-> Here, tag |-> NoLine])])
            /\ moduleString' = AwaitString(Len(Current.modules) + 1)
       ELSE UNCHANGED <<entries, moduleString, override>>

\* The module that waits next: GetNextNode, NULL at the end of the list.
AfterStringUnchecked == moduleString + 1
AfterString == IF moduleString = Len(Current.modules) THEN NoModule ELSE moduleString + 1

TakesStringsAny(protocol) == TRUE
TakesStrings(protocol) == protocol \in {"BOOT_MB2", "BOOT_STIVALE", "BOOT_STIVALE2"}

SetString(line) ==
    /\ ReadLocal(line, "MODULE_STRING")
    /\ IF TakesStrings(Current.protocol) /\ moduleString # NoModule
       THEN /\ SetCurrent([Current EXCEPT !.modules[moduleString].tag = Here])
            /\ moduleString' = AfterString
            /\ UNCHANGED pc
       ELSE pc' = "refused" /\ UNCHANGED <<entries, moduleString, override>>

ReadLine(line) ==
    \/ Unreadable(line) \/ NewEntry(line) \/ GlobalKey(line) \/ IgnoredLine(line)
    \/ SetPath(line) \/ SetCmdline(line) \/ SetProtocol(line)
    \/ AddModule(line) \/ SetString(line)

Next == OpenConfig \/ EndOfFile \/ \E line \in Lines : ReadLine(line)

Spec == Init /\ [][Next]_vars

-----------------------------------------------------------------------------
(* Invariants.                                                             *)

Modules == [fs : DOMAIN Handles, path : Nat \ {NoLine}, tag : Nat]
BootEntry ==
    [name : Nat \ {NoLine}, protocol : BootProtocols \cup {"BOOT_INVALID"}, fs : DOMAIN Handles,
     path : Nat, cmdline : Nat, modules : Seq(Modules)]

\* Every variable has its type; CurrentModuleString is a module of CurrentEntry.
TypeOK ==
    /\ pc \in {"open", "reading", "parsed", "refused", "undefined"}
    /\ lines \in Seq(Lines)
    /\ entries \in Seq(BootEntry)
    /\ moduleString \in Nat
    /\ moduleString # NoModule => entries # <<>> /\ moduleString <= Len(Current.modules)
    /\ override \in [BootDelay : Nat, DefaultOS : Nat]

Accepted == pc \in {"reading", "parsed"}

\* The lines that follow entry k up to the next entry, and those of them with a key.
Section(k) ==
    entries[k].name + 1 .. (IF k = Len(entries) THEN Len(lines) ELSE entries[k + 1].name - 1)
LinesOf(k, key) == {i \in Section(k) : lines[i].key = key}
HeadSection == IF entries = <<>> THEN 1 .. Len(lines) ELSE 1 .. entries[1].name - 1
HeadLinesOf(key) == {i \in HeadSection : lines[i].key = key}
AllLinesOf(key) == {i \in DOMAIN lines : lines[i].key = key}

\* The last of the lines that assign a value, if any does.
IsLast(i, is) == IF is = {} THEN i = NoLine ELSE i \in is /\ \A j \in is : j <= i

\* Modules that come from these MODULE_PATH and MODULE_STRING lines: each in the
\* order of the lines, those with a string first.
Matched(modules, paths, strings) ==
    /\ {modules[j].path : j \in DOMAIN modules} = paths
    /\ {modules[j].tag : j \in DOMAIN modules} \ {NoLine} = strings
    /\ \A i, j \in DOMAIN modules : i < j =>
         /\ modules[i].path < modules[j].path
         /\ modules[j].tag # NoLine => modules[i].tag \in 1 .. modules[j].tag - 1

\* However paths and strings are mixed, strings are matched to modules in order: the
\* modules of an entry are the MODULE_PATH lines of its section in that order, its
\* tags are the MODULE_STRING lines of the section in that order, and the modules
\* with a tag come first.  No string gets to a module of another entry.
StringsInOrder ==
    Accepted =>
        \A k \in DOMAIN entries :
            Matched(entries[k].modules, LinesOf(k, "MODULE_PATH"), LinesOf(k, "MODULE_STRING"))

EntriesTied == {entries[k].name : k \in DOMAIN entries} = {i \in DOMAIN lines : lines[i].key = "entry"}

\* A global key has a value of one of its lines, if any, and of the last of them if
\* all are in the head of the file.
IsValueOf(i, key) ==
    /\ i \in AllLinesOf(key) \cup {NoLine}
    /\ AllLinesOf(key) = HeadLinesOf(key) => IsLast(i, AllLinesOf(key))
GlobalsTied == IsValueOf(override.BootDelay, "TIMEOUT") /\ IsValueOf(override.DefaultOS, "DEFAULT_ENTRY")

\* The PATH lines that name a file system.
Rooted(k) == {i \in LinesOf(k, "PATH") : ~Stays(lines[i].uri)}

\* A kernel whose URI has a root is looked for on the file system that it names; one
\* whose URI has none, and none of its URIs had, on TomatBoot's.
RootTied(k) ==
    /\ entries[k].path \in Rooted(k) => entries[k].fs = ParsedUri(lines[entries[k].path].uri, BootHandle)
    /\ Rooted(k) = {} => entries[k].fs = BootHandle

ProtocolTied(k) ==
    IF LinesOf(k, "PROTOCOL") = {} THEN entries[k].protocol = "BOOT_INVALID"
    ELSE \E i \in LinesOf(k, "PROTOCOL") :
            IsLast(i, LinesOf(k, "PROTOCOL")) /\ entries[k].protocol = lines[i].protocol

ModulesTied(k) ==
    \A j \in DOMAIN entries[k].modules :
        entries[k].modules[j].fs = ParsedUri(lines[entries[k].modules[j].path].uri, BootHandle)

LocalsTied(k) ==
    /\ IsLast(entries[k].path, LinesOf(k, "PATH"))
    /\ IsLast(entries[k].cmdline, LinesOf(k, "CMDLINE")) /\ ProtocolTied(k)
    /\ ModulesTied(k)

\* Every line is applied where it belongs: entries are the lines with a colon, the
\* last assignment of a section wins and none reaches another entry, so does the last
\* of global keys at the beginning of the file, and kernels and modules are looked for
\* on the file systems their own URIs name.
AssignmentsTied ==
    Accepted => EntriesTied /\ GlobalsTied /\ \A k \in DOMAIN entries : LocalsTied(k) /\ RootTied(k)

\* The lines before i, back to the entry they belong to, that have a key.
InEntry(i) == \E e \in 1 .. i : lines[e].key = "entry"
Before(i, key) == {j \in 1 .. i - 1 : lines[j].key = key /\ \A e \in j .. i : lines[e].key # "entry"}

ProtocolTakesStrings(i) ==
    \E j \in Before(i, "PROTOCOL") : IsLast(j, Before(i, "PROTOCOL")) /\ TakesStrings(lines[j].protocol)

\* A MODULE_STRING line no module can take: before the PROTOCOL, for linux, or one
\* more than the paths so far, which the other lines of the section pair up.
Unpaired(i) ==
    \/ ~ProtocolTakesStrings(i)
    \/ Cardinality(Before(i, "MODULE_PATH")) <= Cardinality(Before(i, "MODULE_STRING"))

BadLine(i) ==
    \/ lines[i].key = "unreadable"
    \/ /\ InEntry(i)
       /\ \/ lines[i].key = "PROTOCOL" /\ lines[i].protocol = "unknown"
          \/ lines[i].key \in UriKeys /\ ~Resolves(lines[i].uri)
          \/ lines[i].key = "MODULE_STRING" /\ Unpaired(i)

\* A file is refused because of its last line read, and no file with such a line
\* is accepted.
RefusedForCause ==
    /\ pc = "refused" /\ lines # <<>> => BadLine(Len(lines))
    /\ Accepted => \A i \in DOMAIN lines : ~BadLine(i)

\* The inductive invariant of StringsInOrder: entries are known by the lines they
\* start at, and the modules of the current one that have no string yet are those
\* from moduleString on.
Headings ==
    \A k \in DOMAIN entries :
        /\ entries[k].name <= Len(lines)
        /\ \A j \in 1 .. k - 1 : entries[j].name < entries[k].name

Waiting ==
    Accepted /\ entries # <<>> =>
        \A j \in DOMAIN Current.modules :
            Current.modules[j].tag = NoLine <=> moduleString # NoModule /\ j >= moduleString

Unopened == pc = "open" => lines = <<>> /\ entries = <<>>

IInv == TypeOK /\ Unopened /\ Headings /\ Waiting /\ StringsInOrder

\* The inductive invariant of AssignmentsTied: nothing is assigned without a line, the
\* global keys come from the head of the file, and a file system from the last URI
\* of the entry that names one.
Unassigned == pc = "open" => override = [BootDelay |-> NoLine, DefaultOS |-> NoLine]

HeadTied ==
    /\ IsLast(override.BootDelay, HeadLinesOf("TIMEOUT"))
    /\ IsLast(override.DefaultOS, HeadLinesOf("DEFAULT_ENTRY"))

LastRootTied(k) ==
    IF Rooted(k) = {} THEN entries[k].fs = BootHandle
    ELSE \E i \in Rooted(k) : IsLast(i, Rooted(k)) /\ entries[k].fs = ParsedUri(lines[i].uri, BootHandle)

EntryTied(k) == LocalsTied(k) /\ LastRootTied(k)

LinesTied == Accepted => EntriesTied /\ HeadTied /\ \A k \in DOMAIN entries : EntryTied(k)

TiedIInv == IInv /\ Unassigned /\ LinesTied

\* The inductive invariant of RefusedForCause: a module waits for a string just if the
\* current entry has more paths than strings.
Counted ==
    Accepted /\ entries # <<>> =>
        LET paths == LinesOf(Len(entries), "MODULE_PATH")
            strings == LinesOf(Len(entries), "MODULE_STRING")
        IN  /\ Cardinality(paths) = Len(Current.modules)
            /\ Cardinality(strings) =
                    IF moduleString = NoModule THEN Len(Current.modules) ELSE moduleString - 1

CauseIInv == TiedIInv /\ Counted /\ RefusedForCause
=============================================================================
