---------------------------- MODULE LoadingProofs ---------------------------
(***************************************************************************)
(* However much memory there is, whatever others have allocated, whatever  *)
(* the entries are, and after any number of attempts that failed anywhere: *)
(* a kernel is entered with all its parts in the pages allocated for them. *)
(***************************************************************************)
EXTENDS Loading, FiniteSetTheorems, TLAPS

-----------------------------------------------------------------------------
(* The inductive invariant.                                                *)

Steps == LinuxSteps \cup ElfSteps
PartForm == [owner : [kind : Kinds, n : Nat], base : Pages, count : Nat \ {0}]

\* A loader runs for entries of its protocols.
Stage ==
    /\ pc \in LinuxSteps => entry.protocol = "BOOT_LINUX"
    /\ pc \in ElfSteps => entry.protocol \in {"BOOT_MB2", "BOOT_STIVALE", "BOOT_STIVALE2"}
    /\ pc \in Steps \ {"CallLinux"} => initrdRead
    /\ pc = "LoadElf" => next <= Len(entry.segments) + 1
    /\ pc = "LoadModules" => next <= Len(entry.modules) + 1

\* The first n segments, or modules.
FirstOwners(kind, n) == {Owner(kind, i) : i \in 1 .. n}

\* The owners of the parts there are at each step.
PartsUpTo ==
    CASE pc \in {"LoadImage", "LoadSetup"} -> {}
      [] pc = "LoadKernelBuf" -> {Owner("setup", 1)}
      [] pc = "LoadCommandLine" -> {Owner("setup", 1), Owner("kernel", 1)}
      [] pc = "LoadInitrd" -> {Owner("setup", 1), Owner("kernel", 1), Owner("cmdline", 1)}
      [] pc = "LoadElf" ->
           FirstOwners("segment", next - 1)
           \cup (IF entry.protocol = "BOOT_MB2" THEN FirstOwners("module", Len(entry.modules)) ELSE {})
      [] pc = "LoadModules" ->
           FirstOwners("module", next - 1)
           \cup (IF entry.protocol = "BOOT_MB2" THEN {} ELSE FirstOwners("segment", Len(entry.segments)))
      [] OTHER -> Parts

GivenOwners == {part.owner : part \in given}
AllGiven == pc \in Steps \cup {"jumped"} => GivenOwners = PartsUpTo

Held(m, part) == \A p \in PageRange(part.base, part.count) : p \in Pages /\ m[p] = part.owner
AllHeld == pc \in Steps \cup {"jumped"} /\ initrdRead => \A part \in given : Held(memory, part)

\* The pages that KernelSize says the kernel file has are the file's; once it is copied
\* they are forgotten.
ImageHeld ==
    /\ pc \in {"LoadSetup", "LoadKernelBuf"} =>
         /\ image.base \in Pages /\ image.size > 0
         /\ Held(memory, Part(Owner("image", 1), image.base, ToPages(image.size)))
    /\ pc \in {"LoadCommandLine", "LoadInitrd", "CallLinux"} => image.base = NoImage

IInv == TypeOK /\ Stage /\ AllGiven /\ AllHeld /\ ImageHeld /\ AssertExplained
-----------------------------------------------------------------------------
(* Sizes in pages.                                                         *)

\* Division by one divisor is monotone.
LEMMA DivMonotone ==
    ASSUME NEW u \in Nat \ {0}, NEW a \in Int, NEW b \in Int, a <= b
    PROVE  /\ a \div u \in Int /\ b \div u \in Int /\ a \div u <= b \div u
           /\ a >= 0 => a \div u >= 0
<1> DEFINE q == a \div u
           r == b \div u
<1>1. q \in Int /\ r \in Int /\ u * q <= a /\ b < u * r + u /\ (a >= 0 => q >= 0)
  OBVIOUS
<1> HIDE DEF q, r
<1>2. ASSUME r + 1 <= q PROVE u * (r + 1) <= u * q
  BY <1>1, <1>2
<1>3. u * (r + 1) = u * r + u
  BY <1>1
<1>4. u * r \in Int /\ u * q \in Int /\ u * (r + 1) \in Int
  BY <1>1
<1> DEFINE x == u * r
           y == u * q
           z == u * (r + 1)
<1>5. q <= r
  <2>1. x \in Int /\ y \in Int /\ z \in Int /\ y <= a /\ b < x + u /\ z = x + u /\ (r + 1 <= q => z <= y)
    BY <1>1, <1>2, <1>3, <1>4
  <2> HIDE DEF x, y, z
  <2> QED BY <1>1, <2>1
<1> QED BY <1>1, <1>5 DEF q, r

\* No bytes are no pages, some bytes are some pages, and more bytes no fewer pages.
LEMMA PagesOfSize ==
    ASSUME NEW a \in Nat, NEW b \in Nat, a <= b
    PROVE  /\ ToPages(a) \in Nat /\ ToPages(b) \in Nat /\ ToPages(a) <= ToPages(b)
           /\ ToPages(0) = 0
           /\ b > 0 => ToPages(b) > 0
<1> DEFINE u == UnitsPerPage
<1>1. u \in Nat \ {0}
  BY LoadingAssumption
<1>2. /\ ToPages(a) = (a + u - 1) \div u /\ ToPages(b) = (b + u - 1) \div u
      /\ ToPages(0) = (0 + u - 1) \div u
  BY DEF ToPages
<1> HIDE DEF u
<1>3. a + u - 1 \in Nat /\ b + u - 1 \in Nat /\ a + u - 1 <= b + u - 1
  BY <1>1
<1>4. u \div u = 1 /\ (0 + u - 1) \div u = 0
  BY <1>1
<1>5. b > 0 => (b + u - 1) \div u >= u \div u
  BY <1>1, <1>3, DivMonotone
<1>6. (a + u - 1) \div u \in Nat /\ (b + u - 1) \div u \in Nat /\ (a + u - 1) \div u <= (b + u - 1) \div u
  BY <1>1, <1>3, DivMonotone
<1> QED BY <1>2, <1>4, <1>5, <1>6

-----------------------------------------------------------------------------
(* What the services of the firmware and LoadBootModule do.                *)

LEMMA PagesAreNumbers == Pages \subseteq Nat
  BY DEF Pages

\* Allocation takes pages that are free and gives them to the owner.
LEMMA Allocated ==
    ASSUME NEW m \in [Pages -> Owners], NEW owner \in Owners, NEW count \in Nat, NEW limit \in Nat,
           NEW a \in Allocations(m, owner, count, limit)
    PROVE  /\ a.memory \in [Pages -> Owners] /\ a.base \in Pages /\ count > 0
           /\ Held(a.memory, Part(owner, a.base, count))
           /\ \A p \in PageRange(a.base, count) : p \in Pages /\ m[p] = Free
           /\ \A p \in Pages : p \notin PageRange(a.base, count) => a.memory[p] = m[p]
           /\ \A p \in Pages : m[p] # Free => a.memory[p] = m[p]
<1>1. PICK b \in Pages :
        /\ a = [base |-> b, memory |-> [p \in Pages |-> IF p \in PageRange(b, count) THEN owner ELSE m[p]]]
        /\ count > 0 /\ \A p \in PageRange(b, count) : p \in Pages /\ m[p] = Free
  BY DEF Allocations
<1>2. a.base = b /\ a.memory = [p \in Pages |-> IF p \in PageRange(b, count) THEN owner ELSE m[p]]
  BY <1>1
<1> QED BY <1>1, <1>2 DEF Held, Part

LEMMA AllocatedAt ==
    ASSUME NEW m, NEW owner, NEW count, NEW base
    PROVE  AllocationsAt(m, owner, count, base) \subseteq Allocations(m, owner, count, PageCount)
  BY DEF AllocationsAt

\* FreePages frees pages of the range it is given and no others.
LEMMA Freed ==
    ASSUME NEW m \in [Pages -> Owners], NEW base \in Int, NEW count \in Nat,
           NEW r \in FreeResults(m, base, count)
    PROVE  /\ r.memory \in [Pages -> Owners] /\ r.ok \in BOOLEAN
           /\ r.ok => count > 0
           /\ \A p \in Pages : p \notin PageRange(base, count) => r.memory[p] = m[p]
<1>1. Free \in Owners
  BY DEF Owners
<1>2. PICK n \in 0 .. count :
        /\ r.memory = [p \in Pages |-> IF p \in PageRange(base, n) THEN Free ELSE m[p]]
        /\ r.ok \in BOOLEAN /\ (r.ok => count > 0)
  <2> DEFINE freed(n) == [p \in Pages |-> IF p \in PageRange(base, n) THEN Free ELSE m[p]]
             allocated(n) == \A p \in PageRange(base, n) : p \in Pages /\ m[p] # Free
  <2>1. CASE count > 0 /\ allocated(count)
    <3>1. r = [ok |-> TRUE, memory |-> freed(count)]
      BY <2>1 DEF FreeResults
    <3> QED BY <2>1, <3>1
  <2>2. CASE ~(count > 0 /\ allocated(count))
    <3>1. PICK n \in 0 .. count : r = [ok |-> FALSE, memory |-> freed(n)]
      BY <2>2 DEF FreeResults
    <3> QED BY <3>1
  <2> QED BY <2>1, <2>2
<1>3. PageRange(base, n) \subseteq PageRange(base, count)
  BY DEF PageRange
<1> QED BY <1>1, <1>2, <1>3

\* It succeeds if there are pages and all of them are allocated.
LEMMA FreedAll ==
    ASSUME NEW m \in [Pages -> Owners], NEW base \in Int, NEW count \in Nat \ {0},
           \A p \in PageRange(base, count) : p \in Pages /\ m[p] # Free,
           NEW r \in FreeResults(m, base, count)
    PROVE  r.ok /\ \A p \in Pages : p \in PageRange(base, count) => r.memory[p] = Free
<1>1. r = [ok |-> TRUE, memory |-> [p \in Pages |-> IF p \in PageRange(base, count) THEN Free ELSE m[p]]]
  BY DEF FreeResults
<1> QED BY <1>1

ModuleOwners == [kind : Kinds, n : Nat]

\* The outcomes of LoadBootModule, one by one.
NotSized(m, base) == {Outcome(FALSE, base, 0, m), Outcome(FALSE, FourGB, 0, m)}
NoPages(m, size) == {Outcome(FALSE, FourGB, size, n) : n \in Cleanup(m, FourGB, ToPages(size))}
Taken(m, owner, size) == Allocations(m, owner, ToPages(size), FourGB)
Unread(a, size) == {Outcome(FALSE, a.base, size, n) : n \in Cleanup(a.memory, a.base, ToPages(size))}

LEMMA ModuleCases ==
    ASSUME NEW m, NEW owner, NEW size, NEW base, NEW r \in ModuleResults(m, owner, size, base)
    PROVE  \/ r \in NotSized(m, base)
           \/ r \in NoPages(m, size)
           \/ \E a \in Taken(m, owner, size) : r \in Unread(a, size)
           \/ \E a \in Taken(m, owner, size) : r = Outcome(TRUE, a.base, size, a.memory)
<1> DEFINE AllUnread == UNION {Unread(a, size) : a \in Taken(m, owner, size)}
           Loads == {Outcome(TRUE, a.base, size, a.memory) : a \in Taken(m, owner, size)}
<1>1. ModuleResults(m, owner, size, base) = NotSized(m, base) \cup NoPages(m, size) \cup AllUnread \cup Loads
  BY DEF ModuleResults, NotSized, NoPages, Unread, Taken
<1>2. CASE r \in Loads
  BY <1>2
<1>3. CASE r \in AllUnread
  BY <1>3
<1> HIDE DEF AllUnread, Loads
<1>4. r \in NotSized(m, base) \/ r \in NoPages(m, size) \/ r \in AllUnread \/ r \in Loads
  BY <1>1
<1> QED BY <1>2, <1>3, <1>4

\* A module that is loaded has its pages, and no page of another was touched.  One that
\* failed has no pages below 4 GB, and touched none there but free ones.
ModuleOutcome(m, owner, size, base, r) ==
    /\ r.memory \in [Pages -> Owners] /\ r.ok \in BOOLEAN /\ r.size \in Nat
    /\ r.base \in {base, FourGB} \cup Pages
    /\ r.ok => /\ r.size = size /\ r.base \in Pages /\ ToPages(size) > 0
               /\ Held(r.memory, Part(owner, r.base, ToPages(size)))
    /\ \/ r.size = 0 /\ ~r.ok
       \/ r.base = FourGB /\ ~r.ok
       \/ \A p \in PageRange(r.base, ToPages(r.size)) : p \in Pages /\ m[p] = Free
    /\ \A p \in Pages : m[p] # Free /\ (r.ok \/ p < FourGB) => r.memory[p] = m[p]

LEMMA ModuleResult ==
    ASSUME NEW m \in [Pages -> Owners], NEW owner \in ModuleOwners, NEW size \in Nat, NEW base \in Int,
           NEW r \in ModuleResults(m, owner, size, base)
    PROVE  ModuleOutcome(m, owner, size, base, r)
<1> DEFINE count == ToPages(size)
<1>1. count \in Nat /\ FourGB \in Nat /\ owner \in Owners
  BY PagesOfSize, LoadingAssumption DEF ModuleOwners, Owners
<1>2. \A p \in PageRange(FourGB, count) : p >= FourGB
  BY <1>1 DEF PageRange
<1>3. CASE r.memory = m /\ r.ok = FALSE /\ r.size = 0 /\ r.base \in {base, FourGB}
  <2>1. r.ok \in BOOLEAN /\ ~r.ok
    BY <1>3, Zenon
  <2>2. \A p \in Pages : r.memory[p] = m[p]
    BY <1>3
  <2>3. r.memory \in [Pages -> Owners] /\ r.size \in Nat /\ r.base \in {base, FourGB} /\ r.size = 0
    BY <1>3
  <2> QED BY <2>1, <2>2, <2>3 DEF ModuleOutcome
<1>4. CASE r.ok = FALSE /\ r.base = FourGB /\ r.size = size /\ r.memory \in Cleanup(m, FourGB, count)
  <2>1. PICK f \in FreeResults(m, FourGB, count) : r.memory = f.memory
    BY <1>4 DEF Cleanup
  <2>2. f.memory \in [Pages -> Owners] /\ \A p \in Pages : p \notin PageRange(FourGB, count) => f.memory[p] = m[p]
    BY <1>1, Freed
  <2>3. \A p \in Pages : p < FourGB => p \notin PageRange(FourGB, count)
    BY <1>1, <1>2, PagesAreNumbers
  <2> QED BY <1>1, <1>4, <2>1, <2>2, <2>3 DEF ModuleOutcome
<1>5. ASSUME NEW a \in Allocations(m, owner, count, FourGB),
             r.ok = FALSE, r.base = a.base, r.size = size, r.memory \in Cleanup(a.memory, a.base, count)
      PROVE  ModuleOutcome(m, owner, size, base, r)
  <2>1. PICK f \in FreeResults(a.memory, a.base, count) : r.memory = f.memory
    BY <1>5 DEF Cleanup
  <2>2. /\ a.memory \in [Pages -> Owners] /\ a.base \in Pages /\ a.base \in Int
        /\ \A p \in PageRange(a.base, count) : p \in Pages /\ m[p] = Free
        /\ \A p \in Pages : p \notin PageRange(a.base, count) => a.memory[p] = m[p]
    BY <1>1, <1>5, Allocated, PagesAreNumbers
  <2>3. f.memory \in [Pages -> Owners]
        /\ \A p \in Pages : p \notin PageRange(a.base, count) => f.memory[p] = a.memory[p]
    BY <1>1, <2>1, <2>2, Freed
  <2> QED BY <1>1, <1>5, <2>1, <2>2, <2>3 DEF ModuleOutcome
<1>6. ASSUME NEW a \in Allocations(m, owner, count, FourGB),
             r.ok = TRUE, r.base = a.base, r.size = size, r.memory = a.memory
      PROVE  ModuleOutcome(m, owner, size, base, r)
  <2>1. /\ a.memory \in [Pages -> Owners] /\ a.base \in Pages /\ count > 0
        /\ Held(a.memory, Part(owner, a.base, count))
        /\ \A p \in PageRange(a.base, count) : p \in Pages /\ m[p] = Free
        /\ \A p \in Pages : p \notin PageRange(a.base, count) => a.memory[p] = m[p]
    BY <1>1, <1>6, Allocated
  <2>2. r.ok \in BOOLEAN
    BY <1>6
  <2> QED BY <1>6, <2>1, <2>2 DEF ModuleOutcome
<1>7. CASE r \in NotSized(m, base)
  <2>1. r = Outcome(FALSE, base, 0, m) \/ r = Outcome(FALSE, FourGB, 0, m)
    BY <1>7 DEF NotSized
  <2>2. r.memory = m /\ r.ok = FALSE /\ r.size = 0 /\ r.base \in {base, FourGB}
    BY <2>1 DEF Outcome
  <2> QED BY <1>3, <2>2
<1>8. CASE r \in NoPages(m, size)
  <2>1. PICK n \in Cleanup(m, FourGB, count) : r = Outcome(FALSE, FourGB, size, n)
    BY <1>8 DEF NoPages
  <2>2. r.memory = n /\ r.ok = FALSE /\ r.size = size /\ r.base = FourGB
    BY <2>1 DEF Outcome
  <2> QED BY <1>4, <2>1, <2>2
<1>9. ASSUME NEW a \in Taken(m, owner, size), r \in Unread(a, size)
      PROVE  ModuleOutcome(m, owner, size, base, r)
  <2>1. PICK n \in Cleanup(a.memory, a.base, count) : r = Outcome(FALSE, a.base, size, n)
    BY <1>9 DEF Unread
  <2>2. r.memory = n /\ r.ok = FALSE /\ r.size = size /\ r.base = a.base
    BY <2>1 DEF Outcome
  <2> QED BY <1>5, <1>9, <2>1, <2>2 DEF Taken
<1>10. ASSUME NEW a \in Taken(m, owner, size), r = Outcome(TRUE, a.base, size, a.memory)
       PROVE  ModuleOutcome(m, owner, size, base, r)
  <2>1. r.memory = a.memory /\ r.ok = TRUE /\ r.size = size /\ r.base = a.base
    BY <1>10 DEF Outcome
  <2> QED BY <1>6, <1>10, <2>1 DEF Taken
<1> QED BY <1>7, <1>8, <1>9, <1>10, ModuleCases, Zenon

-----------------------------------------------------------------------------
(* The parts that were given to the kernel.                                *)

\* What is read from an entry.
LEMMA EntryFacts ==
    ASSUME NEW e \in Entries
    PROVE  /\ e.protocol \in Protocols /\ e.size \in Nat /\ e.setup \in Nat \ {0}
           /\ e.initSize \in Nat \cup {NoInitSize} /\ e.ramdiskMax \in 0 .. FourGB
           /\ e.segments \in Seq([base : Pages, count : Nat \ {0}]) /\ e.modules \in Seq(Nat)
  BY LoadingAssumption DEF EntryForm

LEMMA OwnerFacts ==
    /\ \A o \in ModuleOwners : o \in Owners /\ o # Free
    /\ \A kind \in Kinds, n \in Nat : Owner(kind, n) \in ModuleOwners
  BY DEF ModuleOwners, Owners, Owner, Free, Kinds

\* Memory may change wherever no part is.
LEMMA HeldKept ==
    ASSUME NEW m, NEW n, \A part \in given : Held(m, part),
           \A p \in Pages : m[p] \in GivenOwners => n[p] = m[p]
    PROVE  \A part \in given : Held(n, part)
  BY DEF Held, GivenOwners

\* Allocation leaves the parts in place.
LEMMA HeldUnlessFree ==
    ASSUME TypeOK, NEW m, NEW n, \A part \in given : Held(m, part),
           \A p \in Pages : m[p] # Free => n[p] = m[p]
    PROVE  \A part \in given : Held(n, part)
<1>1. \A o \in GivenOwners : o # Free
  BY OwnerFacts DEF TypeOK, GivenOwners, ModuleOwners
<1> QED BY <1>1, HeldKept

\* One part more.
LEMMA GivenMore ==
    ASSUME NEW owner \in ModuleOwners, NEW base \in Pages, NEW count \in Nat \ {0}, NEW m,
           given' = given \cup {Part(owner, base, count)},
           \A part \in given : Held(m, part), Held(m, Part(owner, base, count)), TypeOK
    PROVE  /\ GivenOwners' = GivenOwners \cup {owner}
           /\ \A part \in given' : Held(m, part)
           /\ given' \subseteq PartForm
<1>1. Part(owner, base, count).owner = owner
  BY DEF Part
<1>2. Part(owner, base, count) \in PartForm
  BY DEF Part, PartForm, ModuleOwners
<1>3. given \subseteq PartForm
  BY DEF TypeOK, PartForm
<1> QED BY <1>1, <1>2, <1>3 DEF GivenOwners

LEMMA FirstOwnersNext ==
    ASSUME NEW kind, NEW n \in Nat \ {0}
    PROVE  /\ FirstOwners(kind, n) = FirstOwners(kind, n - 1) \cup {Owner(kind, n)}
           /\ FirstOwners(kind, 0) = {}
<1>1. \A i : i \in 1 .. n <=> i \in 1 .. n - 1 \/ i = n
  OBVIOUS
<1> QED BY <1>1 DEF FirstOwners

-----------------------------------------------------------------------------
(* Attempts that end.                                                      *)

\* In the menu nothing but the types is left to hold.
LEMMA MenuIInv == TypeOK' /\ pc' = "menu" => IInv'
  BY DEF IInv, Stage, AllGiven, AllHeld, ImageHeld, AssertExplained, Steps, LinuxSteps, ElfSteps

LEMMA AssertedIInv == TypeOK' /\ pc' = "asserted" /\ AssertExplained' => IInv'
  BY DEF IInv, Stage, AllGiven, AllHeld, ImageHeld, Steps, LinuxSteps, ElfSteps

LEMMA AbandonedType == \A m \in [Pages -> Owners] : Abandoned(m) \in [Pages -> Owners]
  BY DEF Abandoned, Owners

\* The linux loader gives up: the assertion of its cleanup fails only before there is
\* a kernel.
LEMMA FailLinuxIInv ==
    ASSUME TypeOK, NEW img \in [base : {NoImage} \cup Nat, size : Nat], NEW m \in [Pages -> Owners],
           FailLinux(img, m), UNCHANGED <<entry, offset, next, given, attempts>>,
           initrdRead' \in BOOLEAN, entry.protocol = "BOOT_LINUX",
           img.base = NoImage \/ \A part \in given : part.owner.kind # "kernel"
    PROVE  IInv'
<1>1. CASE Return(m)
  <2>1. TypeOK'
    BY <1>1, AbandonedType DEF TypeOK, FailLinux, Return
  <2> QED BY <1>1, <2>1, MenuIInv DEF Return
<1>2. CASE img.base # NoImage
  <2>1. PICK r \in FreeResults(m, img.base, img.size) :
           IF r.ok THEN Return(r.memory) ELSE Asserted(r.memory)
    BY <1>2 DEF FailLinux
  <2>2. r.memory \in [Pages -> Owners] /\ r.ok \in BOOLEAN
    BY <1>2, Freed
  <2>3. /\ pc' \in {"menu", "asserted"} /\ memory' \in [Pages -> Owners]
        /\ image' = img
    BY <2>1, <2>2, AbandonedType DEF Return, Asserted, FailLinux
  <2>4. TypeOK'
    BY <2>3 DEF TypeOK
  <2>5. AssertExplained'
    BY <1>2 DEF AssertExplained
  <2> QED BY <2>3, <2>4, <2>5, MenuIInv, AssertedIInv
<1> QED BY <1>1, <1>2 DEF FailLinux

-----------------------------------------------------------------------------
(* Every step preserves the inductive invariant.                           *)

LEMMA InitIInv == Init => IInv
<1> SUFFICES ASSUME Init PROVE IInv
  OBVIOUS
<1>1. TypeOK
  BY LoadingAssumption DEF Init, TypeOK, Owners, NoImage
<1> QED BY <1>1 DEF Init, IInv, Stage, AllGiven, AllHeld, ImageHeld, AssertExplained, Steps, LinuxSteps, ElfSteps

\* The first step of a loader finds nothing given.
LEMMA LoadKernelIInv == IInv /\ LoadKernel => IInv'
<1> SUFFICES ASSUME IInv, LoadKernel PROVE IInv'
  OBVIOUS
<1> USE DEF Steps, LinuxSteps, ElfSteps
<1>1. PICK e \in Entries :
        /\ entry' = e /\ pc' = FirstStep(e.protocol)
        /\ offset' \in (IF e.protocol = "BOOT_MB2" THEN Offsets ELSE {0})
  BY DEF LoadKernel
<1>2. /\ e.protocol \in Protocols
      /\ image' = [base |-> NoImage, size |-> 0] /\ initrdRead' = TRUE /\ next' = 1 /\ given' = {}
      /\ attempts < MaxAttempts /\ attempts' = attempts + 1 /\ memory' = memory
  BY EntryFacts DEF LoadKernel
<1>3. pc' = CASE e.protocol = "BOOT_LINUX" -> "LoadImage"
              [] e.protocol = "BOOT_MB2" -> "LoadModules"
              [] e.protocol \in {"BOOT_STIVALE", "BOOT_STIVALE2"} -> "LoadElf"
              [] e.protocol = "BOOT_INVALID" -> "menu"
  BY <1>1 DEF FirstStep
<1>4. offset' \in Offsets
  BY <1>1, LoadingAssumption
<1>5. TypeOK'
  <2>1. pc' \in {"LoadImage", "LoadModules", "LoadElf", "menu"}
    BY <1>2, <1>3 DEF Protocols
  <2>2. attempts' \in 0 .. MaxAttempts
    BY <1>2, LoadingAssumption DEF IInv, TypeOK
  <2> QED BY <1>1, <1>2, <1>4, <2>1, <2>2 DEF IInv, TypeOK, NoImage
<1>6. Stage'
  <2>1. Len(e.segments) \in Nat /\ Len(e.modules) \in Nat
    BY EntryFacts
  <2> QED BY <1>1, <1>2, <1>3, <2>1 DEF Stage, Protocols
<1>7. AllGiven'
  <2>1. GivenOwners' = {}
    BY <1>2 DEF GivenOwners
  <2>2. \A kind : FirstOwners(kind, 0) = {}
    BY DEF FirstOwners
  <2>3. next' - 1 = 0
    BY <1>2
  <2> QED BY <1>1, <1>2, <1>3, <2>1, <2>2, <2>3 DEF AllGiven, PartsUpTo, Protocols
<1>8. (AllHeld /\ ImageHeld /\ AssertExplained)'
  BY <1>2, <1>3 DEF AllHeld, ImageHeld, AssertExplained, Protocols
<1> QED BY <1>5, <1>6, <1>7, <1>8 DEF IInv

\* A file that is loaded has some bytes, and then the pages for them.
LEMMA LoadImageIInv == IInv /\ LoadImage => IInv'
<1> SUFFICES ASSUME IInv, LoadImage PROVE IInv'
  OBVIOUS
<1> USE DEF Steps, LinuxSteps, ElfSteps
<1>1. /\ TypeOK /\ pc = "LoadImage" /\ memory \in [Pages -> Owners] /\ entry \in Entries
      /\ entry.protocol = "BOOT_LINUX" /\ entry.size \in Nat /\ initrdRead /\ initrdRead \in BOOLEAN
      /\ UNCHANGED <<entry, initrdRead, offset, next, given, attempts>>
  BY EntryFacts DEF LoadImage, IInv, TypeOK, Stage
<1>2. given = {}
  BY <1>1 DEF IInv, AllGiven, PartsUpTo, GivenOwners
<1>3. PICK r \in ModuleResults(memory, Owner("image", 1), entry.size, NoImage) :
         LET img == [base |-> r.base, size |-> r.size]
         IN  IF r.ok THEN pc' = "LoadSetup" /\ memory' = r.memory /\ image' = img
             ELSE FailLinux(img, r.memory)
  BY DEF LoadImage
<1> DEFINE img == [base |-> r.base, size |-> r.size]
<1>4. ModuleOutcome(memory, Owner("image", 1), entry.size, NoImage, r)
  <2>1. Owner("image", 1) \in ModuleOwners /\ NoImage \in Int
    BY OwnerFacts DEF Kinds, NoImage
  <2> QED BY <1>1, <2>1, ModuleResult
<1>5. img \in [base : {NoImage} \cup Nat, size : Nat] /\ r.memory \in [Pages -> Owners]
  BY <1>4, PagesAreNumbers, LoadingAssumption DEF ModuleOutcome
<1>6. CASE ~r.ok
  <2>1. FailLinux(img, r.memory)
    BY <1>3, <1>6
  <2> HIDE DEF img
  <2> QED BY <1>1, <1>2, <1>5, <2>1, FailLinuxIInv
<1>7. CASE r.ok
  <2>1. /\ pc' = "LoadSetup" /\ memory' = r.memory /\ image' = img
        /\ image'.base = r.base /\ image'.size = r.size
    BY <1>3, <1>7
  <2>2. /\ r.size = entry.size /\ r.base \in Pages /\ entry.size > 0
        /\ Held(r.memory, Part(Owner("image", 1), r.base, ToPages(entry.size)))
    BY <1>1, <1>4, <1>7, PagesOfSize DEF ModuleOutcome
  <2> HIDE DEF img
  <2>3. TypeOK'
    BY <1>1, <1>5, <2>1 DEF TypeOK
  <2>4. (Stage /\ AllHeld /\ AssertExplained)'
    BY <1>1, <1>2, <2>1 DEF Stage, AllHeld, AssertExplained
  <2>5. AllGiven'
    BY <1>1, <1>2, <2>1 DEF AllGiven, PartsUpTo, GivenOwners
  <2>6. ImageHeld'
    BY <2>1, <2>2 DEF ImageHeld
  <2> QED BY <2>3, <2>4, <2>5, <2>6 DEF IInv
<1> QED BY <1>6, <1>7

\* The rest of the file starts where the file starts, and has fewer pages or as many.
LEMMA LoadSetupIInv == IInv /\ LoadSetup => IInv'
<1> SUFFICES ASSUME IInv, LoadSetup PROVE IInv'
  OBVIOUS
<1> USE DEF Steps, LinuxSteps, ElfSteps
<1> DEFINE count == ToPages(entry.setup)
           rest == [image EXCEPT !.size = @ - entry.setup]
<1>1. /\ TypeOK /\ pc = "LoadSetup" /\ memory \in [Pages -> Owners] /\ entry \in Entries
      /\ entry.protocol = "BOOT_LINUX" /\ entry.setup \in Nat \ {0} /\ initrdRead /\ initrdRead \in BOOLEAN
      /\ image \in [base : {NoImage} \cup Nat, size : Nat]
      /\ UNCHANGED <<entry, initrdRead, offset, next, attempts>>
  BY EntryFacts DEF LoadSetup, IInv, TypeOK, Stage
<1>2. given = {}
  BY <1>1 DEF IInv, AllGiven, PartsUpTo, GivenOwners
<1>3. /\ image.base \in Pages /\ image.size \in Nat
      /\ Held(memory, Part(Owner("image", 1), image.base, ToPages(image.size)))
  BY <1>1 DEF IInv, ImageHeld
<1>4. count \in Nat
  BY <1>1, PagesOfSize
<1>5. SetupFits => /\ rest \in [base : {NoImage} \cup Nat, size : Nat]
                   /\ rest.base = image.base /\ rest.size = image.size - entry.setup
                   /\ rest.size > 0 /\ rest.size <= image.size /\ rest.size \in Nat
  BY <1>1, <1>3 DEF SetupFits
<1> HIDE DEF count, rest
<1>6. CASE ~SetupFits /\ FailLinux(image, memory) /\ UNCHANGED given
  BY <1>1, <1>2, <1>6, FailLinuxIInv
<1>7. CASE SetupFits /\ FailLinux(rest, memory) /\ UNCHANGED given
  BY <1>1, <1>2, <1>5, <1>7, FailLinuxIInv
<1>8. ASSUME SetupFits, NEW a \in Allocations(memory, Owner("setup", 1), count, OneGB)
      PROVE  /\ a.memory \in [Pages -> Owners] /\ a.base \in Pages /\ count \in Nat \ {0}
             /\ Held(a.memory, Part(Owner("setup", 1), a.base, count))
             /\ \A p \in Pages : memory[p] # Free => a.memory[p] = memory[p]
  <2>1. Owner("setup", 1) \in Owners /\ OneGB \in Nat
    BY OwnerFacts, LoadingAssumption DEF Kinds
  <2>2. a.memory \in [Pages -> Owners] /\ a.base \in Pages /\ count > 0
    BY <1>1, <1>4, <1>8, <2>1, Allocated
  <2> QED BY <1>1, <1>4, <1>8, <2>1, <2>2, Allocated
<1>9. ASSUME SetupFits, NEW a \in Allocations(memory, Owner("setup", 1), count, OneGB),
             FailLinux(rest, a.memory), UNCHANGED given
      PROVE  IInv'
  BY <1>1, <1>2, <1>5, <1>8, <1>9, FailLinuxIInv
<1>10. ASSUME SetupFits, NEW a \in Allocations(memory, Owner("setup", 1), count, OneGB),
              pc' = "LoadKernelBuf", memory' = a.memory, image' = rest,
              given' = given \cup {Part(Owner("setup", 1), a.base, count)}
       PROVE  IInv'
  <2>1. Owner("setup", 1) \in ModuleOwners /\ Owner("image", 1) # Free
    BY OwnerFacts DEF Kinds
  <2>2. \A part \in given : Held(a.memory, part)
    BY <1>2
  <2>3. /\ a.base \in Pages /\ count \in Nat \ {0} /\ a.memory \in [Pages -> Owners]
        /\ Held(a.memory, Part(Owner("setup", 1), a.base, count))
    BY <1>8, <1>10
  <2>4. /\ GivenOwners' = GivenOwners \cup {Owner("setup", 1)}
        /\ \A part \in given' : Held(a.memory, part)
        /\ given' \subseteq PartForm
    BY <1>1, <1>10, <2>1, <2>2, <2>3, GivenMore
  <2>5. TypeOK'
    BY <1>1, <1>5, <1>10, <2>3, <2>4 DEF TypeOK, PartForm
  <2>6. (Stage /\ AllHeld /\ AssertExplained)'
    BY <1>1, <1>10, <2>4 DEF Stage, AllHeld, AssertExplained
  <2>7. AllGiven'
    BY <1>2, <1>10, <2>4 DEF AllGiven, PartsUpTo, GivenOwners
  <2>8. ImageHeld'
    <3>1. PageRange(image.base, ToPages(rest.size)) \subseteq PageRange(image.base, ToPages(image.size))
      <4>1. /\ ToPages(rest.size) \in Nat /\ ToPages(image.size) \in Nat
            /\ ToPages(rest.size) <= ToPages(image.size) /\ image.base \in Nat
        BY <1>3, <1>5, <1>10, PagesOfSize, PagesAreNumbers
      <4> QED BY <4>1 DEF PageRange
    <3>2. \A p \in PageRange(image.base, ToPages(rest.size)) :
             p \in Pages /\ a.memory[p] = Owner("image", 1)
      BY <1>3, <1>8, <1>10, <2>1, <3>1 DEF Held, Part
    <3> QED BY <1>3, <1>5, <1>10, <3>2 DEF ImageHeld, Held, Part
  <2> QED BY <2>5, <2>6, <2>7, <2>8 DEF IInv
<1> QED BY <1>6, <1>7, <1>9, <1>10 DEF LoadSetup, rest, count

\* An allocation for one part more.
LEMMA Grown ==
    ASSUME TypeOK, NEW m \in [Pages -> Owners], NEW owner \in ModuleOwners, NEW count \in Nat, NEW limit \in Nat,
           NEW a \in Allocations(m, owner, count, limit), \A part \in given : Held(m, part),
           given' = given \cup {Part(owner, a.base, count)}
    PROVE  /\ a.memory \in [Pages -> Owners]
           /\ \A p \in Pages : m[p] # Free => a.memory[p] = m[p]
           /\ GivenOwners' = GivenOwners \cup {owner} /\ given' \subseteq PartForm
           /\ \A part \in given' : Held(a.memory, part)
<1>1. owner \in Owners
  BY OwnerFacts
<1>2. /\ a.memory \in [Pages -> Owners] /\ a.base \in Pages /\ count > 0
      /\ Held(a.memory, Part(owner, a.base, count))
      /\ \A p \in Pages : m[p] # Free => a.memory[p] = m[p]
  BY <1>1, Allocated
<1>3. \A part \in given : Held(a.memory, part)
  BY <1>2, HeldUnlessFree
<1>4. count \in Nat \ {0}
  BY <1>2
<1> QED BY <1>2, <1>3, <1>4, GivenMore

\* The copy of the kernel is allocated somewhere, and then all pages of the file that
\* are freed are still the file's: the assertion does not fail.
LEMMA LoadKernelBufIInv == IInv /\ LoadKernelBuf => IInv'
<1> SUFFICES ASSUME IInv, LoadKernelBuf PROVE IInv'
  OBVIOUS
<1> USE DEF Steps, LinuxSteps, ElfSteps
<1> DEFINE count == ToPages(KernelInitialSize)
<1>1. /\ TypeOK /\ pc = "LoadKernelBuf" /\ memory \in [Pages -> Owners] /\ entry \in Entries
      /\ entry.protocol = "BOOT_LINUX" /\ initrdRead /\ initrdRead \in BOOLEAN
      /\ image \in [base : {NoImage} \cup Nat, size : Nat]
      /\ UNCHANGED <<entry, initrdRead, offset, next, attempts>>
  BY DEF LoadKernelBuf, IInv, TypeOK, Stage
<1>2. GivenOwners = {Owner("setup", 1)} /\ \A part \in given : Held(memory, part)
  BY <1>1 DEF IInv, AllGiven, AllHeld, PartsUpTo
<1>3. /\ image.base \in Pages /\ image.base \in Int /\ image.size \in Nat /\ image.size > 0
      /\ Held(memory, Part(Owner("image", 1), image.base, ToPages(image.size)))
      /\ PagesOfImage \in Nat \ {0} /\ PagesOfImage = ToPages(image.size)
  <2>1. /\ image.base \in Pages /\ image.size \in Nat /\ image.size > 0
        /\ Held(memory, Part(Owner("image", 1), image.base, ToPages(image.size)))
    BY <1>1 DEF IInv, ImageHeld
  <2>2. ToPages(image.size) \in Nat \ {0}
    BY <2>1, PagesOfSize
  <2>3. \A p \in Pages : p \in Int
    BY PagesAreNumbers
  <2> QED BY <2>1, <2>2, <2>3 DEF PagesOfImage
<1>4. count \in Nat
  <2>1. KernelInitialSize \in Nat
    BY <1>1, <1>3, EntryFacts DEF KernelInitialSize, NoInitSize
  <2> QED BY <2>1, PagesOfSize
<1>5. Owner("kernel", 1) \in ModuleOwners /\ Owner("image", 1) # Free /\ Owner("image", 1) # Owner("setup", 1)
      /\ Owner("image", 1) # Owner("kernel", 1)
  BY OwnerFacts DEF Kinds, Owner
<1> HIDE DEF count
<1>6. CASE FailLinux(image, memory) /\ UNCHANGED given
  <2>1. \A part \in given : part.owner.kind # "kernel"
    BY <1>2 DEF GivenOwners, Owner
  <2> QED BY <1>1, <1>6, <2>1, FailLinuxIInv
<1>7. KernelAllocations(memory, count) \subseteq Allocations(memory, Owner("kernel", 1), count, PageCount)
  BY AllocatedAt DEF KernelAllocations
<1>8. ASSUME NEW a \in KernelAllocations(memory, count),
             given' = given \cup {Part(Owner("kernel", 1), a.base, count)},
             NEW r \in FreeResults(a.memory, image.base, PagesOfImage),
             IF r.ok THEN /\ pc' = "LoadCommandLine" /\ memory' = r.memory
                          /\ image' = [image EXCEPT !.base = ForgetImage]
             ELSE Asserted(r.memory) /\ UNCHANGED image
      PROVE  IInv'
  <2>1. a \in Allocations(memory, Owner("kernel", 1), count, PageCount) /\ PageCount \in Nat
    BY <1>7, <1>8, LoadingAssumption
  <2>2. /\ a.memory \in [Pages -> Owners]
        /\ \A p \in Pages : memory[p] # Free => a.memory[p] = memory[p]
        /\ GivenOwners' = GivenOwners \cup {Owner("kernel", 1)} /\ given' \subseteq PartForm
        /\ \A part \in given' : Held(a.memory, part)
    BY <1>1, <1>2, <1>4, <1>5, <1>8, <2>1, Grown
  <2>3. \A p \in PageRange(image.base, PagesOfImage) : p \in Pages /\ a.memory[p] = Owner("image", 1)
    BY <1>3, <1>5, <2>2 DEF Held, Part
  <2>4. r.ok
    BY <1>3, <1>5, <1>8, <2>2, <2>3, FreedAll
  <2>5. /\ r.memory \in [Pages -> Owners]
        /\ \A p \in Pages : p \notin PageRange(image.base, PagesOfImage) => r.memory[p] = a.memory[p]
    BY <1>3, <1>8, <2>2, Freed
  <2>6. /\ pc' = "LoadCommandLine" /\ memory' = r.memory
        /\ image' \in [base : {NoImage} \cup Nat, size : Nat] /\ image'.base = NoImage
    BY <1>1, <1>8, <2>4 DEF ForgetImage
  <2>7. \A part \in given' : Held(r.memory, part)
    <3>1. \A part \in given' : part.owner # Owner("image", 1)
      BY <1>2, <1>5, <2>2 DEF GivenOwners
    <3> QED BY <2>2, <2>3, <2>5, <3>1 DEF Held
  <2>8. TypeOK'
    BY <1>1, <2>2, <2>5, <2>6 DEF TypeOK, PartForm
  <2>9. (Stage /\ AllHeld /\ ImageHeld /\ AssertExplained)'
    BY <1>1, <2>6, <2>7 DEF Stage, AllHeld, ImageHeld, AssertExplained
  <2>10. AllGiven'
    BY <1>2, <2>2, <2>6 DEF AllGiven, PartsUpTo
  <2> QED BY <2>8, <2>9, <2>10 DEF IInv
<1> QED BY <1>6, <1>8 DEF LoadKernelBuf, count

LEMMA LoadCommandLineIInv == IInv /\ LoadCommandLine => IInv'
<1> SUFFICES ASSUME IInv, LoadCommandLine PROVE IInv'
  OBVIOUS
<1> USE DEF Steps, LinuxSteps, ElfSteps
<1>1. /\ TypeOK /\ pc = "LoadCommandLine" /\ memory \in [Pages -> Owners]
      /\ entry.protocol = "BOOT_LINUX" /\ initrdRead /\ initrdRead \in BOOLEAN
      /\ image \in [base : {NoImage} \cup Nat, size : Nat] /\ image.base = NoImage
      /\ UNCHANGED <<entry, initrdRead, offset, next, attempts>>
  BY DEF LoadCommandLine, IInv, TypeOK, Stage, ImageHeld
<1>2. /\ GivenOwners = {Owner("setup", 1), Owner("kernel", 1)}
      /\ \A part \in given : Held(memory, part)
  BY <1>1 DEF IInv, AllGiven, AllHeld, PartsUpTo
<1>3. Owner("cmdline", 1) \in ModuleOwners /\ Owner("cmdline", 1) \in Owners /\ CommandLineLimit \in Nat
  BY OwnerFacts, LoadingAssumption DEF Kinds
<1>4. CASE FailLinux(image, memory) /\ UNCHANGED given
  BY <1>1, <1>4, FailLinuxIInv
<1>5. ASSUME NEW a \in Allocations(memory, Owner("cmdline", 1), 1, CommandLineLimit),
             FailLinux(image, a.memory), UNCHANGED given
      PROVE  IInv'
  <2>1. a.memory \in [Pages -> Owners]
    BY <1>1, <1>3, <1>5, Allocated
  <2> QED BY <1>1, <1>5, <2>1, FailLinuxIInv
<1>6. ASSUME NEW a \in Allocations(memory, Owner("cmdline", 1), 1, CommandLineLimit),
             pc' = "LoadInitrd", memory' = a.memory, UNCHANGED image,
             given' = given \cup {Part(Owner("cmdline", 1), a.base, 1)}
      PROVE  IInv'
  <2>1. /\ a.memory \in [Pages -> Owners]
        /\ GivenOwners' = GivenOwners \cup {Owner("cmdline", 1)} /\ given' \subseteq PartForm
        /\ \A part \in given' : Held(a.memory, part)
    BY <1>1, <1>2, <1>3, <1>6, Grown
  <2>2. TypeOK'
    BY <1>1, <1>6, <2>1 DEF TypeOK, PartForm
  <2>3. (Stage /\ AllHeld /\ ImageHeld /\ AssertExplained)'
    BY <1>1, <1>6, <2>1 DEF Stage, AllHeld, ImageHeld, AssertExplained
  <2>4. AllGiven'
    BY <1>2, <1>6, <2>1 DEF AllGiven, PartsUpTo
  <2> QED BY <2>2, <2>3, <2>4 DEF IInv
<1> QED BY <1>4, <1>5, <1>6 DEF LoadCommandLine

\* The initrd's file, if it was read, is freed whole; if not, nobody knows what is.
LEMMA LoadInitrdIInv == IInv /\ LoadInitrd => IInv'
<1> SUFFICES ASSUME IInv, LoadInitrd PROVE IInv'
  OBVIOUS
<1> USE DEF Steps, LinuxSteps, ElfSteps
<1>1. /\ TypeOK /\ pc = "LoadInitrd" /\ memory \in [Pages -> Owners] /\ entry \in Entries
      /\ entry.protocol = "BOOT_LINUX" /\ initrdRead /\ initrdRead \in BOOLEAN
      /\ image \in [base : {NoImage} \cup Nat, size : Nat] /\ image.base = NoImage
      /\ UNCHANGED <<entry, offset, next, attempts>>
  BY DEF LoadInitrd, IInv, TypeOK, Stage, ImageHeld
<1>2. /\ GivenOwners = {Owner("setup", 1), Owner("kernel", 1), Owner("cmdline", 1)}
      /\ \A part \in given : Held(memory, part)
  BY <1>1 DEF IInv, AllGiven, AllHeld, PartsUpTo
<1>3. CASE entry.modules = <<>>
  <2>1. pc' = "CallLinux" /\ UNCHANGED <<memory, image, initrdRead, given>>
    BY <1>3 DEF LoadInitrd
  <2>2. TypeOK'
    BY <1>1, <2>1 DEF TypeOK
  <2>3. (Stage /\ AllHeld /\ ImageHeld /\ AssertExplained)'
    BY <1>1, <1>2, <2>1 DEF Stage, AllHeld, ImageHeld, AssertExplained
  <2>4. AllGiven'
    BY <1>1, <1>2, <1>3, <2>1 DEF AllGiven, PartsUpTo, Parts, GivenOwners
  <2> QED BY <2>2, <2>3, <2>4 DEF IInv
<1>4. CASE entry.modules # <<>>
  <2>1. PICK r \in ModuleResults(memory, Owner("initrdFile", 1), entry.modules[1], NoImage) :
          /\ initrdRead' = r.ok
          /\ \/ FailLinux(image, r.memory) /\ UNCHANGED given
             \/ \E a \in Allocations(r.memory, Owner("initrd", 1), ToPages(r.size), entry.ramdiskMax) :
                  /\ given' = given \cup {Part(Owner("initrd", 1), a.base, ToPages(r.size))}
                  /\ \E f \in FreeResults(a.memory, r.base, ToPages(r.size)) :
                       IF f.ok THEN pc' = "CallLinux" /\ memory' = f.memory
                       ELSE Asserted(f.memory)
                  /\ UNCHANGED image
    BY <1>4 DEF LoadInitrd
  <2> DEFINE count == ToPages(r.size)
  <2>2. ModuleOutcome(memory, Owner("initrdFile", 1), entry.modules[1], NoImage, r)
    <3>1. Owner("initrdFile", 1) \in ModuleOwners /\ NoImage \in Int
      BY OwnerFacts DEF Kinds, NoImage
    <3>2. entry.modules[1] \in Nat
      BY <1>1, <1>4, EntryFacts
    <3> QED BY <1>1, <2>1, <3>1, <3>2, ModuleResult
  <2>3. /\ r.memory \in [Pages -> Owners] /\ r.ok \in BOOLEAN /\ r.base \in Int /\ r.size \in Nat
        /\ r.ok => Held(r.memory, Part(Owner("initrdFile", 1), r.base, count)) /\ count > 0
        /\ r.ok => \A p \in Pages : memory[p] # Free => r.memory[p] = memory[p]
    <3>1. /\ r.memory \in [Pages -> Owners] /\ r.ok \in BOOLEAN /\ r.size \in Nat
          /\ r.base \in {NoImage, FourGB} \cup Pages
      BY <2>2 DEF ModuleOutcome
    <3>2. \A b \in {NoImage, FourGB} \cup Pages : b \in Int
      BY PagesAreNumbers, LoadingAssumption DEF NoImage
    <3>3. ASSUME r.ok
          PROVE  /\ Held(r.memory, Part(Owner("initrdFile", 1), r.base, count)) /\ count > 0
                 /\ \A p \in Pages : memory[p] # Free => r.memory[p] = memory[p]
      BY <2>2, <3>3 DEF ModuleOutcome
    <3> HIDE DEF count
    <3> QED BY <3>1, <3>2, <3>3
  <2>4. count \in Nat
    BY <2>3, PagesOfSize
  <2>5. /\ Owner("initrd", 1) \in ModuleOwners /\ Owner("initrd", 1) \in Owners
        /\ Owner("initrdFile", 1) # Free /\ entry.ramdiskMax \in Nat
        /\ Owner("initrdFile", 1) \notin {Owner("setup", 1), Owner("kernel", 1), Owner("cmdline", 1), Owner("initrd", 1)}
    BY <1>1, OwnerFacts, EntryFacts, LoadingAssumption DEF Kinds, Owner
  <2> HIDE DEF count
  <2>6. CASE FailLinux(image, r.memory) /\ UNCHANGED given
    BY <1>1, <2>1, <2>3, <2>6, FailLinuxIInv
  <2>7. ASSUME NEW a \in Allocations(r.memory, Owner("initrd", 1), count, entry.ramdiskMax),
               given' = given \cup {Part(Owner("initrd", 1), a.base, count)},
               NEW f \in FreeResults(a.memory, r.base, count),
               IF f.ok THEN pc' = "CallLinux" /\ memory' = f.memory ELSE Asserted(f.memory),
               UNCHANGED image
        PROVE  IInv'
    <3>1. a.memory \in [Pages -> Owners] /\ a.base \in Pages /\ count \in Nat \ {0}
          /\ \A p \in Pages : r.memory[p] # Free => a.memory[p] = r.memory[p]
      <4>1. a.memory \in [Pages -> Owners] /\ a.base \in Pages /\ count > 0
            /\ \A p \in Pages : r.memory[p] # Free => a.memory[p] = r.memory[p]
        BY <2>3, <2>4, <2>5, <2>7, Allocated
      <4> QED BY <2>4, <4>1
    <3>2. /\ f.memory \in [Pages -> Owners] /\ f.ok \in BOOLEAN
          /\ \A p \in Pages : p \notin PageRange(r.base, count) => f.memory[p] = a.memory[p]
      BY <2>3, <2>4, <2>7, <3>1, Freed
    <3>3. GivenOwners' = GivenOwners \cup {Owner("initrd", 1)} /\ given' \subseteq PartForm
      <4>1. Part(Owner("initrd", 1), a.base, count).owner = Owner("initrd", 1)
            /\ Part(Owner("initrd", 1), a.base, count) \in PartForm
        BY <2>5, <3>1 DEF Part, PartForm, ModuleOwners
      <4> QED BY <1>1, <2>7, <4>1 DEF GivenOwners, TypeOK, PartForm
    <3>4. pc' \in {"CallLinux", "asserted"} /\ memory' = f.memory /\ (pc' = "CallLinux" <=> f.ok)
      BY <2>7, <3>2 DEF Asserted
    <3>5. TypeOK'
      BY <1>1, <2>1, <2>3, <2>7, <3>2, <3>3, <3>4 DEF TypeOK, PartForm
    <3>6. ASSUME r.ok
          PROVE  f.ok /\ \A part \in given' : Held(f.memory, part)
      <4>1. \A p \in PageRange(r.base, count) : p \in Pages /\ a.memory[p] = Owner("initrdFile", 1)
        BY <2>3, <2>5, <3>1, <3>6 DEF Held, Part
      <4>2. f.ok
        BY <2>3, <2>5, <2>7, <3>1, <4>1, FreedAll
      <4>3. \A part \in given : Held(r.memory, part)
        BY <1>1, <1>2, <2>3, <3>6, HeldUnlessFree
      <4>4. \A part \in given' : Held(a.memory, part)
        BY <1>1, <2>3, <2>4, <2>5, <2>7, <4>3, Grown
      <4>5. \A part \in given' : part.owner # Owner("initrdFile", 1)
        BY <1>2, <2>5, <3>3 DEF GivenOwners
      <4> QED BY <3>2, <4>1, <4>2, <4>4, <4>5 DEF Held
    <3>7. AssertExplained'
      BY <1>1, <2>1, <3>4, <3>6 DEF AssertExplained
    <3>8. CASE pc' = "asserted"
      BY <3>5, <3>7, <3>8, AssertedIInv
    <3>9. CASE pc' = "CallLinux"
      <4>1. (Stage /\ ImageHeld)'
        BY <1>1, <2>7, <3>9 DEF Stage, ImageHeld
      <4>2. AllHeld'
        BY <2>1, <3>4, <3>6 DEF AllHeld
      <4>3. AllGiven'
        <5>1. GivenOwners' = {Owner("setup", 1), Owner("kernel", 1), Owner("cmdline", 1), Owner("initrd", 1)}
          BY <1>2, <3>3
        <5>2. Parts' = {Owner("setup", 1), Owner("kernel", 1), Owner("cmdline", 1), Owner("initrd", 1)}
          BY <1>1, <1>4 DEF Parts
        <5> QED BY <3>9, <5>1, <5>2 DEF AllGiven, PartsUpTo
      <4> QED BY <3>5, <3>7, <4>1, <4>2, <4>3 DEF IInv
    <3> QED BY <3>4, <3>8, <3>9
  <2> QED BY <2>1, <2>6, <2>7 DEF count
<1> QED BY <1>3, <1>4

LEMMA CallLinuxIInv == IInv /\ CallLinux => IInv'
<1> SUFFICES ASSUME IInv, CallLinux PROVE IInv'
  OBVIOUS
<1> USE DEF Steps, LinuxSteps, ElfSteps
<1>1. /\ TypeOK /\ pc = "CallLinux" /\ memory \in [Pages -> Owners]
      /\ entry.protocol = "BOOT_LINUX" /\ initrdRead \in BOOLEAN
      /\ image \in [base : {NoImage} \cup Nat, size : Nat] /\ image.base = NoImage
      /\ UNCHANGED <<entry, initrdRead, offset, next, given, attempts>>
  BY DEF CallLinux, IInv, TypeOK, Stage, ImageHeld
<1>2. CASE FailLinux(image, memory)
  BY <1>1, <1>2, FailLinuxIInv
<1>3. CASE pc' = "jumped" /\ UNCHANGED <<memory, image>>
  <2>1. TypeOK'
    BY <1>1, <1>3 DEF TypeOK
  <2>2. (Stage /\ AllHeld /\ ImageHeld /\ AssertExplained)'
    BY <1>1, <1>3 DEF IInv, Stage, AllHeld, ImageHeld, AssertExplained
  <2>3. AllGiven'
    BY <1>1, <1>3 DEF IInv, AllGiven, PartsUpTo, Parts, GivenOwners
  <2> QED BY <2>1, <2>2, <2>3 DEF IInv
<1> QED BY <1>2, <1>3 DEF CallLinux

\* An ELF loader gives up: nothing is asserted.
LEMMA ReturnIInv ==
    ASSUME TypeOK, NEW m \in [Pages -> Owners], Return(m),
           UNCHANGED <<linuxVars, entry, offset, next, given, attempts>>
    PROVE  IInv'
<1>1. TypeOK'
  BY AbandonedType DEF TypeOK, Return, linuxVars
<1> QED BY <1>1, MenuIInv DEF Return

\* What is common to the steps of the ELF loaders.
LEMMA ElfFacts ==
    ASSUME IInv, pc \in ElfSteps
    PROVE  /\ TypeOK /\ memory \in [Pages -> Owners] /\ entry \in Entries /\ next \in Nat \ {0}
           /\ entry.protocol # "BOOT_LINUX" /\ initrdRead
           /\ GivenOwners = PartsUpTo /\ \A part \in given : Held(memory, part)
           /\ entry.segments \in Seq([base : Pages, count : Nat \ {0}]) /\ entry.modules \in Seq(Nat)
           /\ Len(entry.segments) \in Nat /\ Len(entry.modules) \in Nat
           /\ offset \in Int
<1>1. /\ TypeOK /\ memory \in [Pages -> Owners] /\ entry \in Entries /\ next \in Nat \ {0} /\ offset \in Int
  BY LoadingAssumption DEF IInv, TypeOK
<1>2. entry.protocol # "BOOT_LINUX" /\ initrdRead
  BY DEF IInv, Stage, Steps, ElfSteps
<1>3. GivenOwners = PartsUpTo /\ \A part \in given : Held(memory, part)
  BY <1>2 DEF IInv, AllGiven, AllHeld, Steps
<1>4. entry.segments \in Seq([base : Pages, count : Nat \ {0}]) /\ entry.modules \in Seq(Nat)
  BY <1>1, EntryFacts
<1> QED BY <1>1, <1>2, <1>3, <1>4

LEMMA LoadSegmentIInv == IInv /\ LoadSegment => IInv'
<1> SUFFICES ASSUME IInv, LoadSegment PROVE IInv'
  OBVIOUS
<1> DEFINE segment == entry.segments[next]
           owner == Owner("segment", next)
<1>1. /\ pc = "LoadElf" /\ pc \in ElfSteps /\ next <= Len(entry.segments)
      /\ UNCHANGED <<linuxVars, entry, offset, attempts>>
  BY DEF LoadSegment, ElfSteps
<1>2. /\ TypeOK /\ memory \in [Pages -> Owners] /\ next \in Nat \ {0} /\ entry.protocol # "BOOT_LINUX"
      /\ initrdRead /\ GivenOwners = PartsUpTo /\ \A part \in given : Held(memory, part)
      /\ segment \in [base : Pages, count : Nat \ {0}] /\ segment.count \in Nat
      /\ owner \in ModuleOwners /\ owner \in Owners /\ PageCount \in Nat
  <2> DEFINE forms == [base : Pages, count : Nat \ {0}]
  <2>1. segment \in [base : Pages, count : Nat \ {0}]
    <3>1. entry.segments \in Seq(forms) /\ Len(entry.segments) \in Nat /\ next \in Nat \ {0}
      BY <1>1, ElfFacts
    <3>2. next \in 1 .. Len(entry.segments)
      BY <1>1, <3>1
    <3> HIDE DEF forms
    <3>3. entry.segments[next] \in forms
      BY <3>1, <3>2
    <3> QED BY <3>3 DEF forms
  <2>2. owner \in ModuleOwners /\ owner \in Owners /\ PageCount \in Nat
    BY <1>1, ElfFacts, OwnerFacts, LoadingAssumption DEF Kinds
  <2> HIDE DEF segment, owner
  <2>3. segment.count \in Nat
    BY <2>1
  <2> QED BY <1>1, <2>1, <2>2, <2>3, ElfFacts
<1>3. PICK a \in AllocationsAt(memory, owner, segment.count, segment.base + offset) :
        \/ Return(a.memory) /\ UNCHANGED <<next, given>>
        \/ /\ memory' = a.memory /\ next' = next + 1
           /\ given' = given \cup {Part(owner, a.base, segment.count)}
           /\ UNCHANGED pc
  BY DEF LoadSegment
<1>4. a \in Allocations(memory, owner, segment.count, PageCount)
  BY <1>3, AllocatedAt
<1> HIDE DEF segment, owner
<1>5. CASE Return(a.memory) /\ UNCHANGED <<next, given>>
  <2>1. a.memory \in [Pages -> Owners]
    BY <1>2, <1>4, Allocated
  <2> QED BY <1>1, <1>2, <1>5, <2>1, ReturnIInv
<1>6. CASE /\ memory' = a.memory /\ next' = next + 1
           /\ given' = given \cup {Part(owner, a.base, segment.count)}
           /\ UNCHANGED pc
  <2>1. /\ a.memory \in [Pages -> Owners]
        /\ GivenOwners' = GivenOwners \cup {owner} /\ given' \subseteq PartForm
        /\ \A part \in given' : Held(a.memory, part)
    BY <1>2, <1>4, <1>6, Grown
  <2>2. TypeOK'
    BY <1>1, <1>2, <1>6, <2>1 DEF TypeOK, PartForm, linuxVars
  <2>3. Stage'
    BY <1>1, <1>2, <1>6, ElfFacts DEF IInv, Stage, Steps, LinuxSteps, ElfSteps, linuxVars
  <2>4. (AllHeld /\ ImageHeld /\ AssertExplained)'
    BY <1>1, <1>6, <2>1 DEF AllHeld, ImageHeld, AssertExplained
  <2>5. AllGiven'
    <3>1. next' - 1 = next /\ FirstOwners("segment", next) = FirstOwners("segment", next - 1) \cup {owner}
      BY <1>2, <1>6, FirstOwnersNext DEF owner
    <3> QED BY <1>1, <1>2, <1>6, <2>1, <3>1 DEF AllGiven, PartsUpTo
  <2> QED BY <2>2, <2>3, <2>4, <2>5 DEF IInv
<1> QED BY <1>3, <1>5, <1>6

LEMMA LoadModuleIInv == IInv /\ LoadModule => IInv'
<1> SUFFICES ASSUME IInv, LoadModule PROVE IInv'
  OBVIOUS
<1> DEFINE size == entry.modules[next]
           owner == Owner("module", next)
<1>1. /\ pc = "LoadModules" /\ pc \in ElfSteps /\ next <= Len(entry.modules)
      /\ UNCHANGED <<linuxVars, entry, offset, attempts>>
  BY DEF LoadModule, ElfSteps
<1>2. /\ TypeOK /\ memory \in [Pages -> Owners] /\ next \in Nat \ {0} /\ entry.protocol # "BOOT_LINUX"
      /\ initrdRead /\ GivenOwners = PartsUpTo /\ \A part \in given : Held(memory, part)
      /\ size \in Nat /\ owner \in ModuleOwners
  BY <1>1, ElfFacts, OwnerFacts DEF Kinds
<1>3. PICK r \in ModuleResults(memory, owner, size, 0) :
        IF r.ok THEN /\ memory' = r.memory /\ next' = next + 1
                     /\ given' = given \cup {Part(owner, r.base, ToPages(size))}
                     /\ UNCHANGED pc
        ELSE Return(r.memory) /\ UNCHANGED <<next, given>>
  BY DEF LoadModule
<1> HIDE DEF size, owner
<1>4. ModuleOutcome(memory, owner, size, 0, r)
  BY <1>2, ModuleResult
<1>5. CASE ~r.ok
  <2>1. r.memory \in [Pages -> Owners]
    BY <1>4 DEF ModuleOutcome
  <2> QED BY <1>1, <1>2, <1>3, <1>5, <2>1, ReturnIInv
<1>6. CASE r.ok
  <2> DEFINE count == ToPages(size)
  <2>1. /\ r.memory \in [Pages -> Owners] /\ r.base \in Pages /\ count > 0
        /\ Held(r.memory, Part(owner, r.base, count))
        /\ \A p \in Pages : memory[p] # Free => r.memory[p] = memory[p]
    BY <1>4, <1>6 DEF ModuleOutcome
  <2>2. count \in Nat
    BY <1>2, PagesOfSize
  <2>3. /\ memory' = r.memory /\ next' = next + 1 /\ pc' = pc
        /\ given' = given \cup {Part(owner, r.base, count)}
    BY <1>3, <1>6
  <2> HIDE DEF count
  <2>4. \A part \in given : Held(r.memory, part)
    BY <1>2, <2>1, HeldUnlessFree
  <2>5. count \in Nat \ {0}
    BY <2>1, <2>2
  <2>6. /\ GivenOwners' = GivenOwners \cup {owner} /\ given' \subseteq PartForm
        /\ \A part \in given' : Held(r.memory, part)
    BY <1>2, <2>1, <2>3, <2>4, <2>5, GivenMore
  <2>7. TypeOK'
    BY <1>1, <1>2, <2>1, <2>3, <2>6 DEF TypeOK, PartForm, linuxVars
  <2>8. Stage'
    BY <1>1, <1>2, <2>3, ElfFacts DEF IInv, Stage, Steps, LinuxSteps, ElfSteps, linuxVars
  <2>9. (AllHeld /\ ImageHeld /\ AssertExplained)'
    BY <1>1, <2>3, <2>6 DEF AllHeld, ImageHeld, AssertExplained
  <2>10. AllGiven'
    <3>1. next' - 1 = next /\ FirstOwners("module", next) = FirstOwners("module", next - 1) \cup {owner}
      BY <1>2, <2>3, FirstOwnersNext DEF owner
    <3> QED BY <1>1, <1>2, <2>3, <2>6, <3>1 DEF AllGiven, PartsUpTo
  <2> QED BY <2>7, <2>8, <2>9, <2>10 DEF IInv
<1> QED BY <1>5, <1>6

\* A loop that ends has given all there is of its kind.
LEMMA LoadedIInv == IInv /\ Loaded => IInv'
<1> SUFFICES ASSUME IInv, Loaded PROVE IInv'
  OBVIOUS
<1>1. /\ pc \in {"LoadElf", "LoadModules"} /\ pc \in ElfSteps /\ next' = 1
      /\ pc = "LoadElf" => next > Len(entry.segments)
      /\ pc = "LoadModules" => next > Len(entry.modules)
      /\ pc' = IF pc = "LoadElf" THEN IF entry.protocol = "BOOT_MB2" THEN "HandOff" ELSE "LoadModules"
               ELSE IF entry.protocol = "BOOT_MB2" THEN "LoadElf" ELSE "HandOff"
      /\ UNCHANGED <<linuxVars, memory, entry, offset, given, attempts>>
  BY DEF Loaded, ElfSteps
<1>2. /\ TypeOK /\ next \in Nat \ {0} /\ entry.protocol # "BOOT_LINUX"
      /\ initrdRead /\ GivenOwners = PartsUpTo /\ \A part \in given : Held(memory, part)
      /\ Len(entry.segments) \in Nat /\ Len(entry.modules) \in Nat
      /\ DOMAIN entry.segments = 1 .. Len(entry.segments) /\ DOMAIN entry.modules = 1 .. Len(entry.modules)
  BY <1>1, ElfFacts
<1>3. TypeOK'
  BY <1>1, <1>2 DEF TypeOK, ElfSteps, linuxVars
<1>4. Stage'
  BY <1>1, <1>2, ElfFacts DEF IInv, Stage, Steps, LinuxSteps, ElfSteps, linuxVars
<1>5. (AllHeld /\ ImageHeld /\ AssertExplained)'
  BY <1>1, <1>2 DEF AllHeld, ImageHeld, AssertExplained
<1>6. AllGiven'
  <2>1. /\ pc = "LoadElf" => next - 1 = Len(entry.segments)
        /\ pc = "LoadModules" => next - 1 = Len(entry.modules)
    BY <1>1, <1>2 DEF IInv, Stage
  <2>2. Parts = FirstOwners("segment", Len(entry.segments)) \cup FirstOwners("module", Len(entry.modules))
    BY <1>2 DEF Parts, FirstOwners
  <2>3. GivenOwners' = GivenOwners /\ Parts' = Parts /\ next' - 1 = 0 /\ entry' = entry
    BY <1>1 DEF GivenOwners, Parts
  <2>4. \A kind : FirstOwners(kind, 0) = {}
    BY DEF FirstOwners
  <2>5. CASE pc = "LoadElf"
    BY <1>1, <1>2, <2>1, <2>2, <2>3, <2>4, <2>5 DEF AllGiven, PartsUpTo
  <2>6. CASE pc = "LoadModules"
    BY <1>1, <1>2, <2>1, <2>2, <2>3, <2>4, <2>6 DEF AllGiven, PartsUpTo
  <2> QED BY <1>1, <2>5, <2>6
<1> QED BY <1>3, <1>4, <1>5, <1>6 DEF IInv

LEMMA HandOffIInv == IInv /\ HandOff => IInv'
<1> SUFFICES ASSUME IInv, HandOff PROVE IInv'
  OBVIOUS
<1>1. /\ pc = "HandOff" /\ pc' = "jumped"
      /\ UNCHANGED <<linuxVars, memory, entry, offset, next, given, attempts>>
  BY DEF HandOff
<1>2. TypeOK'
  BY <1>1 DEF IInv, TypeOK, linuxVars
<1>3. (Stage /\ AllHeld /\ ImageHeld /\ AssertExplained)'
  BY <1>1 DEF IInv, Stage, AllHeld, ImageHeld, AssertExplained, Steps, LinuxSteps, ElfSteps, linuxVars
<1>4. AllGiven'
  <2>1. GivenOwners = Parts
    BY <1>1 DEF IInv, AllGiven, PartsUpTo, Steps, ElfSteps
  <2> QED BY <1>1, <2>1 DEF AllGiven, PartsUpTo, Parts, GivenOwners
<1> QED BY <1>2, <1>3, <1>4 DEF IInv

\* Every step of every loader preserves the invariant.
THEOREM StepIInv == IInv /\ [Next]_vars => IInv'
<1> SUFFICES ASSUME IInv, [Next]_vars PROVE IInv'
  OBVIOUS
<1>1. CASE FailElf
  <2>1. TypeOK /\ memory \in [Pages -> Owners] /\ Return(memory)
        /\ UNCHANGED <<linuxVars, entry, offset, next, given, attempts>>
    BY <1>1 DEF FailElf, IInv, TypeOK
  <2> QED BY <2>1, ReturnIInv
<1>2. CASE UNCHANGED vars
  <2> USE <1>2 DEF vars
  <2>1. (TypeOK /\ Stage /\ AllHeld /\ ImageHeld /\ AssertExplained)'
    BY DEF IInv, TypeOK, Stage, AllHeld, ImageHeld, AssertExplained
  <2>2. GivenOwners' = GivenOwners /\ PartsUpTo' = PartsUpTo
    BY DEF GivenOwners, PartsUpTo, Parts
  <2>3. AllGiven'
    BY <2>2 DEF IInv, AllGiven
  <2> QED BY <2>1, <2>3 DEF IInv
<1>3. CASE LoadKernel \/ LoadImage \/ LoadSetup \/ LoadKernelBuf \/ LoadCommandLine \/ LoadInitrd \/ CallLinux
  BY <1>3, LoadKernelIInv, LoadImageIInv, LoadSetupIInv, LoadKernelBufIInv, LoadCommandLineIInv, LoadInitrdIInv,
     CallLinuxIInv
<1>4. CASE LoadSegment \/ LoadModule \/ Loaded \/ HandOff
  BY <1>4, LoadSegmentIInv, LoadModuleIInv, LoadedIInv, HandOffIInv
<1> QED BY <1>1, <1>2, <1>3, <1>4 DEF Next

-----------------------------------------------------------------------------
\* In every reachable state the inductive invariant holds.
THEOREM Invariance == Spec => []IInv
  BY InitIInv, StepIInv, PTL DEF Spec

\* Every variable keeps its type; no size becomes negative.
THEOREM TypeCorrect == Spec => []TypeOK
<1>1. IInv => TypeOK
  BY DEF IInv
<1> QED BY <1>1, Invariance, PTL

\* A kernel is entered with all its parts, each in the pages that were allocated for it,
\* unless its initrd could not be read.
THEOREM KernelIntact == Spec => []Intact
<1>1. IInv => Intact
  <2> SUFFICES ASSUME IInv, pc = "jumped", initrdRead
               PROVE  /\ {part.owner : part \in given} = Parts
                      /\ \A part \in given : \A p \in PageRange(part.base, part.count) : memory[p] = part.owner
    BY DEF Intact
  <2>1. GivenOwners = Parts
    BY DEF IInv, AllGiven, PartsUpTo
  <2>2. \A part \in given : Held(memory, part)
    BY DEF IInv, AllHeld
  <2> QED BY <2>1, <2>2 DEF GivenOwners, Held
<1> QED BY <1>1, Invariance, PTL

\* A free that is asserted to succeed fails only in the linux loader, when it gives up
\* before the kernel is in place or after an initrd it could not load.
THEOREM AssertsExplained == Spec => []AssertExplained
<1>1. IInv => AssertExplained
  BY DEF IInv
<1> QED BY <1>1, Invariance, PTL

-----------------------------------------------------------------------------
(* Where the files are that are copied and freed.                          *)

NoneOf(m, kind) == \A p \in Pages : m[p].kind # kind
ImageWithin(base, count) == \A p \in Pages : memory[p].kind = "image" => p \in PageRange(base, count)

\* The pages of the setup in the kernel file: KernelSize is without them when the file
\* is freed.
SetupPages == ToPages(entry.size) - ToPages(entry.size - entry.setup)

\* The kernel file is in the pages allocated for it, and later in those of them that
\* were not freed; the initrd's file is nowhere between two steps.
FilesHeld ==
    /\ pc # "asserted" => NoneOf(memory, "initrdFile")
    /\ pc \in {"menu", "LoadImage"} \cup ElfSteps => NoneOf(memory, "image")
    /\ pc = "LoadSetup" => image.size = entry.size
    /\ pc = "LoadKernelBuf" => image.size = entry.size - entry.setup
    /\ pc \in {"LoadSetup", "LoadKernelBuf"} => ImageWithin(image.base, ToPages(entry.size))
    /\ pc \in {"LoadCommandLine", "LoadInitrd", "CallLinux", "jumped"} =>
            \E b \in Int : ImageWithin(b, SetupPages)

\* FreePages leaves a page as it is or free; if it succeeds, all of its range is.
LEMMA FreedPages ==
    ASSUME NEW m \in [Pages -> Owners], NEW base \in Int, NEW count \in Nat,
           NEW r \in FreeResults(m, base, count)
    PROVE  /\ \A p \in Pages : r.memory[p] \in {m[p], Free}
           /\ r.ok => \A p \in Pages : p \in PageRange(base, count) => r.memory[p] = Free
<1> DEFINE freed(n) == [p \in Pages |-> IF p \in PageRange(base, n) THEN Free ELSE m[p]]
           allocated(n) == \A p \in PageRange(base, n) : p \in Pages /\ m[p] # Free
<1>1. CASE count > 0 /\ allocated(count)
  <2>1. r = [ok |-> TRUE, memory |-> freed(count)]
    BY <1>1 DEF FreeResults
  <2> QED BY <2>1
<1>2. CASE ~(count > 0 /\ allocated(count))
  <2>1. PICK n \in 0 .. count : r = [ok |-> FALSE, memory |-> freed(n)]
    BY <1>2 DEF FreeResults
  <2>2. r.memory = freed(n) /\ r.ok = FALSE
    BY <2>1
  <2> QED BY <2>2
<1> QED BY <1>1, <1>2

\* LoadBootModule leaves a page as it is or free, but for those of a module it loaded.
LEMMA ModulePages ==
    ASSUME NEW m \in [Pages -> Owners], NEW owner \in ModuleOwners, NEW size \in Nat, NEW base \in Int,
           NEW r \in ModuleResults(m, owner, size, base)
    PROVE  \A p \in Pages :
              \/ r.memory[p] \in {m[p], Free}
              \/ (r.ok /\ r.memory[p] = owner /\ p \in PageRange(r.base, ToPages(size)))
<1> DEFINE count == ToPages(size)
<1>1. count \in Nat /\ FourGB \in Nat /\ owner \in Owners /\ owner # Free
  BY PagesOfSize, LoadingAssumption, OwnerFacts
<1>2. CASE r \in NotSized(m, base)
  <2>1. r.memory = m
    BY <1>2 DEF NotSized, Outcome
  <2> QED BY <2>1
<1>3. CASE r \in NoPages(m, size)
  <2>1. PICK f \in FreeResults(m, FourGB, count) : r.memory = f.memory
    BY <1>3 DEF NoPages, Cleanup, Outcome
  <2> QED BY <1>1, <2>1, FreedPages
<1>4. ASSUME NEW a \in Taken(m, owner, size), r \in Unread(a, size)
      PROVE  \A p \in Pages : r.memory[p] \in {m[p], Free}
  <2>1. PICK f \in FreeResults(a.memory, a.base, count) : r.memory = f.memory
    BY <1>4 DEF Unread, Cleanup, Outcome
  <2>2. /\ a.memory \in [Pages -> Owners] /\ a.base \in Pages /\ a.base \in Int /\ count \in Nat \ {0}
        /\ Held(a.memory, Part(owner, a.base, count))
        /\ \A p \in Pages : p \notin PageRange(a.base, count) => a.memory[p] = m[p]
    BY <1>1, Allocated, PagesAreNumbers DEF Taken
  <2>3. \A p \in PageRange(a.base, count) : p \in Pages /\ a.memory[p] # Free
    BY <1>1, <2>2 DEF Held, Part
  <2>4. \A p \in Pages : p \in PageRange(a.base, count) => f.memory[p] = Free
    BY <2>1, <2>2, <2>3, FreedAll
  <2>5. \A p \in Pages : f.memory[p] \in {a.memory[p], Free}
    BY <2>1, <2>2, FreedPages
  <2> QED BY <2>1, <2>2, <2>4, <2>5
<1>5. ASSUME NEW a \in Taken(m, owner, size), r = Outcome(TRUE, a.base, size, a.memory)
      PROVE  \A p \in Pages :
                \/ r.memory[p] = m[p]
                \/ (r.ok /\ r.memory[p] = owner /\ p \in PageRange(r.base, count))
  <2>1. r.memory = a.memory /\ r.ok = TRUE /\ r.base = a.base
    BY <1>5 DEF Outcome
  <2>2. /\ Held(a.memory, Part(owner, a.base, count))
        /\ \A p \in Pages : p \notin PageRange(a.base, count) => a.memory[p] = m[p]
    BY <1>1, Allocated DEF Taken
  <2> QED BY <2>1, <2>2 DEF Held, Part
<1> QED BY <1>2, <1>3, <1>4, <1>5, ModuleCases

\* An allocation adds pages of its owner's kind only.
LEMMA AllocatedPages ==
    ASSUME NEW m \in [Pages -> Owners], NEW owner \in Owners, NEW count \in Nat, NEW limit \in Nat,
           NEW a \in Allocations(m, owner, count, limit)
    PROVE  \A p \in Pages : a.memory[p] \in {m[p], owner}
  BY Allocated DEF Held, Part

\* What an attempt that ends leaves is no file.
LEMMA AbandonedPages ==
    ASSUME NEW m \in [Pages -> Owners]
    PROVE  \A p \in Pages :
              /\ Abandoned(m)[p] \in {Free, Firmware, Leaked}
              /\ m[p] \in {Free, Firmware, Leaked} => Abandoned(m)[p] = m[p]
  BY DEF Abandoned

\* An attempt has ended, with or without an assertion.
Ended == pc' \in {"menu", "asserted"} /\ (pc' = "menu" => \E m \in [Pages -> Owners] : memory' = Abandoned(m))

LEMMA EndedFiles == Ended => FilesHeld'
<1> SUFFICES ASSUME Ended PROVE FilesHeld'
  OBVIOUS
<1>1. pc' = "menu" => NoneOf(memory', "initrdFile") /\ NoneOf(memory', "image")
  <2> SUFFICES ASSUME pc' = "menu" PROVE \A p \in Pages : memory'[p].kind \notin {"initrdFile", "image"}
    BY DEF NoneOf
  <2>1. PICK m \in [Pages -> Owners] : memory' = Abandoned(m)
    BY DEF Ended
  <2>2. \A p \in Pages : Abandoned(m)[p] \in {Free, Firmware, Leaked}
    BY AbandonedPages
  <2>3. \A p \in Pages : memory'[p] \in {Free, Firmware, Leaked}
    BY ONLY <2>1, <2>2
  <2>4. \A o \in {Free, Firmware, Leaked} : o.kind \in {"free", "firmware", "leaked"}
    BY DEF Free, Firmware, Leaked, Owner
  <2> QED BY <2>3, <2>4
<1> QED BY <1>1 DEF Ended, FilesHeld, ElfSteps, NoneOf

LEMMA FailLinuxEnded ==
    ASSUME NEW img \in [base : {NoImage} \cup Nat, size : Nat], NEW m \in [Pages -> Owners], FailLinux(img, m)
    PROVE  Ended
<1>1. CASE Return(m)
  BY <1>1 DEF Return, Ended
<1>2. CASE img.base # NoImage
  <2>1. PICK r \in FreeResults(m, img.base, img.size) :
           IF r.ok THEN Return(r.memory) ELSE Asserted(r.memory)
    BY <1>2 DEF FailLinux
  <2>2. r.memory \in [Pages -> Owners]
    BY <1>2, Freed
  <2> QED BY <2>1, <2>2 DEF Return, Asserted, Ended
<1> QED BY <1>1, <1>2 DEF FailLinux

\* The later steps of the linux loader take no pages for files.
LEMMA FilesKept ==
    ASSUME FilesHeld, pc \in {"LoadCommandLine", "LoadInitrd", "CallLinux"},
           pc' \in {"LoadInitrd", "CallLinux", "jumped"}, entry' = entry,
           \A p \in Pages : memory'[p].kind \in {"image", "initrdFile"} => memory'[p] = memory[p]
    PROVE  FilesHeld'
<1>1. NoneOf(memory, "initrdFile") /\ SetupPages' = SetupPages
  BY DEF FilesHeld, SetupPages
<1>2. PICK b \in Int : \A p \in Pages : memory[p].kind = "image" => p \in PageRange(b, SetupPages)
  BY DEF FilesHeld, ImageWithin
<1>3. \A p \in Pages : memory'[p].kind # "initrdFile"
  BY <1>1 DEF NoneOf
<1>4. \A p \in Pages : memory'[p].kind = "image" => p \in PageRange(b, SetupPages')
  BY <1>1, <1>2
<1>5. ImageWithin(b, SetupPages)'
  BY <1>4 DEF ImageWithin
<1> QED BY <1>3, <1>5 DEF FilesHeld, NoneOf, ElfSteps

\* Every step keeps the files where they are, and LoadKernelBuf frees the kernel file but
\* for the pages of the setup.
LEMMA StepFiles == IInv /\ FilesHeld /\ [Next]_vars => FilesHeld'
<1> SUFFICES ASSUME IInv, FilesHeld, [Next]_vars PROVE FilesHeld'
  OBVIOUS
<1> USE DEF ElfSteps
<1>1. /\ memory \in [Pages -> Owners] /\ entry \in Entries /\ entry.size \in Nat /\ entry.setup \in Nat \ {0}
      /\ image \in [base : {NoImage} \cup Nat, size : Nat]
  BY EntryFacts DEF IInv, TypeOK
<1>2. \A kind \in Kinds, n \in Nat :
        /\ Owner(kind, n) \in ModuleOwners /\ Owner(kind, n) \in Owners
        /\ Owner(kind, n).kind = kind /\ Free.kind \notin Kinds
  BY OwnerFacts DEF Owner, Free, Kinds
<1>3. CASE LoadKernel
  <2>1. PICK e \in Entries : pc' = FirstStep(e.protocol)
    BY <1>3 DEF LoadKernel
  <2>2. pc' \in {"LoadImage", "LoadModules", "LoadElf", "menu"}
    <3>1. e.protocol \in Protocols
      BY EntryFacts
    <3> QED BY <2>1, <3>1, Zenon DEF FirstStep, Protocols
  <2>3. pc = "menu" /\ memory' = memory
    BY <1>3 DEF LoadKernel
  <2> QED BY <2>2, <2>3 DEF FilesHeld, NoneOf
<1>4. CASE LoadImage
  <2> DEFINE owner == Owner("image", 1)
  <2>1. PICK r \in ModuleResults(memory, owner, entry.size, NoImage) :
           LET img == [base |-> r.base, size |-> r.size]
           IN  IF r.ok THEN pc' = "LoadSetup" /\ memory' = r.memory /\ image' = img
               ELSE FailLinux(img, r.memory)
    BY <1>4 DEF LoadImage
  <2>2. owner \in ModuleOwners /\ owner.kind = "image" /\ NoImage \in Int
    BY <1>2 DEF Kinds, NoImage
  <2> HIDE DEF owner
  <2>3. ModuleOutcome(memory, owner, entry.size, NoImage, r)
    BY <1>1, <2>1, <2>2, ModuleResult
  <2>4. CASE ~r.ok
    <3> DEFINE img == [base |-> r.base, size |-> r.size]
    <3>1. img \in [base : {NoImage} \cup Nat, size : Nat] /\ r.memory \in [Pages -> Owners]
      BY <2>3, PagesAreNumbers, LoadingAssumption DEF ModuleOutcome
    <3>2. FailLinux(img, r.memory)
      BY <2>1, <2>4
    <3> QED BY <3>1, <3>2, FailLinuxEnded, EndedFiles
  <2>5. CASE r.ok
    <3>1. pc' = "LoadSetup" /\ memory' = r.memory /\ entry' = entry
          /\ image'.base = r.base /\ image'.size = entry.size
      BY <1>4, <2>1, <2>3, <2>5 DEF LoadImage, ModuleOutcome
    <3>2. NoneOf(memory, "image") /\ NoneOf(memory, "initrdFile")
      BY <1>4 DEF LoadImage, FilesHeld
    <3>3. \A p \in Pages :
            \/ r.memory[p] \in {memory[p], Free}
            \/ (r.memory[p] = owner /\ p \in PageRange(r.base, ToPages(entry.size)))
      BY <1>1, <2>1, <2>2, ModulePages
    <3>4. NoneOf(memory', "initrdFile") /\ ImageWithin(image.base, ToPages(entry.size))'
      BY <1>2, <2>2, <3>1, <3>2, <3>3 DEF NoneOf, ImageWithin, Kinds
    <3> QED BY <3>1, <3>4 DEF FilesHeld, NoneOf
  <2> QED BY <2>4, <2>5
<1>5. CASE LoadSetup
  <2> DEFINE rest == [image EXCEPT !.size = image.size - entry.setup]
             owner == Owner("setup", 1)
             count == ToPages(entry.setup)
  <2>1. SetupFits => rest \in [base : {NoImage} \cup Nat, size : Nat]
    BY <1>1 DEF SetupFits
  <2>2. owner \in Owners /\ owner.kind = "setup" /\ count \in Nat /\ OneGB \in Nat
    BY <1>1, <1>2, PagesOfSize, LoadingAssumption DEF Kinds
  <2>3. CASE FailLinux(image, memory)
    BY <1>1, <2>3, FailLinuxEnded, EndedFiles
  <2>4. CASE SetupFits /\ FailLinux(rest, memory)
    BY <1>1, <2>1, <2>4, FailLinuxEnded, EndedFiles
  <2>5. ASSUME SetupFits, NEW a \in Allocations(memory, owner, count, OneGB),
               \/ FailLinux(rest, a.memory)
               \/ pc' = "LoadKernelBuf" /\ memory' = a.memory /\ image' = rest
        PROVE  FilesHeld'
    <3>1. a.memory \in [Pages -> Owners] /\ \A p \in Pages : a.memory[p] \in {memory[p], owner}
      BY <1>1, <2>2, <2>5, Allocated, AllocatedPages
    <3>2. CASE FailLinux(rest, a.memory)
      BY <2>1, <2>5, <3>1, <3>2, FailLinuxEnded, EndedFiles
    <3>3. CASE pc' = "LoadKernelBuf" /\ memory' = a.memory /\ image' = rest
      <4>1. /\ image.size = entry.size /\ ImageWithin(image.base, ToPages(entry.size))
            /\ NoneOf(memory, "initrdFile") /\ entry' = entry
        BY <1>5 DEF LoadSetup, FilesHeld
      <4>2. image'.base = image.base /\ image'.size = entry.size - entry.setup
        BY <1>1, <3>3, <4>1
      <4>3. NoneOf(memory', "initrdFile") /\ ImageWithin(image.base, ToPages(entry.size))'
        BY <2>2, <3>1, <3>3, <4>1, <4>2 DEF NoneOf, ImageWithin
      <4> QED BY <3>3, <4>1, <4>2, <4>3 DEF FilesHeld, NoneOf
    <3> QED BY <2>5, <3>2, <3>3
  <2> QED BY <1>5, <2>3, <2>4, <2>5 DEF LoadSetup
<1>6. CASE LoadKernelBuf
  <2> DEFINE owner == Owner("kernel", 1)
             count == ToPages(KernelInitialSize)
             total == ToPages(entry.size)
             rest == ToPages(entry.size - entry.setup)
  <2>1. /\ image.base \in Pages /\ image.base \in Int /\ image.size > 0
        /\ Held(memory, Part(Owner("image", 1), image.base, ToPages(image.size)))
    BY <1>6, PagesAreNumbers DEF LoadKernelBuf, IInv, ImageHeld
  <2>2. /\ PagesOfImage \in Nat \ {0} /\ PagesOfImage = rest /\ image.size = entry.size - entry.setup
        /\ ImageWithin(image.base, total) /\ NoneOf(memory, "initrdFile") /\ entry' = entry
        /\ total \in Nat
    BY <1>1, <1>6, <2>1, PagesOfSize DEF LoadKernelBuf, FilesHeld, PagesOfImage
  <2>3. owner \in Owners /\ owner.kind = "kernel" /\ count \in Nat /\ PageCount \in Nat
    <3>1. KernelInitialSize \in Nat
      BY <1>1, EntryFacts DEF KernelInitialSize, NoInitSize
    <3> QED BY <1>2, <3>1, PagesOfSize, LoadingAssumption DEF Kinds
  <2>4. CASE FailLinux(image, memory)
    BY <1>1, <2>4, FailLinuxEnded, EndedFiles
  <2>5. ASSUME NEW a \in KernelAllocations(memory, count),
               NEW r \in FreeResults(a.memory, image.base, PagesOfImage),
               IF r.ok THEN /\ pc' = "LoadCommandLine" /\ memory' = r.memory
                            /\ image' = [image EXCEPT !.base = ForgetImage]
               ELSE Asserted(r.memory) /\ UNCHANGED image
        PROVE  FilesHeld'
    <3>1. a \in Allocations(memory, owner, count, PageCount)
      BY <2>5, AllocatedAt DEF KernelAllocations
    <3>2. a.memory \in [Pages -> Owners] /\ \A p \in Pages : a.memory[p] \in {memory[p], owner}
      BY <1>1, <2>3, <3>1, Allocated, AllocatedPages
    <3>3. \A p \in Pages : r.memory[p] \in {a.memory[p], Free}
      BY <2>1, <2>2, <2>5, <3>2, FreedPages
    <3>4. r.ok => \A p \in Pages : p \in PageRange(image.base, PagesOfImage) => r.memory[p] = Free
      BY <2>1, <2>2, <2>5, <3>2, FreedPages
    <3>5. CASE r.ok
      <4>1. pc' = "LoadCommandLine" /\ memory' = r.memory
        BY <2>5, <3>5
      <4>2. NoneOf(memory', "initrdFile")
        BY <1>2, <2>2, <2>3, <3>2, <3>3, <4>1 DEF NoneOf, Kinds
      <4>3. \A p \in Pages : memory'[p].kind = "image" =>
                p \in PageRange(image.base, total) /\ p \notin PageRange(image.base, rest)
        BY <1>2, <2>2, <2>3, <3>2, <3>3, <3>4, <3>5, <4>1 DEF ImageWithin, Kinds
      <4>4. image.base + rest \in Int /\ rest \in Nat
        BY <2>1, <2>2
      <4>5. \A p \in Pages : p \in PageRange(image.base, total) /\ p \notin PageRange(image.base, rest) =>
                p \in PageRange(image.base + rest, total - rest)
        BY <2>1, <2>2, <4>4, PagesAreNumbers DEF PageRange
      <4>6. SetupPages' = total - rest
        BY <2>2 DEF SetupPages
      <4>7. \E b \in Int : \A p \in Pages : memory'[p].kind = "image" => p \in PageRange(b, total - rest)
        BY <4>3, <4>4, <4>5
      <4> HIDE DEF total, rest
      <4> QED BY <4>1, <4>2, <4>6, <4>7 DEF FilesHeld, ImageWithin, NoneOf
    <3>6. CASE ~r.ok
      <4>1. pc' = "asserted"
        BY <2>5, <3>6 DEF Asserted
      <4> QED BY <4>1 DEF FilesHeld
    <3> QED BY <3>5, <3>6
  <2> QED BY <1>6, <2>4, <2>5 DEF LoadKernelBuf
<1>7. CASE LoadCommandLine
  <2> DEFINE owner == Owner("cmdline", 1)
  <2>1. owner \in Owners /\ owner.kind = "cmdline" /\ CommandLineLimit \in Nat
    BY <1>2, LoadingAssumption DEF Kinds
  <2>2. CASE FailLinux(image, memory)
    BY <1>1, <2>2, FailLinuxEnded, EndedFiles
  <2>3. ASSUME NEW a \in Allocations(memory, owner, 1, CommandLineLimit),
               FailLinux(image, a.memory) \/ (pc' = "LoadInitrd" /\ memory' = a.memory)
        PROVE  FilesHeld'
    <3>1. a.memory \in [Pages -> Owners] /\ \A p \in Pages : a.memory[p] \in {memory[p], owner}
      BY <1>1, <2>1, <2>3, Allocated, AllocatedPages
    <3>2. CASE FailLinux(image, a.memory)
      BY <1>1, <3>1, <3>2, FailLinuxEnded, EndedFiles
    <3>3. CASE pc' = "LoadInitrd" /\ memory' = a.memory
      <4>1. \A p \in Pages : memory'[p].kind \in {"image", "initrdFile"} => memory'[p] = memory[p]
        BY <2>1, <3>1, <3>3
      <4> QED BY <1>7, <3>3, <4>1, FilesKept DEF LoadCommandLine
    <3> QED BY <2>3, <3>2, <3>3
  <2> QED BY <1>7, <2>2, <2>3 DEF LoadCommandLine
<1>8. CASE LoadInitrd
  <2>1. CASE pc' = "CallLinux" /\ memory' = memory
    BY <1>8, <2>1, FilesKept DEF LoadInitrd
  <2>2. CASE entry.modules # <<>>
    <3> DEFINE file == Owner("initrdFile", 1)
               owner == Owner("initrd", 1)
               size == entry.modules[1]
    <3>1. /\ file \in ModuleOwners /\ file.kind = "initrdFile" /\ owner \in Owners /\ owner.kind = "initrd"
          /\ NoImage \in Int
      BY <1>2 DEF Kinds, NoImage
    <3>2. size \in Nat /\ entry.ramdiskMax \in Nat
      BY <1>1, <2>2, EntryFacts, LoadingAssumption
    <3>3. PICK r \in ModuleResults(memory, file, size, NoImage) :
             \/ FailLinux(image, r.memory)
             \/ \E a \in Allocations(r.memory, owner, ToPages(r.size), entry.ramdiskMax) :
                  \E f \in FreeResults(a.memory, r.base, ToPages(r.size)) :
                     IF f.ok THEN pc' = "CallLinux" /\ memory' = f.memory
                     ELSE Asserted(f.memory)
      BY <1>8, <2>2 DEF LoadInitrd
    <3> HIDE DEF file, owner, size
    <3>4. /\ r.memory \in [Pages -> Owners] /\ r.ok \in BOOLEAN /\ ToPages(r.size) \in Nat /\ r.base \in Int
          /\ r.ok => r.size = size
      <4>1. ModuleOutcome(memory, file, size, NoImage, r)
        BY <1>1, <3>1, <3>2, <3>3, ModuleResult
      <4>2. r.size \in Nat /\ r.base \in {NoImage, FourGB} \cup Pages
        BY <4>1 DEF ModuleOutcome
      <4>3. ToPages(r.size) \in Nat
        BY <4>2, PagesOfSize
      <4>4. r.base \in Int
        <5>1. NoImage \in Int /\ FourGB \in Int /\ \A p \in Pages : p \in Int
          BY <3>1, PagesAreNumbers, LoadingAssumption
        <5> QED BY ONLY <4>2, <5>1
      <4> QED BY <4>1, <4>3, <4>4 DEF ModuleOutcome
    <3>5. CASE FailLinux(image, r.memory)
      BY <1>1, <3>4, <3>5, FailLinuxEnded, EndedFiles
    <3>6. ASSUME NEW a \in Allocations(r.memory, owner, ToPages(r.size), entry.ramdiskMax),
                 NEW f \in FreeResults(a.memory, r.base, ToPages(r.size)),
                 IF f.ok THEN pc' = "CallLinux" /\ memory' = f.memory ELSE Asserted(f.memory)
          PROVE  FilesHeld'
      <4>1. a.memory \in [Pages -> Owners] /\ \A p \in Pages : a.memory[p] \in {r.memory[p], owner}
        BY <3>1, <3>2, <3>4, <3>6, Allocated, AllocatedPages
      <4>2. /\ \A p \in Pages : f.memory[p] \in {a.memory[p], Free}
            /\ f.ok => \A p \in Pages : p \in PageRange(r.base, ToPages(r.size)) => f.memory[p] = Free
        BY <3>4, <3>6, <4>1, FreedPages
      <4>3. \A p \in Pages :
              \/ r.memory[p] \in {memory[p], Free}
              \/ (r.ok /\ r.memory[p] = file /\ p \in PageRange(r.base, ToPages(size)))
        BY <1>1, <3>1, <3>2, <3>3, ModulePages
      <4>4. CASE ~f.ok
        <5>1. pc' = "asserted"
          BY <3>6, <4>4 DEF Asserted
        <5> QED BY <5>1 DEF FilesHeld
      <4>5. CASE f.ok
        <5>1. pc' = "CallLinux" /\ memory' = f.memory
          BY <3>6, <4>5
        <5>2. \A p \in Pages : memory'[p] = memory[p] \/ memory'[p] \in {Free, owner}
          BY <3>4, <4>1, <4>2, <4>3, <4>5, <5>1
        <5>3. \A p \in Pages : memory'[p].kind \in {"image", "initrdFile"} => memory'[p] = memory[p]
          BY <1>2, <3>1, <5>2 DEF Kinds
        <5> QED BY <1>8, <5>1, <5>3, FilesKept DEF LoadInitrd
      <4> QED BY <4>4, <4>5
    <3> QED BY <3>3, <3>5, <3>6
  <2> QED BY <1>8, <2>1, <2>2 DEF LoadInitrd
<1>9. CASE CallLinux
  <2>1. CASE FailLinux(image, memory)
    BY <1>1, <2>1, FailLinuxEnded, EndedFiles
  <2>2. CASE pc' = "jumped" /\ memory' = memory
    BY <1>9, <2>2, FilesKept DEF CallLinux
  <2> QED BY <1>9, <2>1, <2>2 DEF CallLinux
<1>10. CASE LoadSegment
  <2> DEFINE segment == entry.segments[next]
             owner == Owner("segment", next)
  <2>1. PICK a \in AllocationsAt(memory, owner, segment.count, segment.base + offset) :
            Return(a.memory) \/ (memory' = a.memory /\ pc' = pc)
    BY <1>10 DEF LoadSegment
  <2>2. owner \in Owners /\ owner.kind = "segment" /\ segment.count \in Nat /\ PageCount \in Nat
    <3>1. next \in Nat \ {0} /\ next \in 1 .. Len(entry.segments)
      BY <1>10, EntryFacts DEF LoadSegment, IInv, TypeOK
    <3> DEFINE forms == [base : Pages, count : Nat \ {0}]
    <3>2. entry.segments \in Seq(forms)
      BY <1>1, EntryFacts
    <3>3. segment \in forms
      <4> HIDE DEF forms
      <4> QED BY <3>1, <3>2
    <3>4. segment.count \in Nat
      BY <3>3
    <3> QED BY <1>2, <3>1, <3>4, LoadingAssumption DEF Kinds
  <2> HIDE DEF segment, owner
  <2>3. a.memory \in [Pages -> Owners] /\ \A p \in Pages : a.memory[p] \in {memory[p], owner}
    BY <1>1, <2>1, <2>2, AllocatedAt, Allocated, AllocatedPages
  <2>4. CASE Return(a.memory)
    BY <2>3, <2>4, EndedFiles DEF Return, Ended
  <2>5. CASE memory' = a.memory /\ pc' = pc
    BY <1>10, <2>2, <2>3, <2>5 DEF LoadSegment, FilesHeld, NoneOf
  <2> QED BY <2>1, <2>4, <2>5
<1>11. CASE LoadModule
  <2> DEFINE size == entry.modules[next]
             owner == Owner("module", next)
  <2>1. PICK r \in ModuleResults(memory, owner, size, 0) :
            IF r.ok THEN memory' = r.memory /\ pc' = pc ELSE Return(r.memory)
    BY <1>11 DEF LoadModule
  <2>2. owner \in ModuleOwners /\ owner.kind = "module" /\ size \in Nat
    <3>1. next \in Nat \ {0} /\ next \in 1 .. Len(entry.modules) /\ entry.modules \in Seq(Nat)
      BY <1>1, <1>11, EntryFacts DEF LoadModule, IInv, TypeOK
    <3> QED BY <1>2, <3>1 DEF Kinds
  <2> HIDE DEF size, owner
  <2>3. /\ r.memory \in [Pages -> Owners]
        /\ \A p \in Pages : r.memory[p] \in {memory[p], Free} \/ r.memory[p] = owner
    BY <1>1, <2>1, <2>2, ModuleResult, ModulePages DEF ModuleOutcome
  <2>4. CASE Return(r.memory)
    BY <2>3, <2>4, EndedFiles DEF Return, Ended
  <2>5. CASE memory' = r.memory /\ pc' = pc
    <3>1. pc = "LoadModules" /\ \A p \in Pages : memory[p].kind \notin {"image", "initrdFile"}
      BY <1>11 DEF LoadModule, FilesHeld, NoneOf
    <3>2. Free.kind \notin {"image", "initrdFile"}
      BY <1>2 DEF Kinds
    <3>3. \A p \in Pages : memory'[p].kind \notin {"image", "initrdFile"}
      BY <2>2, <2>3, <2>5, <3>1, <3>2
    <3> QED BY <2>5, <3>1, <3>3 DEF FilesHeld, NoneOf
  <2> QED BY <2>1, <2>4, <2>5
<1>12. CASE Loaded
  BY <1>12 DEF Loaded, FilesHeld, NoneOf
<1>13. CASE HandOff
  <2>1. pc = "HandOff" /\ pc' = "jumped" /\ memory' = memory
    BY <1>13 DEF HandOff
  <2>2. NoneOf(memory, "image") /\ NoneOf(memory, "initrdFile")
    BY <2>1 DEF FilesHeld
  <2> QED BY <2>1, <2>2 DEF FilesHeld, NoneOf, ImageWithin
<1>14. CASE FailElf
  BY <1>1, <1>14, EndedFiles DEF FailElf, Return, Ended
<1>15. CASE UNCHANGED vars
  BY <1>15 DEF vars, FilesHeld, NoneOf, ImageWithin, SetupPages
<1> QED BY <1>3, <1>4, <1>5, <1>6, <1>7, <1>8, <1>9, <1>10, <1>11, <1>12, <1>13, <1>14, <1>15 DEF Next

-----------------------------------------------------------------------------
(* What stays allocated.                                                   *)

LEMMA InitFiles == Init => FilesHeld
<1> SUFFICES ASSUME Init PROVE FilesHeld
  OBVIOUS
<1>1. \A p \in Pages : memory[p] \in {Free, Firmware}
  BY DEF Init
<1>2. \A o \in {Free, Firmware} : o.kind \notin {"initrdFile", "image"}
  BY DEF Free, Firmware, Owner
<1> QED BY <1>1, <1>2 DEF Init, FilesHeld, NoneOf, ElfSteps

\* In every reachable state the files are where the next step frees them.
THEOREM FilesInvariance == Spec => []FilesHeld
<1>1. Init /\ []IInv /\ [][Next]_vars => []FilesHeld
  BY InitFiles, StepFiles, PTL
<1> QED BY <1>1, Invariance, PTL DEF Spec

\* The setup adds no negative number of pages to the kernel file.
LEMMA SetupAddsPages == TypeOK => SetupPages \in Nat
<1> SUFFICES ASSUME TypeOK PROVE SetupPages \in Nat
  OBVIOUS
<1> DEFINE u == UnitsPerPage
           a == entry.size - entry.setup + u - 1
           b == entry.size + u - 1
<1>1. entry.size \in Nat /\ entry.setup \in Nat \ {0} /\ u \in Nat \ {0}
  BY EntryFacts, LoadingAssumption DEF TypeOK
<1>2. a \in Int /\ b \in Int /\ a <= b
  BY <1>1
<1>3. SetupPages = (b \div u) - (a \div u)
  BY DEF SetupPages, ToPages
<1> HIDE DEF a, b, u
<1> QED BY <1>1, <1>2, <1>3, DivMonotone

\* When a kernel is entered, no more of the files is left than the pages that the
\* setup adds to the kernel file.
THEOREM OnlySetupLeft == Spec => []FilesFreed
<1>1. IInv /\ FilesHeld => FilesFreed
  <2> SUFFICES ASSUME IInv, FilesHeld PROVE FilesFreed
    OBVIOUS
  <2>1. ASSUME pc \in {"LoadCommandLine", "LoadInitrd", "CallLinux", "jumped"}
        PROVE  Cardinality(PagesOf("image")) <= SetupPages
    <3>1. PICK b \in Int : ImageWithin(b, SetupPages)
      BY <2>1 DEF FilesHeld
    <3>2. SetupPages \in Nat
      BY SetupAddsPages DEF IInv
    <3> DEFINE last == b + SetupPages - 1
    <3>3. last \in Int /\ (b > last => SetupPages = 0) /\ (b <= last => last - b + 1 = SetupPages)
      BY <3>2
    <3>4. PagesOf("image") \subseteq b .. last
      BY <3>1 DEF PagesOf, ImageWithin, PageRange
    <3> HIDE DEF last
    <3>5. IsFiniteSet(b .. last) /\ Cardinality(b .. last) = IF b > last THEN 0 ELSE last - b + 1
      BY <3>3, FS_Interval
    <3>6. Cardinality(b .. last) = SetupPages
      BY <3>2, <3>3, <3>5
    <3>7. Cardinality(PagesOf("image")) <= Cardinality(b .. last)
      BY <3>4, <3>5, FS_Subset
    <3> QED BY <3>6, <3>7
  <2>2. ASSUME pc \in {"CallLinux", "jumped"} PROVE PagesOf("initrdFile") = {}
    BY <2>2 DEF FilesHeld, NoneOf, PagesOf
  <2> QED BY <2>1, <2>2 DEF FilesFreed, SetupPages
<1> QED BY <1>1, Invariance, FilesInvariance, PTL

-----------------------------------------------------------------------------
(* What a step may do to the pages of others, and what failing leaves.     *)

Foreign == {Firmware, Leaked}
ForeignKept(m, n) == \A p \in Pages : m[p] \in Foreign /\ p < FourGB => n[p] = m[p]

\* An allocation touches free pages only.
LEMMA AllocatedSpares ==
    ASSUME NEW m \in [Pages -> Owners], NEW owner \in Owners, NEW count \in Nat, NEW limit \in Nat,
           NEW a \in Allocations(m, owner, count, limit)
    PROVE  a.memory \in [Pages -> Owners] /\ ForeignKept(m, a.memory)
<1>1. \A p \in Pages : m[p] \in Foreign => m[p] # Free
  BY DEF Foreign, Firmware, Leaked, Free, Owner
<1> QED BY <1>1, Allocated DEF ForeignKept

\* LoadBootModule touches no page of others below 4 GB.
LEMMA ModuleSpares ==
    ASSUME NEW m \in [Pages -> Owners], NEW owner \in ModuleOwners, NEW size \in Nat, NEW base \in Int,
           NEW r \in ModuleResults(m, owner, size, base)
    PROVE  r.memory \in [Pages -> Owners] /\ ForeignKept(m, r.memory)
<1>1. \A p \in Pages : m[p] \in Foreign => m[p] # Free
  BY DEF Foreign, Firmware, Leaked, Free, Owner
<1>2. ModuleOutcome(m, owner, size, base, r)
  BY ModuleResult
<1> QED BY <1>1, <1>2 DEF ModuleOutcome, ForeignKept

\* What an ended attempt leaves is still not of others.
LEMMA ReturnSpares ==
    ASSUME NEW m \in [Pages -> Owners], ForeignKept(memory, m), Return(m)
    PROVE  ForeignKept(memory, memory')
<1>1. memory' = Abandoned(m)
  BY DEF Return
<1>2. \A p \in Pages : m[p] \in Foreign => Abandoned(m)[p] = m[p]
  BY AbandonedPages DEF Foreign
<1> QED BY <1>1, <1>2 DEF ForeignKept

\* Every step but the end of an attempt of the linux loader.
LEMMA StepForeign ==
    IInv /\ Next => ForeignKept(memory, memory') \/ (entry.protocol = "BOOT_LINUX" /\ pc' \in {"menu", "asserted"})
<1> SUFFICES ASSUME IInv, Next, ~(entry.protocol = "BOOT_LINUX" /\ pc' \in {"menu", "asserted"})
             PROVE  ForeignKept(memory, memory')
  OBVIOUS
<1>1. /\ memory \in [Pages -> Owners] /\ entry \in Entries /\ entry.size \in Nat /\ entry.setup \in Nat \ {0}
      /\ image \in [base : {NoImage} \cup Nat, size : Nat]
  BY EntryFacts DEF IInv, TypeOK
<1>2. \A kind \in Kinds, n \in Nat :
        /\ Owner(kind, n) \in ModuleOwners /\ Owner(kind, n) \in Owners /\ Owner(kind, n) \notin Foreign
  BY OwnerFacts DEF Owner, Foreign, Firmware, Leaked, Kinds
<1>3. memory' = memory => ForeignKept(memory, memory')
  BY DEF ForeignKept
<1>4. pc \in LinuxSteps => pc' \notin {"menu", "asserted"}
  BY DEF IInv, Stage
<1>5. ASSUME pc \in LinuxSteps, NEW img \in [base : {NoImage} \cup Nat, size : Nat], NEW m \in [Pages -> Owners]
      PROVE  ~FailLinux(img, m)
  BY <1>4, <1>5, FailLinuxEnded DEF Ended
<1>6. ASSUME pc \in LinuxSteps, NEW m \in [Pages -> Owners] PROVE ~Asserted(m)
  BY <1>4, <1>6 DEF Asserted
<1>7. CASE LoadImage
  <2>1. pc \in LinuxSteps
    BY <1>7 DEF LoadImage, LinuxSteps
  <2>2. PICK r \in ModuleResults(memory, Owner("image", 1), entry.size, NoImage) :
           LET img == [base |-> r.base, size |-> r.size]
           IN  memory' = r.memory \/ (~r.ok /\ FailLinux(img, r.memory))
    BY <1>7 DEF LoadImage
  <2>3. Owner("image", 1) \in ModuleOwners /\ NoImage \in Int
    BY <1>2 DEF Kinds, NoImage
  <2>4. ForeignKept(memory, r.memory)
    BY <1>1, <2>3, ModuleSpares
  <2>5. CASE memory' = r.memory
    BY <2>4, <2>5
  <2>6. CASE FailLinux([base |-> r.base, size |-> r.size], r.memory)
    <3>1. ModuleOutcome(memory, Owner("image", 1), entry.size, NoImage, r)
      BY <1>1, <2>3, ModuleResult
    <3>2. [base |-> r.base, size |-> r.size] \in [base : {NoImage} \cup Nat, size : Nat]
          /\ r.memory \in [Pages -> Owners]
      BY <3>1, PagesAreNumbers, LoadingAssumption DEF ModuleOutcome
    <3> QED BY <1>5, <2>1, <2>6, <3>2
  <2> QED BY <2>2, <2>5, <2>6
<1>8. CASE LoadSetup
  <2> DEFINE rest == [image EXCEPT !.size = image.size - entry.setup]
             owner == Owner("setup", 1)
  <2>1. pc \in LinuxSteps
    BY <1>8 DEF LoadSetup, LinuxSteps
  <2>2. SetupFits => rest \in [base : {NoImage} \cup Nat, size : Nat]
    BY <1>1 DEF SetupFits
  <2>3. owner \in Owners /\ ToPages(entry.setup) \in Nat /\ OneGB \in Nat
    BY <1>1, <1>2, PagesOfSize, LoadingAssumption DEF Kinds
  <2>4. ~FailLinux(image, memory) /\ (SetupFits => ~FailLinux(rest, memory))
    BY <1>1, <1>5, <2>1, <2>2
  <2>5. PICK a \in Allocations(memory, owner, ToPages(entry.setup), OneGB) :
            SetupFits /\ (FailLinux(rest, a.memory) \/ memory' = a.memory)
    BY <1>8, <2>4 DEF LoadSetup
  <2>6. a.memory \in [Pages -> Owners] /\ ForeignKept(memory, a.memory)
    BY <1>1, <2>3, AllocatedSpares
  <2>7. memory' = a.memory
    BY <1>5, <2>1, <2>2, <2>5, <2>6
  <2> QED BY <2>6, <2>7
<1>9. CASE LoadKernelBuf
  <2> DEFINE owner == Owner("kernel", 1)
             count == ToPages(KernelInitialSize)
  <2>1. /\ pc \in LinuxSteps
        /\ image.base \in Pages /\ image.base \in Int /\ PagesOfImage \in Nat
        /\ Held(memory, Part(Owner("image", 1), image.base, PagesOfImage))
    BY <1>1, <1>9, PagesAreNumbers, PagesOfSize DEF LoadKernelBuf, LinuxSteps, IInv, ImageHeld, PagesOfImage
  <2>2. owner \in Owners /\ count \in Nat /\ PageCount \in Nat
    <3>1. KernelInitialSize \in Nat
      BY <1>1, EntryFacts DEF KernelInitialSize, NoInitSize
    <3> QED BY <1>2, <3>1, PagesOfSize, LoadingAssumption DEF Kinds
  <2>3. ~FailLinux(image, memory)
    BY <1>1, <1>5, <2>1
  <2>4. PICK a \in KernelAllocations(memory, count) :
           \E r \in FreeResults(a.memory, image.base, PagesOfImage) :
              IF r.ok THEN memory' = r.memory ELSE Asserted(r.memory)
    BY <1>9, <2>3 DEF LoadKernelBuf
  <2>5. a \in Allocations(memory, owner, count, PageCount)
    BY AllocatedAt DEF KernelAllocations
  <2>6. a.memory \in [Pages -> Owners] /\ ForeignKept(memory, a.memory)
    BY <1>1, <2>2, <2>5, AllocatedSpares
  <2>7. PICK r \in FreeResults(a.memory, image.base, PagesOfImage) :
              IF r.ok THEN memory' = r.memory ELSE Asserted(r.memory)
    BY <2>4
  <2>8. r.memory \in [Pages -> Owners]
        /\ \A p \in Pages : p \notin PageRange(image.base, PagesOfImage) => r.memory[p] = a.memory[p]
    BY <2>1, <2>6, Freed
  <2>9. memory' = r.memory
    BY <1>6, <2>1, <2>7, <2>8
  <2>10. \A p \in PageRange(image.base, PagesOfImage) : memory[p] \notin Foreign
    BY <1>2, <2>1 DEF Held, Part, Kinds
  <2> QED BY <2>6, <2>8, <2>9, <2>10 DEF ForeignKept
<1>10. CASE LoadCommandLine
  <2> DEFINE owner == Owner("cmdline", 1)
  <2>1. pc \in LinuxSteps /\ owner \in Owners /\ CommandLineLimit \in Nat
    BY <1>2, <1>10, LoadingAssumption DEF LoadCommandLine, LinuxSteps, Kinds
  <2>2. ~FailLinux(image, memory)
    BY <1>1, <1>5, <2>1
  <2>3. PICK a \in Allocations(memory, owner, 1, CommandLineLimit) : FailLinux(image, a.memory) \/ memory' = a.memory
    BY <1>10, <2>2 DEF LoadCommandLine
  <2>4. a.memory \in [Pages -> Owners] /\ ForeignKept(memory, a.memory)
    BY <1>1, <2>1, AllocatedSpares
  <2> QED BY <1>1, <1>5, <2>1, <2>3, <2>4
<1>11. CASE LoadInitrd
  <2>1. pc \in LinuxSteps
    BY <1>11 DEF LoadInitrd, LinuxSteps
  <2>2. CASE memory' = memory
    BY <1>3, <2>2
  <2>3. CASE entry.modules # <<>>
    <3> DEFINE file == Owner("initrdFile", 1)
               owner == Owner("initrd", 1)
               size == entry.modules[1]
    <3>1. file \in ModuleOwners /\ owner \in Owners /\ NoImage \in Int
      BY <1>2 DEF Kinds, NoImage
    <3>2. size \in Nat /\ entry.ramdiskMax \in Nat /\ FourGB \in Nat
      BY <1>1, <2>3, EntryFacts, LoadingAssumption
    <3>3. PICK r \in ModuleResults(memory, file, size, NoImage) :
             \/ FailLinux(image, r.memory)
             \/ \E a \in Allocations(r.memory, owner, ToPages(r.size), entry.ramdiskMax) :
                  \E f \in FreeResults(a.memory, r.base, ToPages(r.size)) :
                     IF f.ok THEN memory' = f.memory ELSE Asserted(f.memory)
      BY <1>11, <2>3 DEF LoadInitrd
    <3> HIDE DEF file, owner, size
    <3>4. ModuleOutcome(memory, file, size, NoImage, r)
      BY <1>1, <3>1, <3>2, ModuleResult
    <3>5. r.memory \in [Pages -> Owners] /\ ForeignKept(memory, r.memory)
      BY <1>1, <3>1, <3>2, ModuleSpares
    <3>6. /\ r.size \in Nat /\ r.base \in Int /\ ToPages(r.size) \in Nat
          /\ r.size = 0 => ToPages(r.size) = 0
      <4>1. r.size \in Nat /\ r.base \in {NoImage, FourGB} \cup Pages
        BY <3>4 DEF ModuleOutcome
      <4>2. r.base \in Int
        <5>1. NoImage \in Int /\ FourGB \in Int /\ \A p \in Pages : p \in Int
          BY <3>1, <3>2, PagesAreNumbers
        <5> QED BY ONLY <4>1, <5>1
      <4> QED BY <4>1, <4>2, PagesOfSize
    <3>7. PICK a \in Allocations(r.memory, owner, ToPages(r.size), entry.ramdiskMax) :
                \E f \in FreeResults(a.memory, r.base, ToPages(r.size)) :
                     IF f.ok THEN memory' = f.memory ELSE Asserted(f.memory)
      BY <1>1, <1>5, <2>1, <3>3, <3>5
    <3>8. a.memory \in [Pages -> Owners] /\ ForeignKept(r.memory, a.memory)
      BY <3>1, <3>2, <3>5, <3>6, AllocatedSpares
    <3>9. PICK f \in FreeResults(a.memory, r.base, ToPages(r.size)) :
                     IF f.ok THEN memory' = f.memory ELSE Asserted(f.memory)
      BY <3>7
    <3>10. f.memory \in [Pages -> Owners]
           /\ \A p \in Pages : p \notin PageRange(r.base, ToPages(r.size)) => f.memory[p] = a.memory[p]
      BY <3>6, <3>8, Freed
    <3>11. memory' = f.memory
      BY <1>6, <2>1, <3>9, <3>10
    <3>12. \A p \in Pages : p \in PageRange(r.base, ToPages(r.size)) => memory[p] \notin Foreign \/ p >= FourGB
      <4>1. PageRange(r.base, 0) = {} /\ \A p \in PageRange(FourGB, ToPages(r.size)) : p >= FourGB
        BY <3>2, <3>6 DEF PageRange
      <4>2. Free \notin Foreign
        BY DEF Free, Foreign, Firmware, Leaked, Owner
      <4> QED BY <3>4, <3>6, <4>1, <4>2 DEF ModuleOutcome
    <3>13. \A p \in Pages : p < FourGB => ~(p >= FourGB)
      BY <3>2, PagesAreNumbers
    <3> QED BY <3>5, <3>8, <3>10, <3>11, <3>12, <3>13 DEF ForeignKept
  <2> QED BY <1>11, <2>2, <2>3 DEF LoadInitrd
<1>12. CASE CallLinux
  <2>1. pc \in LinuxSteps
    BY <1>12 DEF CallLinux, LinuxSteps
  <2> QED BY <1>1, <1>3, <1>5, <1>12, <2>1 DEF CallLinux
<1>13. CASE LoadSegment
  <2> DEFINE segment == entry.segments[next]
             owner == Owner("segment", next)
  <2>1. PICK a \in AllocationsAt(memory, owner, segment.count, segment.base + offset) :
            Return(a.memory) \/ memory' = a.memory
    BY <1>13 DEF LoadSegment
  <2>2. owner \in Owners /\ segment.count \in Nat /\ PageCount \in Nat
    <3>1. next \in Nat \ {0} /\ next \in 1 .. Len(entry.segments)
      BY <1>13, EntryFacts DEF LoadSegment, IInv, TypeOK
    <3> DEFINE forms == [base : Pages, count : Nat \ {0}]
    <3>2. entry.segments \in Seq(forms)
      BY <1>1, EntryFacts
    <3>3. segment \in forms
      <4> HIDE DEF forms
      <4> QED BY <3>1, <3>2
    <3>4. segment.count \in Nat
      BY <3>3
    <3> QED BY <1>2, <3>1, <3>4, LoadingAssumption DEF Kinds
  <2> HIDE DEF segment, owner
  <2>3. a.memory \in [Pages -> Owners] /\ ForeignKept(memory, a.memory)
    BY <1>1, <2>1, <2>2, AllocatedAt, AllocatedSpares
  <2> QED BY <2>1, <2>3, ReturnSpares
<1>14. CASE LoadModule
  <2> DEFINE size == entry.modules[next]
             owner == Owner("module", next)
  <2>1. PICK r \in ModuleResults(memory, owner, size, 0) : memory' = r.memory \/ Return(r.memory)
    BY <1>14 DEF LoadModule
  <2>2. owner \in ModuleOwners /\ size \in Nat
    <3>1. next \in Nat \ {0} /\ next \in 1 .. Len(entry.modules) /\ entry.modules \in Seq(Nat)
      BY <1>1, <1>14, EntryFacts DEF LoadModule, IInv, TypeOK
    <3> QED BY <1>2, <3>1 DEF Kinds
  <2> HIDE DEF size, owner
  <2>3. r.memory \in [Pages -> Owners] /\ ForeignKept(memory, r.memory)
    BY <1>1, <2>1, <2>2, ModuleSpares
  <2> QED BY <2>1, <2>3, ReturnSpares
<1>15. CASE FailElf
  <2>1. Return(memory) /\ ForeignKept(memory, memory)
    BY <1>15 DEF FailElf, ForeignKept
  <2> QED BY <1>1, <2>1, ReturnSpares
<1>16. CASE LoadKernel \/ Loaded \/ HandOff
  BY <1>3, <1>16 DEF LoadKernel, Loaded, HandOff
<1> QED BY <1>7, <1>8, <1>9, <1>10, <1>11, <1>12, <1>13, <1>14, <1>15, <1>16 DEF Next

\* No step touches a page of others below 4 GB, but one by which an attempt of the linux
\* loader ends.
THEOREM ForeignPagesSafe == Spec => ForeignPagesKept
<1>1. IInv /\ [Next]_vars =>
        [\A p \in Pages :
            memory[p] \in {Firmware, Leaked} /\ memory'[p] # memory[p] =>
                p >= FourGB \/ (entry.protocol = "BOOT_LINUX" /\ pc' \in {"menu", "asserted"})]_vars
  <2> SUFFICES ASSUME IInv, Next,
                      NEW p \in Pages, memory[p] \in {Firmware, Leaked}, memory'[p] # memory[p], ~(p >= FourGB)
               PROVE  entry.protocol = "BOOT_LINUX" /\ pc' \in {"menu", "asserted"}
    OBVIOUS
  <2>1. p < FourGB
    BY PagesAreNumbers, LoadingAssumption
  <2> QED BY <2>1, StepForeign DEF ForeignKept, Foreign
<1> QED BY <1>1, Invariance, PTL DEF Spec, ForeignPagesKept

\* A failing attempt of the other loaders leaves allocated what it had loaded, and nothing
\* of the module whose load failed.
THEOREM FailureLeavesLoaded == Spec => OnlyLoadedLeaks
<1>1. IInv /\ [Next]_vars =>
        [pc' = "menu" /\ pc \in ElfSteps =>
            \A p \in Pages : memory[p] = Free /\ memory'[p] # Free => pc = "LoadElf"]_vars
  <2> SUFFICES ASSUME IInv, Next, pc' = "menu", pc \in ElfSteps, pc # "LoadElf", NEW p \in Pages, memory[p] = Free
               PROVE  memory'[p] = Free
    OBVIOUS
  <2>1. memory \in [Pages -> Owners] /\ entry \in Entries
    BY DEF IInv, TypeOK
  <2>2. ASSUME NEW m \in [Pages -> Owners], m[p] = Free, Return(m) PROVE memory'[p] = Free
    BY <2>2, AbandonedPages DEF Return
  <2>3. CASE LoadModule
    <3> DEFINE size == entry.modules[next]
               owner == Owner("module", next)
    <3>1. PICK r \in ModuleResults(memory, owner, size, 0) : ~r.ok /\ Return(r.memory)
      BY <2>3 DEF LoadModule
    <3>2. owner \in ModuleOwners /\ size \in Nat
      <4>1. next \in Nat \ {0} /\ next \in 1 .. Len(entry.modules) /\ entry.modules \in Seq(Nat)
        BY <2>1, <2>3, EntryFacts DEF LoadModule, IInv, TypeOK
      <4> QED BY <4>1, OwnerFacts DEF Kinds
    <3> HIDE DEF size, owner
    <3>3. r.memory \in [Pages -> Owners] /\ r.memory[p] = Free
      BY <2>1, <3>1, <3>2, ModuleResult, ModulePages DEF ModuleOutcome
    <3> QED BY <2>2, <3>1, <3>3
  <2>4. CASE FailElf
    BY <2>1, <2>2, <2>4 DEF FailElf
  <2>5. ~LoadKernel /\ ~LoadSegment /\ ~Loaded /\ ~HandOff
    BY DEF LoadKernel, LoadSegment, Loaded, HandOff, ElfSteps
  <2>6. ~LoadImage /\ ~LoadSetup /\ ~LoadKernelBuf /\ ~LoadCommandLine /\ ~LoadInitrd /\ ~CallLinux
    BY DEF LoadImage, LoadSetup, LoadKernelBuf, LoadCommandLine, LoadInitrd, CallLinux, ElfSteps
  <2> QED BY <2>3, <2>4, <2>5, <2>6 DEF Next
<1> QED BY <1>1, Invariance, PTL DEF Spec, OnlyLoadedLeaks

=============================================================================
