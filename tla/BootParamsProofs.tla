-------------------------- MODULE BootParamsProofs --------------------------
(***************************************************************************)
(* Proofs about BootParams, for all kernels, machines, configurations and  *)
(* sizes of descriptors.                                                   *)
(***************************************************************************)
EXTENDS BootParams, IntervalTheorems

\* Aligning rounds up to a multiple of eight.
LEMMA AlignRounds ==
    ASSUME NEW n \in Nat
    PROVE  Align(n) \in Nat /\ Align(n) >= n /\ Align(n) <= n + 7 /\ Align(n) % 8 = 0
BY SMT DEF Align

\* Multiples of eight add up to one.
LEMMA SumOfEights ==
    ASSUME NEW m \in Nat, NEW n \in Nat, m % 8 = 0, n % 8 = 0
    PROVE  (m + n) % 8 = 0
BY SMT

\* What is aligned stays as it is.
LEMMA AlignKeeps ==
    ASSUME NEW n \in Nat, n % 8 = 0
    PROVE  Align(n) = n
BY SMT DEF Align

\* What is eight times something is a multiple of eight, and so is every multiple of it.
LEMMA EightTimes ==
    ASSUME NEW k \in Nat
    PROVE  (8 * k) % 8 = 0
BY SMT

LEMMA ProductOfEights ==
    ASSUME NEW m \in Nat, NEW n \in Nat, n % 8 = 0
    PROVE  (m * n) % 8 = 0
<1>1. PICK k \in Nat : n = 8 * k  BY SMT
<1>2. m * n = 8 * (m * k)  BY <1>1, SMT
<1>3. m * k \in Nat  BY <1>1, SMT
<1> QED  BY <1>2, <1>3, EightTimes

-----------------------------------------------------------------------------
(* The buffer.                                                             *)

\* The constants, from their assumptions.
LEMMA Constants ==
    /\ DescriptorSize \in Nat /\ DescriptorSize >= 40 /\ DescriptorSize % 8 = 0
    /\ Slack \in Nat /\ MaxAttempts \in Nat
    /\ \A k \in Kernels :
          /\ k.header \in Seq([type : STRING, optional : BOOLEAN, requests : SUBSET STRING,
                               value : Int])
          /\ k.entry \in Nat /\ k.cmdline \in Nat /\ k.modules \in Seq(Nat)
          /\ k.sections \in Nat /\ k.sectionSize \in Nat
    /\ \A m \in Machines : m.descriptors \in Nat \ {0} /\ m.old \in BOOLEAN /\ m.new \in BOOLEAN
    /\ \A c \in Configs : c.GfxMode \in Modes /\ c.OverrideGfx \in BOOLEAN
BY BootParamsAssumption DEF BootParamsAssumption, KernelForm, MachineForm

\* A tag that is pushed lies behind all others, which stay where they are.
LEMMA PushKeeps ==
    ASSUME NEW type, NEW length \in Nat \ {0}, NEW tells, PushTag(type, length, tells),
           size \in Nat, size % 8 = 0, BufferShape, TagsDisjoint,
           DOMAIN buffer \subseteq {o \in 0 .. size : o % 8 = 0}
    PROVE  /\ size' \in Nat /\ size' % 8 = 0 /\ size' > size
           /\ BufferShape' /\ TagsDisjoint'
           /\ DOMAIN buffer' \subseteq {o \in 0 .. size' : o % 8 = 0}
           /\ HasTag(type)' /\ \A t : HasTag(t) => HasTag(t)'
<1> DEFINE tag == Tag(type, length, tells)
<1>1. buffer' = [o \in DOMAIN buffer \cup {size} |-> IF o = size THEN tag ELSE buffer[o]]
    /\ size' = size + Align(length)
  BY DEF PushTag, Push, AllocationSize, Tag
<1>2. tag.size = length /\ tag.type = type  BY DEF Tag
<1>3. Align(length) \in Nat /\ Align(length) >= length /\ Align(length) % 8 = 0
  BY AlignRounds
<1>4. size' \in Nat /\ size' % 8 = 0 /\ size' >= size + length /\ size' > size
  BY <1>1, <1>3, SumOfEights, SMT
<1>5. \A o \in DOMAIN buffer : o \in Nat /\ o < size /\ o + buffer[o].size <= size
    /\ o % 8 = 0 /\ buffer[o].size \in Nat \ {0}
  BY SMT DEF BufferShape, TagsDisjoint
<1>6. \A o \in DOMAIN buffer : buffer'[o] = buffer[o]
  <2> TAKE o \in DOMAIN buffer
  <2>1. o # size  BY <1>5, SMT
  <2> QED  BY <1>1, <2>1
<1>7. buffer'[size] = tag /\ DOMAIN buffer' = DOMAIN buffer \cup {size}  BY <1>1
<1> HIDE DEF tag
<1>8. BufferShape'
  BY <1>2, <1>5, <1>6, <1>7, SMT DEF BufferShape
<1>9. TagsDisjoint'
  <2> SUFFICES ASSUME NEW o \in DOMAIN buffer'
               PROVE  /\ o + buffer'[o].size <= size'
                      /\ \A p \in DOMAIN buffer' : p > o => o + buffer'[o].size <= p
    BY DEF TagsDisjoint
  <2>1. CASE o = size
    BY <2>1, <1>2, <1>4, <1>5, <1>7, SMT
  <2>2. CASE o \in DOMAIN buffer
    <3>1. buffer'[o] = buffer[o] /\ o + buffer[o].size <= size  BY <2>2, <1>5, <1>6
    <3>2. \A p \in DOMAIN buffer : p > o => o + buffer[o].size <= p
      BY <2>2 DEF TagsDisjoint
    <3>3. o \in Nat /\ buffer[o].size \in Nat  BY <2>2, <1>5
    <3> QED  BY <3>1, <3>2, <3>3, <1>4, <1>7, SMT
  <2> QED  BY <2>1, <2>2, <1>7
<1>10. DOMAIN buffer' \subseteq {o \in 0 .. size' : o % 8 = 0}
  BY <1>4, <1>5, <1>7, SMT
<1>11. HasTag(type)'
  BY <1>2, <1>7 DEF HasTag
<1>12. \A t : HasTag(t) => HasTag(t)'
  BY <1>6, <1>7 DEF HasTag
<1> QED  BY <1>4, <1>8, <1>9, <1>10, <1>11, <1>12

\* What the room is computed from are lengths.
LEMMA RoomTyped == machine \in Machines => MapSize \in Nat /\ MapRoom \in Nat
<1> SUFFICES ASSUME machine \in Machines PROVE MapSize \in Nat /\ MapRoom \in Nat
  OBVIOUS
<1> DEFINE a == machine.descriptors
           M == MapSize
<1>1. a \in Nat /\ DescriptorSize \in Nat /\ Slack \in Nat  BY Constants
<1>2. M = a * DescriptorSize + Slack  BY DEF MapSize
<1> HIDE DEF a, M
<1>3. a * DescriptorSize \in Nat  BY <1>1, SMT
<1>4. M \in Nat  BY <1>1, <1>2, <1>3, SMT
<1>5. 16 + M + 16 + M \in Nat  BY <1>4, SMT
<1> QED  BY <1>4, <1>5 DEF M, MapRoom

\* The tags of the memory map and where ExitAndJump puts them.
MmapTag(n) == Tag("MMAP", 16 + n * 24, n)
EfiTag(n) == Tag("EFI_MMAP", 16 + n * DescriptorSize, n)
EndTag == Tag("END", 8, 0)
EfiAt(n) == NextTag(startFrom, MmapTag(n))
EndAt(n) == NextTag(EfiAt(n), EfiTag(n))

\* The room for the memory map holds any map that is read, in both forms, and the end.
LEMMA RoomSuffices ==
    ASSUME NEW n \in Counts, startFrom \in Nat, startFrom % 8 = 0, machine \in Machines
    PROVE  /\ EfiAt(n) = startFrom + MmapTag(n).size /\ EfiAt(n) \in Nat /\ EfiAt(n) % 8 = 0
           /\ EndAt(n) = EfiAt(n) + EfiTag(n).size /\ EndAt(n) \in Nat /\ EndAt(n) % 8 = 0
           /\ EndAt(n) + 8 <= startFrom + AllocationSize(MapRoom)
           /\ MmapTag(n).size \in Nat \ {0} /\ EfiTag(n).size \in Nat \ {0}
           /\ startFrom < EfiAt(n) /\ EfiAt(n) < EndAt(n)
<1> DEFINE mmap == MmapTag(n)
           efi == EfiTag(n)
           efiAt == EfiAt(n)
           endAt == EndAt(n)
           s == startFrom
<1>a. mmap.size = 16 + n * 24 /\ efi.size = 16 + n * DescriptorSize
  BY DEF Tag, MmapTag, EfiTag
<1>b. efiAt = NextTag(s, mmap) /\ endAt = NextTag(efiAt, efi)  BY DEF EfiAt, EndAt
<1>c. s \in Nat /\ s % 8 = 0  OBVIOUS
<1> HIDE DEF mmap, efi, efiAt, endAt, s
<1> DEFINE w == n * DescriptorSize
           M == MapSize
<1>1. n \in Nat \ {0} /\ w <= M  BY Constants, SMT DEF Counts, MapSize
<1>2. w \in Nat /\ w % 8 = 0
  <2>1. n \in Nat /\ DescriptorSize \in Nat /\ DescriptorSize % 8 = 0  BY <1>1, Constants
  <2>2. w \in Nat  BY <2>1, SMT
  <2>3. w % 8 = 0  BY <2>1, ProductOfEights
  <2> QED  BY <2>2, <2>3
<1>3. w >= n * 40  BY <1>1, Constants, SMT
<1>4. M \in Nat  BY RoomTyped
<1>5. (n * 24) % 8 = 0 /\ n * 24 \in Nat  BY <1>1, SMT
<1> HIDE DEF w, M
<1>6. 32 + M + M \in Nat  BY <1>4, SMT
<1>7. Align(32 + M + M) >= 32 + M + M /\ Align(32 + M + M) \in Nat  BY <1>6, AlignRounds
<1>8. 16 + M + 16 + M = 32 + M + M  BY <1>4, SMT
<1>9. AllocationSize(MapRoom) = Align(32 + M + M)  BY <1>8 DEF AllocationSize, MapRoom, M
<1> DEFINE e == s + (16 + n * 24)
           d == e + (16 + w)
<1>10. e \in Nat /\ e % 8 = 0  BY <1>c, <1>5, SMT
<1>11. d \in Nat /\ d % 8 = 0  BY <1>2, <1>10, SMT
<1>12. Align(e) = e /\ Align(d) = d  BY <1>10, <1>11, AlignKeeps
<1>13. d + 8 <= s + (32 + M + M)  BY <1>c, <1>1, <1>2, <1>3, <1>4, SMT
<1>14. d + 8 <= s + AllocationSize(MapRoom)
  BY <1>c, <1>4, <1>7, <1>9, <1>11, <1>13, SMT
<1>15. 16 + n * 24 \in Nat \ {0} /\ 16 + w \in Nat \ {0} /\ s < e /\ e < d
  BY <1>c, <1>1, <1>2, <1>5, <1>10, SMT
<1>16. efi.size = 16 + w  BY <1>a DEF w
<1>17. efiAt = e  BY <1>a, <1>b, <1>12 DEF NextTag
<1> HIDE DEF e
<1>18. endAt = d  BY <1>b, <1>12, <1>16, <1>17 DEF NextTag
<1>19. efiAt = s + mmap.size  BY <1>a, <1>17 DEF e
<1>20. endAt = efiAt + efi.size  BY <1>16, <1>17, <1>18
<1> HIDE DEF d
<1> QED
  BY <1>a, <1>10, <1>11, <1>14, <1>15, <1>16, <1>17, <1>18, <1>19, <1>20
  DEF mmap, efi, efiAt, endAt, s

\* Three tags that follow one another at the end of what is used of the buffer.
LEMMA ThreeTags ==
    ASSUME BufferShape, TagsDisjoint, size \in Nat, size' = size, machine \in Machines,
           startFrom \in Nat, startFrom % 8 = 0, startFrom + AllocationSize(MapRoom) = size,
           \A o \in DOMAIN buffer : o + buffer[o].size <= startFrom,
           NEW n \in Counts,
           buffer' = [o \in DOMAIN buffer \cup {startFrom, EfiAt(n), EndAt(n)} |->
                         CASE o = startFrom -> MmapTag(n)
                           [] o = EfiAt(n) -> EfiTag(n)
                           [] o = EndAt(n) -> EndTag
                           [] OTHER -> buffer[o]]
    PROVE  /\ BufferShape' /\ TagsDisjoint'
           /\ DOMAIN buffer' \subseteq {o \in 0 .. size' : o % 8 = 0}
           /\ \A t : HasTag(t) => HasTag(t)'
           /\ HasTag("MMAP")' /\ HasTag("EFI_MMAP")'
<1> DEFINE s == startFrom
           e == EfiAt(n)
           d == EndAt(n)
           mmap == MmapTag(n)
           efi == EfiTag(n)
           end == EndTag
<1>a. buffer' = [o \in DOMAIN buffer \cup {s, e, d} |->
                    CASE o = s -> mmap [] o = e -> efi [] o = d -> end [] OTHER -> buffer[o]]
  OBVIOUS
<1>b. /\ e = s + mmap.size /\ e \in Nat /\ e % 8 = 0
      /\ d = e + efi.size /\ d \in Nat /\ d % 8 = 0
      /\ mmap.size \in Nat \ {0} /\ efi.size \in Nat \ {0}
      /\ s < e /\ e < d
  BY RoomSuffices
<1>c. s \in Nat /\ s % 8 = 0 /\ size \in Nat /\ size' = size
  OBVIOUS
<1>d. d + 8 <= size  BY RoomSuffices
<1>e. end.size = 8 /\ mmap.type = "MMAP" /\ efi.type = "EFI_MMAP"
  BY DEF Tag, EndTag, MmapTag, EfiTag
<1>f. \A o \in DOMAIN buffer : o + buffer[o].size <= s  OBVIOUS
<1> HIDE DEF s, e, d, mmap, efi, end
<1>1. \A o \in DOMAIN buffer : o \in Nat /\ o < s /\ o % 8 = 0 /\ buffer[o].size \in Nat \ {0}
  <2> TAKE o \in DOMAIN buffer
  <2>1. o \in Nat /\ o % 8 = 0 /\ buffer[o].size \in Nat \ {0}  BY DEF BufferShape
  <2>2. o + buffer[o].size <= s  BY <1>f
  <2> QED  BY ONLY <1>c, <2>1, <2>2, SMT
<1>2. DOMAIN buffer' = DOMAIN buffer \cup {s, e, d}  BY <1>a
<1>3. s # e /\ s # d /\ e # d  BY ONLY <1>b, <1>c, SMT
<1>4. buffer'[s] = mmap /\ buffer'[e] = efi /\ buffer'[d] = end  BY <1>a, <1>3
<1>5. \A o \in DOMAIN buffer : buffer'[o] = buffer[o]
  <2> TAKE o \in DOMAIN buffer
  <2>1. o # s /\ o # e /\ o # d  BY ONLY <1>1, <1>b, <1>c, o \in DOMAIN buffer, SMT
  <2> QED  BY <1>a, <2>1
<1>6. BufferShape'
  BY ONLY <1>b, <1>c, <1>e, <1>1, <1>2, <1>4, <1>5, SMT DEF BufferShape
<1>7. TagsDisjoint'
  <2> SUFFICES ASSUME NEW o \in DOMAIN buffer'
               PROVE  /\ o + buffer'[o].size <= size'
                      /\ \A p \in DOMAIN buffer' : p > o => o + buffer'[o].size <= p
    BY DEF TagsDisjoint
  <2>1. CASE o = s  BY ONLY <2>1, <1>b, <1>c, <1>d, <1>1, <1>2, <1>4, SMT
  <2>2. CASE o = e  BY ONLY <2>2, <1>b, <1>c, <1>d, <1>1, <1>2, <1>4, SMT
  <2>3. CASE o = d  BY ONLY <2>3, <1>b, <1>c, <1>d, <1>e, <1>1, <1>2, <1>4, SMT
  <2>4. CASE o \in DOMAIN buffer
    <3>1. buffer'[o] = buffer[o] /\ o \in Nat /\ buffer[o].size \in Nat /\ o + buffer[o].size <= s
      BY <2>4, <1>f, <1>1, <1>5
    <3>2. \A p \in DOMAIN buffer : p > o => o + buffer[o].size <= p  BY <2>4 DEF TagsDisjoint
    <3> QED  BY ONLY <3>1, <3>2, <1>b, <1>c, <1>d, <1>2, SMT
  <2> QED  BY <2>1, <2>2, <2>3, <2>4, <1>2
<1>8. DOMAIN buffer' \subseteq {o \in 0 .. size' : o % 8 = 0}
  BY ONLY <1>b, <1>c, <1>d, <1>1, <1>2, SMT
<1>9. \A t : HasTag(t) => HasTag(t)'  BY <1>2, <1>5 DEF HasTag
<1>10. HasTag("MMAP")' /\ HasTag("EFI_MMAP")'  BY <1>2, <1>4, <1>e DEF HasTag
<1> QED  BY <1>6, <1>7, <1>8, <1>9, <1>10

-----------------------------------------------------------------------------
(* The header.                                                             *)

\* Behind the loop over the header nothing changes what is known of it.
LEMMA HeaderStays ==
    ASSUME HeaderKnown, UNCHANGED <<kernel, config, must, notElf, start, mode>>,
           pc \in Steps \ {"HeaderTags"}, pc' \in Running \ {"HeaderTags"},
           pc \in {"Map", "Exit"} <=> pc' \in {"Map", "Exit", "jumped"}
    PROVE  HeaderKnown'
<1>1. ReadTags' = ReadTags  BY DEF ReadTags
<1>2. \A type : TagsOf(type)' = TagsOf(type)  BY <1>1 DEF TagsOf
<1>3. ModeObeyed' <=> ModeObeyed  BY <1>1, <1>2 DEF ModeObeyed, Decides
<1>4. EntryOr(0)' <=> EntryOr(0)  BY <1>1, <1>2 DEF EntryOr, Decides
<1>5. EntryOr(kernel.entry)' <=> EntryOr(kernel.entry)  BY <1>1, <1>2 DEF EntryOr, Decides
<1>6. pc \in Running /\ pc # "jumped"  BY DEF Running, Steps
<1>7. /\ \A i \in ReadTags' : ~Refused(kernel'.header[i])
      /\ TagsOf("ADDRESS")' # {} => notElf'
      /\ ModeObeyed'
  BY <1>1, <1>2, <1>3, <1>6 DEF HeaderKnown
<1>8. \A i \in TagsOf("INFORMATION_REQUEST")' : \A r \in DOMAIN must' :
         Demands(i, r)' => \/ must'[r]
                          \/ \E j \in TagsOf("INFORMATION_REQUEST")' : j > i /\ Waives(j, r)'
  BY <1>2, <1>6 DEF HeaderKnown, Demands, Waives
<1> QED
  BY <1>4, <1>5, <1>6, <1>7, <1>8 DEF HeaderKnown, Steps, Running

\* A tag that is read and not refused joins those that were read, as the last one.
LEMMA ReadHeaderTagKeeps ==
    ASSUME IInv, ReadHeaderTag, pc' = "HeaderTags"
    PROVE  HeaderKnown'
<1> DEFINE tag == kernel.header[next]
<1>1. /\ pc = "HeaderTags" /\ next <= Len(kernel.header) /\ ~Refused(tag)
      /\ next' = next + 1
      /\ must' = [r \in DOMAIN must |-> MustHave(tag, r)]
      /\ notElf' = (notElf \/ tag.type = "ADDRESS")
      /\ start' = IF tag.type = "ENTRY_ADDRESS" THEN tag.value ELSE start
      /\ IF tag.type = "FRAMEBUFFER" THEN SetMode(tag) ELSE UNCHANGED <<pc, mode>>
      /\ UNCHANGED <<kernel, config>>
  BY DEF ReadHeaderTag, Return
<1>2. /\ next \in Nat \ {0} /\ kernel \in Kernels /\ Len(kernel.header) \in Nat
      /\ DOMAIN kernel.header = 1 .. Len(kernel.header) /\ config \in Configs
  BY Constants, SMT DEF IInv, TypeOK
<1>3. ReadTags' = ReadTags \cup {next} /\ ReadTags = 1 .. next - 1 /\ next \in DOMAIN kernel.header
  BY <1>1, <1>2, SMT DEF ReadTags
<1>4. \A i \in ReadTags : i \in Nat /\ i < next  BY <1>2, <1>3, SMT
<1>5. /\ \A i \in ReadTags : ~Refused(kernel.header[i])
      /\ TagsOf("ADDRESS") # {} => notElf
      /\ \A i \in TagsOf("INFORMATION_REQUEST") : \A r \in DOMAIN must :
            Demands(i, r) => \/ must[r]
                             \/ \E j \in TagsOf("INFORMATION_REQUEST") : j > i /\ Waives(j, r)
      /\ ModeObeyed /\ EntryOr(0)
  BY <1>1 DEF IInv, HeaderKnown, Running, Steps
<1>6. \A type : TagsOf(type)' = TagsOf(type) \cup (IF tag.type = type THEN {next} ELSE {})
  BY <1>1, <1>3 DEF TagsOf
<1>7. \A type : \A i \in TagsOf(type) : i \in ReadTags /\ kernel.header[i].type = type
  BY DEF TagsOf
<1>8. next' <= Len(kernel'.header) + 1  BY <1>1, <1>2, SMT
<1>9. \A i \in ReadTags' : ~Refused(kernel'.header[i])
  BY <1>1, <1>3, <1>5
<1>10. TagsOf("ADDRESS")' # {} => notElf'
  BY <1>1, <1>5, <1>6
<1>11. ASSUME NEW i \in TagsOf("INFORMATION_REQUEST")', NEW r \in DOMAIN must', Demands(i, r)'
       PROVE  must'[r] \/ \E j \in TagsOf("INFORMATION_REQUEST")' : j > i /\ Waives(j, r)'
  <2>1. r \in DOMAIN must /\ must'[r] = MustHave(tag, r)  BY <1>1
  <2>2. Demands(i, r)  BY <1>1, <1>11 DEF Demands
  <2>3. \A j : Waives(j, r)' <=> Waives(j, r)  BY <1>1 DEF Waives
  <2>4. CASE tag.type = "INFORMATION_REQUEST" /\ r \in tag.requests
    <3>1. must'[r] = ~tag.optional  BY <2>1, <2>4 DEF MustHave
    <3>2. CASE tag.optional
      <4>1. i # next  BY <2>2, <3>2 DEF Demands
      <4>2. i < next  BY <1>4, <1>6, <1>7, <1>11, <4>1
      <4>3. Waives(next, r) /\ next \in TagsOf("INFORMATION_REQUEST")'
        BY <1>6, <2>4, <3>2 DEF Waives
      <4>4. next > i  BY <1>2, <1>4, <4>2, <1>6, <1>7, <1>11, <4>1, SMT
      <4> QED  BY <2>3, <4>3, <4>4
    <3> QED  BY <3>1, <3>2
  <2>5. CASE ~(tag.type = "INFORMATION_REQUEST" /\ r \in tag.requests)
    <3>1. must'[r] = must[r]  BY <2>1, <2>5 DEF MustHave
    <3>2. i \in TagsOf("INFORMATION_REQUEST")
      BY <1>6, <1>11, <2>2, <2>5 DEF Demands
    <3> QED  BY <1>5, <1>6, <2>1, <2>2, <2>3, <3>1, <3>2
  <2> QED  BY <2>4, <2>5
<1>12. ModeObeyed'
  <2>1. CASE tag.type # "FRAMEBUFFER"
    <3>1. mode' = mode  BY <1>1, <2>1
    <3>2. TagsOf("FRAMEBUFFER")' = TagsOf("FRAMEBUFFER")  BY <1>6, <2>1
    <3>3. \A i : Decides("FRAMEBUFFER", i)' => Decides("FRAMEBUFFER", i) /\ i \in ReadTags
      BY <3>2, <1>7 DEF Decides
    <3> QED  BY <1>1, <1>5, <3>1, <3>2, <3>3 DEF ModeObeyed
  <2>2. CASE tag.type = "FRAMEBUFFER"
    <3>1. SetMode(tag)  BY <1>1, <2>2
    <3>2. next \in TagsOf("FRAMEBUFFER")' /\ TagsOf("FRAMEBUFFER")' # {}  BY <1>6, <2>2
    <3>3. \A i \in ReadTags' : Decides("FRAMEBUFFER", i)' => i = next
      BY <3>2, <1>2, <1>3, <1>4, SMT DEF Decides
    <3>4. config.OverrideGfx => mode' = config.GfxMode
      BY <3>1 DEF SetMode, Asks
    <3>5. ~config.OverrideGfx /\ tag.value # Unfit =>
            mode' = IF tag.value = 0 THEN config.GfxMode ELSE tag.value
      BY <3>1, <1>1 DEF SetMode, Asks
    <3> QED  BY <1>1, <3>2, <3>3, <3>4, <3>5 DEF ModeObeyed
  <2> QED  BY <2>1, <2>2
<1>13. EntryOr(0)'
  <2>1. CASE tag.type # "ENTRY_ADDRESS"
    <3>1. start' = start /\ TagsOf("ENTRY_ADDRESS")' = TagsOf("ENTRY_ADDRESS")
      BY <1>1, <1>6, <2>1
    <3>2. \A i : Decides("ENTRY_ADDRESS", i)' => Decides("ENTRY_ADDRESS", i) /\ i \in ReadTags
      BY <3>1, <1>7 DEF Decides
    <3> QED  BY <1>1, <1>5, <3>1, <3>2 DEF EntryOr
  <2>2. CASE tag.type = "ENTRY_ADDRESS"
    <3>1. start' = tag.value  BY <1>1, <2>2
    <3>2. next \in TagsOf("ENTRY_ADDRESS")' /\ TagsOf("ENTRY_ADDRESS")' # {}  BY <1>6, <2>2
    <3>3. \A i \in ReadTags' : Decides("ENTRY_ADDRESS", i)' => i = next
      BY <3>2, <1>2, <1>3, <1>4, SMT DEF Decides
    <3> QED  BY <1>1, <3>1, <3>2, <3>3 DEF EntryOr
  <2> QED  BY <2>1, <2>2
<1> QED
  BY <1>8, <1>9, <1>10, <1>11, <1>12, <1>13 DEF HeaderKnown, Running, Steps

-----------------------------------------------------------------------------
(* The inductive invariant.                                                *)

\* An element of a sequence, for sequences of records.
LEMMA ElementOfSeq ==
    ASSUME NEW S, NEW q \in Seq(S), NEW i \in 1 .. Len(q)
    PROVE  q[i] \in S
OBVIOUS

\* Nobody demands anything before the header is read.
LEMMA NoDemandType == NoDemand \in [{"ACPI_OLD", "ACPI_NEW"} -> BOOLEAN]
BY DEF NoDemand

\* The first and the later places of a loop over the header or the modules.
LEMMA FirstNext ==
    ASSUME NEW m \in Nat, NEW n \in Nat
    PROVE  1 \in 1 .. m + n + 1
BY SMT

LEMMA NextNext ==
    ASSUME NEW m \in Nat, NEW n \in Nat, NEW k \in Nat, k <= m \/ k <= n
    PROVE  k + 1 \in 1 .. m + n + 1
BY SMT

LEMMA InitHolds == Init => IInv
<1> SUFFICES ASSUME Init PROVE IInv
  OBVIOUS
<1>1. buffer = << >> /\ DOMAIN buffer = {}  BY DEF Init
<1>2. Len(kernel.header) \in Nat /\ Len(kernel.modules) \in Nat  BY Constants DEF Init
<1>3. TypeOK
  <2>1. next \in 1 .. Len(kernel.header) + Len(kernel.modules) + 1  BY <1>2, FirstNext DEF Init
  <2>2. must \in [{"ACPI_OLD", "ACPI_NEW"} -> BOOLEAN]  BY NoDemandType DEF Init
  <2>3. mode \in Modes /\ attempts \in 0 .. MaxAttempts
    BY Constants, SMT DEF Init
  <2>4. size % 8 = 0 /\ size \in Nat  BY SMT DEF Init
  <2> QED  BY <1>1, <2>1, <2>2, <2>3, <2>4 DEF Init, TypeOK
<1>4. BufferShape /\ TagsDisjoint  BY <1>1 DEF BufferShape, TagsDisjoint
<1>5. pc = "menu"  BY DEF Init
<1>6. RoomLeft /\ HeaderKnown /\ TagsPresent
  BY <1>5 DEF RoomLeft, HeaderKnown, TagsPresent, Running, Steps
<1> QED  BY <1>3, <1>4, <1>6 DEF IInv

\* A step that returns, asserts or faults and leaves the buffer alone.
LEMMA StopKeeps ==
    ASSUME IInv, TypeOK', pc' \in {"menu", "asserted", "fault"}, BufferShape', TagsDisjoint'
    PROVE  IInv'
BY DEF IInv, RoomLeft, HeaderKnown, TagsPresent, Running, Steps

\* What every step may use of the state before it.
LEMMA Typed ==
    ASSUME IInv
    PROVE  /\ kernel \in Kernels /\ machine \in Machines /\ config \in Configs
           /\ kernel.cmdline \in Nat /\ kernel.sections \in Nat /\ kernel.sectionSize \in Nat
           /\ kernel.entry \in Nat
           /\ Len(kernel.header) \in Nat /\ Len(kernel.modules) \in Nat
           /\ \A i \in 1 .. Len(kernel.modules) : kernel.modules[i] \in Nat
           /\ next \in Nat \ {0} /\ size \in Nat /\ size % 8 = 0 /\ startFrom \in Nat
           /\ attempts \in 0 .. MaxAttempts /\ start \in Nat /\ mode \in Modes
           /\ must \in [{"ACPI_OLD", "ACPI_NEW"} -> BOOLEAN] /\ notElf \in BOOLEAN
           /\ DOMAIN buffer \subseteq {o \in 0 .. size : o % 8 = 0}
           /\ BufferShape /\ TagsDisjoint
<1>1. TypeOK  BY DEF IInv
<1>2. kernel \in Kernels  BY <1>1 DEF TypeOK
<1>3. kernel.header \in Seq([type : STRING, optional : BOOLEAN, requests : SUBSET STRING,
                              value : Int]) /\ kernel.modules \in Seq(Nat)
  BY <1>2, Constants
<1>4. Len(kernel.header) \in Nat /\ Len(kernel.modules) \in Nat
  BY <1>3
<1>5. \A i \in 1 .. Len(kernel.modules) : kernel.modules[i] \in Nat  BY <1>3
<1>6. next \in Nat \ {0}  BY <1>1, <1>4, SMT DEF TypeOK
<1> QED  BY <1>1, <1>2, <1>4, <1>5, <1>6, Constants DEF TypeOK, IInv

LEMMA LoadMB2KernelKeeps == ASSUME IInv, LoadMB2Kernel PROVE IInv'
<1> USE Typed
<1>1. kernel' \in Kernels /\ Len(kernel'.header) \in Nat /\ Len(kernel'.modules) \in Nat
  BY Constants DEF LoadMB2Kernel
<1>2. mode' \in Modes /\ config.OverrideGfx \in BOOLEAN  BY Constants DEF LoadMB2Kernel
<1>5. /\ next' \in 1 .. Len(kernel'.header) + Len(kernel'.modules) + 1
      /\ must' \in [{"ACPI_OLD", "ACPI_NEW"} -> BOOLEAN]
      /\ attempts' \in 0 .. MaxAttempts
  <2>1. next' \in 1 .. Len(kernel'.header) + Len(kernel'.modules) + 1
    BY <1>1, FirstNext DEF LoadMB2Kernel
  <2>2. must' \in [{"ACPI_OLD", "ACPI_NEW"} -> BOOLEAN]  BY NoDemandType DEF LoadMB2Kernel
  <2>3. attempts \in 0 .. MaxAttempts /\ attempts' = attempts + 1 /\ attempts < MaxAttempts
    BY DEF LoadMB2Kernel
  <2>4. attempts' \in 0 .. MaxAttempts  BY <2>3, Constants, SMT
  <2> QED  BY <2>1, <2>2, <2>4
<1>3. CASE pc' = "menu" /\ UNCHANGED <<buffer, size>>
  <2>1. BufferShape' /\ TagsDisjoint'  BY <1>3 DEF BufferShape, TagsDisjoint
  <2>2. TypeOK'  BY <1>1, <1>2, <1>3, <1>5 DEF LoadMB2Kernel, TypeOK
  <2> QED  BY <1>3, <2>1, <2>2, StopKeeps
<1>4. CASE pc' = "HeaderTags" /\ buffer' = << >> /\ size' = FirstSize
  <2>1. DOMAIN buffer' = {}  BY <1>4
  <2>2. BufferShape' /\ TagsDisjoint'  BY <2>1 DEF BufferShape, TagsDisjoint
  <2>3. TypeOK'
    <3>1. size' \in Nat /\ size' % 8 = 0  BY <1>4, SMT DEF FirstSize
    <3> QED  BY <1>1, <1>2, <1>4, <1>5, <2>1, <3>1 DEF LoadMB2Kernel, TypeOK, Steps
  <2>4. ReadTags' = {}  BY <1>4, SMT DEF LoadMB2Kernel, ReadTags
  <2>5. \A type : TagsOf(type)' = {}  BY <2>4 DEF TagsOf
  <2>6. next' = 1 /\ start' = 0 /\ mode' = config'.GfxMode  BY DEF LoadMB2Kernel
  <2>7. ModeObeyed' /\ EntryOr(0)'
    BY <2>4, <2>5, <2>6 DEF ModeObeyed, EntryOr
  <2>8. next' <= Len(kernel'.header) + 1  BY <1>1, <2>6, SMT
  <2>9. HeaderKnown'
    BY <1>4, <2>4, <2>5, <2>7, <2>8 DEF HeaderKnown, Steps, Running
  <2>10. RoomLeft' /\ TagsPresent'
    BY <1>4 DEF RoomLeft, TagsPresent, Running, Steps
  <2> QED  BY <2>2, <2>3, <2>9, <2>10 DEF IInv
<1> QED  BY <1>3, <1>4 DEF LoadMB2Kernel

LEMMA ReturnKeeps == ASSUME IInv, Return PROVE IInv'
<1>1. TypeOK /\ BufferShape /\ TagsDisjoint  BY DEF IInv
<1>2. BufferShape' /\ TagsDisjoint' /\ TypeOK'
  BY <1>1 DEF Return, header, BufferShape, TagsDisjoint, TypeOK
<1> QED  BY <1>2, StopKeeps DEF Return

LEMMA ReadHeaderTagHolds == ASSUME IInv, ReadHeaderTag PROVE IInv'
<1> USE Typed
<1> DEFINE tag == kernel.header[next]
<1>1. CASE Refused(tag)
  BY <1>1, ReturnKeeps DEF ReadHeaderTag
<1>2. CASE ~Refused(tag)
  <2>1. /\ pc = "HeaderTags" /\ next <= Len(kernel.header) /\ next' = next + 1
        /\ must' = [r \in DOMAIN must |-> MustHave(tag, r)]
        /\ notElf' = (notElf \/ tag.type = "ADDRESS")
        /\ start' = IF tag.type = "ENTRY_ADDRESS" THEN tag.value ELSE start
        /\ IF tag.type = "FRAMEBUFFER" THEN SetMode(tag) ELSE UNCHANGED <<pc, mode>>
        /\ UNCHANGED <<kernel, machine, config, buffer, size, startFrom, attempts>>
    BY <1>2 DEF ReadHeaderTag
  <2>2. kernel.header \in Seq([type : STRING, optional : BOOLEAN, requests : SUBSET STRING,
                                value : Int])
    BY Constants
  <2>3. next \in DOMAIN kernel.header /\ tag.optional \in BOOLEAN
    <3>1. DOMAIN kernel.header = 1 .. Len(kernel.header)  BY <2>2
    <3>2. next \in DOMAIN kernel.header  BY <2>1, <3>1, SMT
    <3>3. tag \in [type : STRING, optional : BOOLEAN, requests : SUBSET STRING, value : Int]
      BY <2>2, <3>1, <3>2, ElementOfSeq
    <3> QED  BY <3>2, <3>3
  <2>4. config.GfxMode \in Modes  BY Constants
  <2>5. tag.type = "FRAMEBUFFER" => tag.value \in Modes \cup {0, Unfit}
    BY <2>3, HeaderAssumption DEF HeaderAssumption
  <2>6. start' \in Nat  BY <2>1, <2>3, HeaderAssumption DEF HeaderAssumption
  <2>7. mode' \in Modes /\ pc' \in {"HeaderTags", "asserted"}
    BY <2>1, <2>4, <2>5 DEF SetMode, Asks
  <2>8. must' \in [{"ACPI_OLD", "ACPI_NEW"} -> BOOLEAN]
    <3>1. \A r \in DOMAIN must : MustHave(tag, r) \in BOOLEAN  BY <2>3 DEF MustHave
    <3> QED  BY <2>1, <3>1
  <2>9. notElf' \in BOOLEAN  BY <2>1
  <2>10. next' \in 1 .. Len(kernel.header) + Len(kernel.modules) + 1
    <3>1. next \in Nat /\ Len(kernel.header) \in Nat /\ Len(kernel.modules) \in Nat
      OBVIOUS
    <3>2. next \in Nat \ {0} /\ next <= Len(kernel.header) /\ next' = next + 1  BY <2>1
    <3> QED  BY <3>1, <3>2, NextNext
  <2>11. TypeOK'
    BY <2>1, <2>6, <2>7, <2>8, <2>9, <2>10 DEF TypeOK, Steps
  <2>12. BufferShape' /\ TagsDisjoint'  BY <2>1 DEF BufferShape, TagsDisjoint
  <2>13. CASE pc' = "asserted"  BY <2>11, <2>12, <2>13, StopKeeps
  <2>14. CASE pc' = "HeaderTags"
    <3>1. RoomLeft' /\ TagsPresent'  BY <2>14 DEF RoomLeft, TagsPresent, Running
    <3>2. HeaderKnown'  BY <2>14, ReadHeaderTagKeeps
    <3> QED  BY <2>11, <2>12, <3>1, <3>2 DEF IInv
  <2> QED  BY <2>7, <2>13, <2>14
<1> QED  BY <1>1, <1>2

\* What the pushing of a tag does to the types.
LEMMA PushTyped ==
    ASSUME IInv, NEW type, NEW length \in Nat \ {0}, NEW tells, PushTag(type, length, tells),
           UNCHANGED <<kernel, machine, config, must, notElf, mode, startFrom, attempts>>,
           pc' \in {"fault"} \cup Steps, start' \in Nat,
           next' \in 1 .. Len(kernel.header) + Len(kernel.modules) + 1
    PROVE  TypeOK' /\ BufferShape' /\ TagsDisjoint' /\ HasTag(type)'
           /\ \A t : HasTag(t) => HasTag(t)'
<1> USE Typed
<1>1. /\ size' \in Nat /\ size' % 8 = 0
      /\ BufferShape' /\ TagsDisjoint'
      /\ DOMAIN buffer' \subseteq {o \in 0 .. size' : o % 8 = 0}
      /\ HasTag(type)' /\ \A t : HasTag(t) => HasTag(t)'
  BY PushKeeps
<1>2. TypeOK'  BY <1>1 DEF TypeOK
<1> QED  BY <1>1, <1>2

LEMMA PushStringsKeeps == ASSUME IInv, PushStrings PROVE IInv'
<1> USE Typed
<1>1. PushTag("CMDLINE", kernel.cmdline + 1 + 8, 0) /\ pc = "HeaderTags" /\ pc' = "Name"
      /\ UNCHANGED <<kernel, machine, config, next, must, notElf, start, mode, startFrom, attempts>>
  BY DEF PushStrings, header
<1>2. kernel.cmdline + 1 + 8 \in Nat \ {0}  BY SMT
<1>3. next \in 1 .. Len(kernel.header) + Len(kernel.modules) + 1  BY DEF IInv, TypeOK
<1>4. TypeOK' /\ BufferShape' /\ TagsDisjoint' /\ HasTag("CMDLINE")'
  BY <1>1, <1>2, <1>3, PushTyped DEF Steps
<1>5. ReadTags' = ReadTags
  <2>1. next <= Len(kernel.header) + 1 /\ next > Len(kernel.header)
    BY <1>1 DEF IInv, HeaderKnown, PushStrings
  <2>2. next = Len(kernel.header) + 1  BY <2>1, SMT
  <2>3. kernel.header \in Seq([type : STRING, optional : BOOLEAN, requests : SUBSET STRING,
                                value : Int])
    BY Constants
  <2>4. DOMAIN kernel.header = 1 .. Len(kernel.header)  BY <2>3
  <2>5. next - 1 = Len(kernel.header)  BY <2>2, SMT
  <2> QED  BY <1>1, <2>4, <2>5 DEF ReadTags
<1>6. \A type : TagsOf(type)' = TagsOf(type)  BY <1>1, <1>5 DEF TagsOf
<1>7. pc \in Running /\ pc \in Steps \ {"Map", "Exit"}  BY <1>1 DEF Running, Steps
<1>8. ModeObeyed /\ EntryOr(0)  BY <1>7 DEF IInv, HeaderKnown
<1>9. ModeObeyed' /\ EntryOr(0)'
  BY <1>1, <1>5, <1>6, <1>8 DEF ModeObeyed, EntryOr, Decides
<1>10. \A i \in TagsOf("INFORMATION_REQUEST")' : \A r \in DOMAIN must' :
         Demands(i, r)' => \/ must'[r]
                          \/ \E j \in TagsOf("INFORMATION_REQUEST")' : j > i /\ Waives(j, r)'
  BY <1>1, <1>6, <1>7 DEF IInv, HeaderKnown, Demands, Waives
<1>11. (\A i \in ReadTags' : ~Refused(kernel'.header[i])) /\ (TagsOf("ADDRESS")' # {} => notElf')
  BY <1>1, <1>5, <1>6, <1>7 DEF IInv, HeaderKnown
<1>12. HeaderKnown'  BY <1>1, <1>9, <1>10, <1>11 DEF HeaderKnown, Steps
<1>13. RoomLeft' /\ TagsPresent'
  BY <1>1, <1>4 DEF RoomLeft, TagsPresent
<1> QED  BY <1>4, <1>12, <1>13 DEF IInv

LEMMA PushNameKeeps == ASSUME IInv, PushName PROVE IInv'
<1> USE Typed
<1>1. PushTag("BOOT_LOADER_NAME", 18 + 8, 0) /\ pc = "Name" /\ pc' = "Modules" /\ next' = 1
      /\ UNCHANGED <<kernel, machine, config, must, notElf, start, mode, startFrom, attempts>>
  BY DEF PushName
<1>2. next' \in 1 .. Len(kernel.header) + Len(kernel.modules) + 1  BY <1>1, FirstNext
<1>3. 18 + 8 \in Nat \ {0}  BY SMT
<1>4. TypeOK' /\ BufferShape' /\ TagsDisjoint' /\ HasTag("BOOT_LOADER_NAME")'
      /\ \A t : HasTag(t) => HasTag(t)'
  BY <1>1, <1>2, <1>3, PushTyped DEF Steps
<1>5. HeaderKnown'  BY <1>1, HeaderStays DEF IInv, Steps, Running
<1>6. HasTag("CMDLINE")  BY <1>1 DEF IInv, TagsPresent, Running, Steps
<1>7. RoomLeft' /\ TagsPresent'  BY <1>1, <1>4, <1>6 DEF RoomLeft, TagsPresent
<1> QED  BY <1>4, <1>5, <1>7 DEF IInv

LEMMA PushModuleKeeps == ASSUME IInv, PushModule PROVE IInv'
<1> USE Typed
<1>1. PushTag("MODULE", ModuleTagSize(next), next) /\ pc = "Modules" /\ pc' = "Modules"
      /\ next <= Len(kernel.modules) /\ next' = next + 1
      /\ UNCHANGED <<kernel, machine, config, must, notElf, start, mode, startFrom, attempts>>
  BY DEF PushModule
<1>2. next' \in 1 .. Len(kernel.header) + Len(kernel.modules) + 1  BY <1>1, NextNext
<1>3. ModuleTagSize(next) \in Nat \ {0}
  <2> DEFINE m == kernel.modules[next]
  <2>1. next \in 1 .. Len(kernel.modules)  BY <1>1, SMT
  <2>2. m \in Nat /\ ModuleTagSize(next) = 16 + m + 1  BY <2>1 DEF ModuleTagSize
  <2> HIDE DEF m
  <2>3. 16 + m + 1 \in Nat \ {0}  BY <2>2, SMT
  <2> QED  BY <2>2, <2>3
<1>4. TypeOK' /\ BufferShape' /\ TagsDisjoint' /\ \A t : HasTag(t) => HasTag(t)'
  BY <1>1, <1>2, <1>3, PushTyped DEF Steps
<1>5. HeaderKnown'  BY <1>1, HeaderStays DEF IInv, Steps, Running
<1>6. HasTag("CMDLINE") /\ HasTag("BOOT_LOADER_NAME")
  BY <1>1 DEF IInv, TagsPresent, Running, Steps
<1>7. RoomLeft' /\ TagsPresent'  BY <1>1, <1>4, <1>6 DEF RoomLeft, TagsPresent
<1> QED  BY <1>4, <1>5, <1>7 DEF IInv

LEMMA PushFramebufferKeeps == ASSUME IInv, PushFramebuffer PROVE IInv'
<1> USE Typed
<1>1. PushTag("FRAMEBUFFER", 40, mode) /\ pc = "Modules" /\ pc' = "OldAcpi"
      /\ UNCHANGED <<kernel, machine, config, next, must, notElf, start, mode, startFrom, attempts>>
  BY DEF PushFramebuffer, header
<1>2. next' \in 1 .. Len(kernel.header) + Len(kernel.modules) + 1
  BY <1>1 DEF IInv, TypeOK
<1>3. 40 \in Nat \ {0}  BY SMT
<1>4. TypeOK' /\ BufferShape' /\ TagsDisjoint' /\ HasTag("FRAMEBUFFER")'
      /\ \A t : HasTag(t) => HasTag(t)'
  BY <1>1, <1>2, <1>3, PushTyped DEF Steps
<1>5. HeaderKnown'  BY <1>1, HeaderStays DEF IInv, Steps, Running
<1>6. HasTag("CMDLINE") /\ HasTag("BOOT_LOADER_NAME")
  BY <1>1 DEF IInv, TagsPresent, Running, Steps
<1>7. RoomLeft' /\ TagsPresent'  BY <1>1, <1>4, <1>6 DEF RoomLeft, TagsPresent
<1> QED  BY <1>4, <1>5, <1>7 DEF IInv

\* Either ACPI table is pushed, or there is none and none is demanded.
LEMMA PushAcpiTyped ==
    ASSUME IInv, NEW present, NEW type, NEW length \in Nat \ {0}, PushAcpi(present, type, length),
           UNCHANGED <<kernel, machine, config, next, must, notElf, start, mode, startFrom, attempts>>,
           pc' \in Steps
    PROVE  TypeOK' /\ BufferShape' /\ TagsDisjoint' /\ (must[type] => HasTag(type)')
           /\ \A t : HasTag(t) => HasTag(t)'
<1> USE Typed
<1>1. next' \in 1 .. Len(kernel.header) + Len(kernel.modules) + 1 /\ TypeOK
  BY DEF IInv, TypeOK
<1>2. CASE PushTag(type, length, 0)
  BY <1>1, <1>2, PushTyped
<1>3. CASE ~must[type] /\ UNCHANGED <<buffer, size>>
  <2>1. BufferShape' /\ TagsDisjoint'  BY <1>3 DEF BufferShape, TagsDisjoint
  <2>2. \A t : HasTag(t)' <=> HasTag(t)  BY <1>3 DEF HasTag
  <2>3. TypeOK'  BY <1>1, <1>3 DEF TypeOK
  <2> QED  BY <1>3, <2>1, <2>2, <2>3
<1> QED  BY <1>2, <1>3 DEF PushAcpi

LEMMA PushOldAcpiKeeps == ASSUME IInv, PushOldAcpi PROVE IInv'
<1> USE Typed
<1>1. PushAcpi(machine.old, "ACPI_OLD", 20 + 8) /\ pc = "OldAcpi" /\ pc' = "NewAcpi"
      /\ UNCHANGED <<kernel, machine, config, next, must, notElf, start, mode, startFrom, attempts>>
  BY DEF PushOldAcpi, header
<1>2. 20 + 8 \in Nat \ {0}  BY SMT
<1>3. TypeOK' /\ BufferShape' /\ TagsDisjoint' /\ (must["ACPI_OLD"] => HasTag("ACPI_OLD")')
      /\ \A t : HasTag(t) => HasTag(t)'
  BY <1>1, <1>2, PushAcpiTyped DEF Steps
<1>4. HeaderKnown'  BY <1>1, HeaderStays DEF IInv, Steps, Running
<1>5. HasTag("CMDLINE") /\ HasTag("BOOT_LOADER_NAME") /\ HasTag("FRAMEBUFFER")
  BY <1>1 DEF IInv, TagsPresent, Running, Steps
<1>6. RoomLeft' /\ TagsPresent'  BY <1>1, <1>3, <1>5 DEF RoomLeft, TagsPresent
<1> QED  BY <1>3, <1>4, <1>6 DEF IInv

LEMMA PushNewAcpiKeeps == ASSUME IInv, PushNewAcpi PROVE IInv'
<1> USE Typed
<1>1. PushAcpi(machine.new, "ACPI_NEW", 36 + 8) /\ pc = "NewAcpi" /\ pc' = "Elf"
      /\ UNCHANGED <<kernel, machine, config, next, must, notElf, start, mode, startFrom, attempts>>
  BY DEF PushNewAcpi, header
<1>2. 36 + 8 \in Nat \ {0}  BY SMT
<1>3. TypeOK' /\ BufferShape' /\ TagsDisjoint' /\ (must["ACPI_NEW"] => HasTag("ACPI_NEW")')
      /\ \A t : HasTag(t) => HasTag(t)'
  BY <1>1, <1>2, PushAcpiTyped DEF Steps
<1>4. HeaderKnown'  BY <1>1, HeaderStays DEF IInv, Steps, Running
<1>5. HasTag("CMDLINE") /\ HasTag("BOOT_LOADER_NAME") /\ HasTag("FRAMEBUFFER")
      /\ (must["ACPI_OLD"] => HasTag("ACPI_OLD"))
  BY <1>1 DEF IInv, TagsPresent, Running, Steps
<1>6. RoomLeft' /\ TagsPresent'  BY <1>1, <1>3, <1>5 DEF RoomLeft, TagsPresent
<1> QED  BY <1>3, <1>4, <1>6 DEF IInv

LEMMA PushElfKeeps == ASSUME IInv, PushElf PROVE IInv'
<1> USE Typed
<1> DEFINE length == 20 + kernel.sections * kernel.sectionSize
<1>1. /\ PushTag("ELF_SECTIONS", length, kernel.sections)
      /\ pc = "Elf" /\ ~notElf /\ pc' \in {"fault", "Map"}
      /\ start' = IF start = 0 THEN kernel.entry ELSE start
      /\ UNCHANGED <<kernel, machine, config, next, must, notElf, mode, startFrom, attempts>>
  BY DEF PushElf
<1>2. length \in Nat \ {0}
  <2> DEFINE a == kernel.sections
             b == kernel.sectionSize
  <2>1. a \in Nat /\ b \in Nat  OBVIOUS
  <2> HIDE DEF a, b
  <2>2. a * b \in Nat  BY <2>1, SMT
  <2>3. 20 + a * b \in Nat \ {0}  BY <2>2, SMT
  <2> QED  BY <2>3 DEF a, b
<1> HIDE DEF length
<1>3. next' \in 1 .. Len(kernel.header) + Len(kernel.modules) + 1 /\ start' \in Nat
  BY <1>1 DEF IInv, TypeOK
<1>4. TypeOK' /\ BufferShape' /\ TagsDisjoint' /\ HasTag("ELF_SECTIONS")'
      /\ \A t : HasTag(t) => HasTag(t)'
  BY <1>1, <1>2, <1>3, PushTyped DEF Steps
<1>5. CASE pc' = "fault"  BY <1>4, <1>5, StopKeeps
<1>6. CASE pc' = "Map"
  <2>1. ReadTags' = ReadTags  BY <1>1, <1>6 DEF ReadTags
  <2>2. \A type : TagsOf(type)' = TagsOf(type)  BY <1>1, <2>1 DEF TagsOf
  <2>3. pc \in Running /\ pc \in Steps \ {"Map", "Exit"}  BY <1>1 DEF Running, Steps
  <2>4. ModeObeyed /\ EntryOr(0)  BY <2>3 DEF IInv, HeaderKnown
  <2>5. ModeObeyed'  BY <1>1, <2>1, <2>2, <2>4 DEF ModeObeyed, Decides
  <2>6. EntryOr(kernel.entry)'
    BY <1>1, <2>1, <2>2, <2>4 DEF EntryOr, Decides
  <2>7. \A i \in TagsOf("INFORMATION_REQUEST")' : \A r \in DOMAIN must' :
           Demands(i, r)' => \/ must'[r]
                            \/ \E j \in TagsOf("INFORMATION_REQUEST")' : j > i /\ Waives(j, r)'
    BY <1>1, <2>2, <2>3 DEF IInv, HeaderKnown, Demands, Waives
  <2>8. (\A i \in ReadTags' : ~Refused(kernel'.header[i])) /\ (TagsOf("ADDRESS")' # {} => notElf')
    BY <1>1, <2>1, <2>2, <2>3 DEF IInv, HeaderKnown
  <2>9. HeaderKnown'  BY <1>1, <1>6, <2>5, <2>6, <2>7, <2>8 DEF HeaderKnown, Steps
  <2>10. /\ HasTag("CMDLINE") /\ HasTag("BOOT_LOADER_NAME") /\ HasTag("FRAMEBUFFER")
         /\ (must["ACPI_OLD"] => HasTag("ACPI_OLD")) /\ (must["ACPI_NEW"] => HasTag("ACPI_NEW"))
    BY <1>1 DEF IInv, TagsPresent, Running, Steps
  <2>11. RoomLeft' /\ TagsPresent'  BY <1>1, <1>4, <1>6, <2>10 DEF RoomLeft, TagsPresent
  <2> QED  BY <1>4, <2>9, <2>11 DEF IInv
<1> QED  BY <1>1, <1>5, <1>6

LEMMA PushMapKeeps == ASSUME IInv, PushMap PROVE IInv'
<1> USE Typed
<1>1. /\ pc = "Map" /\ pc' = "Exit" /\ startFrom' = size
      /\ size' = size + AllocationSize(MapRoom)
      /\ UNCHANGED <<kernel, machine, config, next, must, notElf, start, mode, buffer, attempts>>
  BY DEF PushMap, header
<1>2. MapRoom \in Nat  BY RoomTyped
<1>3. AllocationSize(MapRoom) \in Nat /\ AllocationSize(MapRoom) % 8 = 0
  BY <1>2, AlignRounds DEF AllocationSize
<1> DEFINE room == AllocationSize(MapRoom)
<1>4. room' = room  BY <1>1 DEF AllocationSize, MapRoom, MapSize, Align
<1> HIDE DEF room
<1>5. room \in Nat /\ room % 8 = 0 /\ size' = size + room  BY <1>1, <1>3 DEF room
<1>6. size' \in Nat /\ size' % 8 = 0 /\ size' >= size
  <2>1. size \in Nat /\ size % 8 = 0  OBVIOUS
  <2>2. (size + room) % 8 = 0  BY <1>5, <2>1, SumOfEights
  <2> QED  BY ONLY <1>5, <2>1, <2>2, SMT
<1>7. \A o \in DOMAIN buffer : o \in Nat /\ o <= size /\ o % 8 = 0 /\ buffer[o].size \in Nat \ {0}
                           /\ o + buffer[o].size <= size
  BY SMT DEF BufferShape, TagsDisjoint
<1>8. TagsDisjoint'
  <2>1. \A o \in DOMAIN buffer : o + buffer[o].size <= size'  BY <1>6, <1>7, SMT
  <2> QED  BY <1>1, <2>1 DEF TagsDisjoint
<1>9. BufferShape'  BY <1>1 DEF BufferShape
<1>10. DOMAIN buffer' \subseteq {o \in 0 .. size' : o % 8 = 0}  BY <1>1, <1>6, <1>7, SMT
<1>11. TypeOK'
  <2>1. TypeOK  BY DEF IInv
  <2> QED  BY <1>1, <1>6, <1>10, <2>1 DEF TypeOK, Steps
<1>12. RoomLeft'
  <2>1. startFrom' % 8 = 0 /\ startFrom' + room' = size'  BY <1>1, <1>4, <1>5
  <2>2. \A o \in DOMAIN buffer' : o + buffer'[o].size <= startFrom'  BY <1>1, <1>7
  <2> QED  BY <2>1, <2>2 DEF RoomLeft, room
<1>13. HeaderKnown'  BY <1>1, HeaderStays DEF IInv, Steps, Running
<1>14. TagsPresent'
  <2>1. \A t : HasTag(t)' <=> HasTag(t)  BY <1>1 DEF HasTag
  <2> QED  BY <1>1, <2>1 DEF IInv, TagsPresent, Running, Steps
<1> QED  BY <1>8, <1>9, <1>11, <1>12, <1>13, <1>14 DEF IInv

LEMMA ExitAndJumpKeeps == ASSUME IInv, ExitAndJump PROVE IInv'
<1> USE Typed
<1>1. /\ pc = "Exit" /\ pc' = "jumped"
      /\ UNCHANGED <<kernel, machine, config, next, must, notElf, start, mode, size, startFrom, attempts>>
  BY DEF ExitAndJump, header
<1>2. PICK n \in Counts :
        buffer' = [o \in DOMAIN buffer \cup {startFrom, EfiAt(n), EndAt(n)} |->
                     CASE o = startFrom -> MmapTag(n)
                       [] o = EfiAt(n) -> EfiTag(n)
                       [] o = EndAt(n) -> EndTag
                       [] OTHER -> buffer[o]]
  BY DEF ExitAndJump, EfiAt, EndAt, MmapTag, EfiTag, EndTag
<1>3. /\ startFrom \in Nat /\ startFrom % 8 = 0 /\ startFrom + AllocationSize(MapRoom) = size
      /\ \A o \in DOMAIN buffer : o + buffer[o].size <= startFrom
  BY <1>1 DEF IInv, RoomLeft
<1>4. size \in Nat /\ size' = size  BY <1>1
<1>5. /\ BufferShape' /\ TagsDisjoint'
      /\ DOMAIN buffer' \subseteq {o \in 0 .. size' : o % 8 = 0}
      /\ \A t : HasTag(t) => HasTag(t)'
      /\ HasTag("MMAP")' /\ HasTag("EFI_MMAP")'
  BY <1>2, <1>3, <1>4, ThreeTags
<1>6. TypeOK'
  <2>1. TypeOK  BY DEF IInv
  <2> QED  BY <1>1, <1>5, <2>1 DEF TypeOK
<1>7. HeaderKnown'  BY <1>1, HeaderStays DEF IInv, Steps, Running
<1>8. TagsPresent'
  <2>3. /\ HasTag("CMDLINE") /\ HasTag("BOOT_LOADER_NAME") /\ HasTag("FRAMEBUFFER")
        /\ (must["ACPI_OLD"] => HasTag("ACPI_OLD")) /\ (must["ACPI_NEW"] => HasTag("ACPI_NEW"))
        /\ HasTag("ELF_SECTIONS")
    BY <1>1 DEF IInv, TagsPresent, Running, Steps
  <2> QED  BY <1>1, <1>5, <2>3 DEF TagsPresent
<1>9. RoomLeft'  BY <1>1 DEF RoomLeft
<1> QED  BY <1>5, <1>6, <1>7, <1>8, <1>9 DEF IInv

LEMMA Consecution == ASSUME IInv, [Next]_vars PROVE IInv'
<1>1. CASE Next
  BY <1>1, LoadMB2KernelKeeps, ReadHeaderTagHolds, PushStringsKeeps, PushNameKeeps, PushModuleKeeps,
     PushFramebufferKeeps, PushOldAcpiKeeps, PushNewAcpiKeeps, PushElfKeeps, PushMapKeeps,
     ExitAndJumpKeeps, ReturnKeeps DEF Next, Fail
<1>2. CASE UNCHANGED vars
  <2>1. UNCHANGED <<pc, kernel, machine, config, next, must, notElf, start, mode, buffer, size,
                    startFrom, attempts>>
    BY <1>2 DEF vars, header
  <2>2. ReadTags' = ReadTags  BY <2>1 DEF ReadTags
  <2>3. \A type : TagsOf(type)' = TagsOf(type)  BY <2>1, <2>2 DEF TagsOf
  <2>4. (ModeObeyed' <=> ModeObeyed) /\ (EntryOr(0)' <=> EntryOr(0))
        /\ (EntryOr(kernel.entry)' <=> EntryOr(kernel.entry))
    BY <2>1, <2>2, <2>3 DEF ModeObeyed, EntryOr, Decides
  <2>5. HeaderKnown'
    BY <2>1, <2>2, <2>3, <2>4 DEF IInv, HeaderKnown, Demands, Waives
  <2>6. TypeOK' /\ BufferShape' /\ TagsDisjoint'
    BY <2>1 DEF IInv, TypeOK, BufferShape, TagsDisjoint
  <2>7. RoomLeft'
    BY <2>1 DEF IInv, RoomLeft, AllocationSize, Align, MapRoom, MapSize
  <2>8. TagsPresent'  BY <2>1 DEF IInv, TagsPresent, HasTag
  <2> QED  BY <2>5, <2>6, <2>7, <2>8 DEF IInv
<1> QED  BY <1>1, <1>2

\* The inductive invariant of the buffer and of what is known of the header holds
\* whatever is loaded, however often, and wherever it fails.
THEOREM Invariance == Spec => []IInv
<1>1. Init => IInv  BY InitHolds
<1>2. IInv /\ [Next]_vars => IInv'  BY Consecution
<1> QED  BY <1>1, <1>2, PTL DEF Spec

\* Every variable keeps its type, and the buffer is made of aligned tags.
THEOREM TypeCorrect == Spec => []TypeOK
<1>1. IInv => TypeOK  BY DEF IInv
<1> QED  BY <1>1, Invariance, PTL

\* PushBootParams and the tags of the memory map never write outside the buffer or
\* over one another, for any lengths of strings and any map that is read.
THEOREM TagsApart == Spec => []TagsDisjoint
<1>1. IInv => TagsDisjoint  BY DEF IInv
<1> QED  BY <1>1, Invariance, PTL

\* The last header tag of a kind decides on the graphics mode and the entry point of
\* the kernel that is entered.
THEOREM LastTagDecides == Spec => []HeaderObeyed
<1>1. IInv => HeaderObeyed  BY DEF IInv, HeaderKnown, HeaderObeyed, Running
<1> QED  BY <1>1, Invariance, PTL

\* A kernel whose header demands what the loader has not, or the machine has not, is
\* not entered.
THEOREM DemandsMet == Spec => []RequestsMet
<1>1. ASSUME IInv, pc = "jumped" PROVE RequestsMet
  <2>1. /\ \A i \in ReadTags : ~Refused(kernel.header[i])
        /\ TagsOf("ADDRESS") # {} => notElf
        /\ ~notElf
        /\ \A i \in TagsOf("INFORMATION_REQUEST") : \A r \in DOMAIN must :
              Demands(i, r) => \/ must[r]
                               \/ \E j \in TagsOf("INFORMATION_REQUEST") : j > i /\ Waives(j, r)
    BY <1>1 DEF IInv, HeaderKnown, Running
  <2>2. /\ HasTag("CMDLINE") /\ HasTag("BOOT_LOADER_NAME") /\ HasTag("FRAMEBUFFER")
        /\ (must["ACPI_OLD"] => HasTag("ACPI_OLD")) /\ (must["ACPI_NEW"] => HasTag("ACPI_NEW"))
        /\ HasTag("ELF_SECTIONS") /\ HasTag("MMAP") /\ HasTag("EFI_MMAP")
    BY <1>1 DEF IInv, TagsPresent, Running
  <2>3. ReadTags = DOMAIN kernel.header /\ DOMAIN must = {"ACPI_OLD", "ACPI_NEW"}
    BY <1>1, Typed DEF ReadTags
  <2>4. ASSUME NEW i \in TagsOf("INFORMATION_REQUEST"), NEW r \in kernel.header[i].requests,
               Demands(i, r)
        PROVE  \/ r = "MODULE" \/ HasTag(r)
               \/ /\ r \in DOMAIN must
                  /\ \E j \in TagsOf("INFORMATION_REQUEST") : j > i /\ Waives(j, r)
    <3>1. r \in Supported  BY <2>1, <2>4 DEF TagsOf, Refused, Demands
    <3>2. CASE r \in {"ACPI_OLD", "ACPI_NEW"}  BY <2>1, <2>2, <2>3, <2>4, <3>2
    <3>3. CASE r \notin {"ACPI_OLD", "ACPI_NEW"}  BY <2>2, <3>1, <3>3 DEF Supported
    <3> QED  BY <3>2, <3>3
  <2>5. \A i \in DOMAIN kernel.header :
           kernel.header[i].type \in {"EFI_BS", "ENTRY_ADDRESS_EFI32", "ENTRY_ADDRESS_EFI64",
                                    "CONSOLE_FLAGS", "RELOCATABLE"} => kernel.header[i].optional
    BY <2>1, <2>3 DEF Refused
  <2> QED  BY <2>1, <2>4, <2>5 DEF RequestsMet
<1>2. IInv => RequestsMet  BY <1>1 DEF RequestsMet
<1> QED  BY <1>2, Invariance, PTL

-----------------------------------------------------------------------------
(* What the kernel finds in the buffer: the tags that are told, one behind *)
(* the other.                                                              *)

TagTypes ==
    {"CMDLINE", "BOOT_LOADER_NAME", "MODULE", "FRAMEBUFFER", "ACPI_OLD", "ACPI_NEW",
     "ELF_SECTIONS", "MMAP", "EFI_MMAP", "END"}
Contents == [type : TagTypes, tells : Int]

\* The tags lie at the offsets at[1], at[2] and so on, from the ninth byte to the byte
\* before the offset to, and tell this.
Places(b, tags, to, at) ==
    /\ at[1] = 8 /\ at[Len(tags) + 1] = to
    /\ DOMAIN b = {at[i] : i \in 1 .. Len(tags)}
    /\ \A i \in 1 .. Len(tags) :
          /\ at[i] < to /\ at[i] % 8 = 0 /\ at[i + 1] = at[i] + Align(b[at[i]].size)
          /\ b[at[i]].size \in Nat \ {0} /\ Found(b[at[i]]) = tags[i]

Chained(b, tags, to) ==
    to \in Nat /\ to % 8 = 0 /\ \E at \in [1 .. Len(tags) + 1 -> Nat] : Places(b, tags, to, at)

\* A tag put at the end of the others.
With(b, to, tag) == [o \in DOMAIN b \cup {to} |-> IF o = to THEN tag ELSE b[o]]

\* Where the next tag lies.
LEMMA AlignBehind ==
    ASSUME NEW m \in Nat, NEW n \in Nat, m % 8 = 0
    PROVE  Align(m + n) = m + Align(n)
<1>1. PICK k \in Nat : m = 8 * k  BY SMT
<1>2. (8 * k + n + 7) \div 8 = k + ((n + 7) \div 8)  BY SMT
<1> QED  BY <1>1, <1>2, SMT DEF Align

LEMMA AlignedBehind ==
    ASSUME NEW m \in Nat, NEW n \in Nat \ {0}
    PROVE  m < m + Align(n)
<1>1. Align(n) \in Nat /\ Align(n) >= n  BY AlignRounds
<1> QED  BY ONLY <1>1, m \in Nat, n \in Nat \ {0}

LEMMA NothingChained ==
    ASSUME NEW b, DOMAIN b = {}
    PROVE  Chained(b, << >>, 8)
<1> DEFINE at == [i \in 1 .. 1 |-> 8]
<1>1. Len(<< >>) = 0  OBVIOUS
<1>2. at \in [1 .. 0 + 1 -> Nat] /\ at[1] = 8 /\ at[0 + 1] = 8  OBVIOUS
<1>3. 8 \in Nat /\ 8 % 8 = 0  BY SMT
<1>4. {at[i] : i \in 1 .. 0} = {}  OBVIOUS
<1> HIDE DEF at
<1>5. Places(b, << >>, 8, at)  BY <1>1, <1>2, <1>4 DEF Places
<1> QED  BY <1>1, <1>2, <1>3, <1>5 DEF Chained

LEMMA ChainedAppended ==
    ASSUME NEW b, NEW tags \in Seq(Contents), NEW to, NEW tag, Chained(b, tags, to),
           tag.size \in Nat \ {0}, Found(tag) \in Contents
    PROVE  Chained(With(b, to, tag), Append(tags, Found(tag)), to + Align(tag.size))
<1>1. PICK n \in Nat : n = Len(tags)
  OBVIOUS
<1> DEFINE c == With(b, to, tag)
           more == Append(tags, Found(tag))
           end == to + Align(tag.size)
<1>2. Len(more) = n + 1 /\ more[n + 1] = Found(tag) /\ \A i \in 1 .. n : more[i] = tags[i]
  BY <1>1
<1>3. PICK at \in [1 .. n + 1 -> Nat] : Places(b, tags, to, at)
  BY <1>1 DEF Chained
<1>4. /\ at[1] = 8 /\ at[n + 1] = to /\ DOMAIN b = {at[i] : i \in 1 .. n}
      /\ \A i \in 1 .. n :
            /\ at[i] < to /\ at[i] % 8 = 0 /\ at[i + 1] = at[i] + Align(b[at[i]].size)
            /\ b[at[i]].size \in Nat \ {0} /\ Found(b[at[i]]) = tags[i]
  BY <1>1, <1>3 DEF Places
<1>5. to \in Nat /\ to % 8 = 0
  BY DEF Chained
<1>6. Align(tag.size) \in Nat /\ Align(tag.size) % 8 = 0 /\ Align(tag.size) >= tag.size
  BY AlignRounds
<1>7. end \in Nat /\ end % 8 = 0 /\ to < end
  BY <1>5, <1>6, SumOfEights, SMT
<1> DEFINE next2 == [i \in 1 .. n + 2 |-> IF i = n + 2 THEN end ELSE at[i]]
<1>8. /\ next2 \in [1 .. n + 2 -> Nat]
      /\ next2[n + 2] = end /\ \A i \in 1 .. n + 1 : next2[i] = at[i]
  BY <1>7
<1>9. \A i \in 1 .. n + 1 : at[i] \in Nat
  OBVIOUS
<1>10. /\ DOMAIN c = DOMAIN b \cup {to} /\ c[to] = tag
       /\ \A o \in DOMAIN b : o # to => c[o] = b[o]
  BY DEF With
<1>11. \A i \in 1 .. n : at[i] \in DOMAIN b /\ at[i] # to
  BY <1>4, <1>5
<1>12. \A i \in 1 .. n : c[at[i]] = b[at[i]]
  BY <1>10, <1>11
<1> HIDE DEF c, more, end, next2
<1>13. DOMAIN c = {next2[i] : i \in 1 .. n + 1}
  <2>1. \A o \in DOMAIN c : \E i \in 1 .. n + 1 : o = next2[i]
    BY <1>4, <1>8, <1>10
  <2>2. ASSUME NEW i \in 1 .. n + 1 PROVE next2[i] \in DOMAIN c
    <3>1. CASE i = n + 1
      BY <1>4, <1>8, <1>10, <3>1
    <3>2. CASE i \in 1 .. n
      BY <1>8, <1>10, <1>11, <3>2
    <3> QED  BY <3>1, <3>2
  <2> QED  BY <2>1, <2>2
<1>14. ASSUME NEW i \in 1 .. n + 1
       PROVE  /\ next2[i] < end /\ next2[i] % 8 = 0
              /\ next2[i + 1] = next2[i] + Align(c[next2[i]].size)
              /\ c[next2[i]].size \in Nat \ {0} /\ Found(c[next2[i]]) = more[i]
  <2>1. CASE i = n + 1
    <3>1. next2[i] = to /\ next2[i + 1] = end
      BY <1>4, <1>8, <2>1
    <3> QED  BY <1>2, <1>5, <1>7, <1>10, <2>1, <3>1 DEF end
  <2>2. CASE i \in 1 .. n
    <3>1. next2[i] = at[i] /\ next2[i + 1] = at[i + 1] /\ c[at[i]] = b[at[i]] /\ more[i] = tags[i]
      BY <1>2, <1>8, <1>12, <2>2
    <3>2. at[i] < end
      <4>1. at[i] < to
        BY ONLY <1>4, <2>2
      <4>2. at[i] \in Nat
        BY ONLY <1>9, i \in 1 .. n + 1
      <4>3. to \in Nat /\ end \in Nat /\ to < end
        BY ONLY <1>5, <1>7
      <4> QED  BY ONLY <4>1, <4>2, <4>3
    <3> QED  BY <1>4, <2>2, <3>1, <3>2
  <2> QED  BY <2>1, <2>2
<1>15. next2[1] = 8 /\ next2[Len(more) + 1] = end
  BY <1>2, <1>4, <1>8
<1>16. Places(c, more, end, next2)
  BY <1>2, <1>13, <1>14, <1>15 DEF Places
<1>17. next2 \in [1 .. Len(more) + 1 -> Nat]
  BY <1>2, <1>8
<1> QED  BY <1>7, <1>16, <1>17 DEF Chained, c, more, end

\* The kernel that follows the tags up to the end tag finds what they tell.
LEMMA TagsRead ==
    ASSUME NEW tags \in Seq(Contents), NEW to, Chained(buffer, Append(tags, Told("END", 0)), to),
           \A i \in 1 .. Len(tags) : tags[i].type # "END",
           size \in Nat, \A o \in DOMAIN buffer : o \in 0 .. size
    PROVE  TagsFrom[8] = tags
<1>1. PICK n \in Nat : n = Len(tags)
  OBVIOUS
<1> DEFINE all == Append(tags, Told("END", 0))
<1>2. Len(all) = n + 1 /\ all[n + 1] = Told("END", 0) /\ \A i \in 1 .. n : all[i] = tags[i]
  BY <1>1
<1> HIDE DEF all
<1>3. PICK at \in [1 .. n + 2 -> Nat] : Places(buffer, all, to, at)
  BY <1>2 DEF Chained, all
<1>4. /\ at[1] = 8 /\ DOMAIN buffer = {at[i] : i \in 1 .. n + 1}
      /\ \A i \in 1 .. n + 1 :
            /\ at[i + 1] = at[i] + Align(buffer[at[i]].size)
            /\ buffer[at[i]].size \in Nat \ {0} /\ Found(buffer[at[i]]) = all[i]
  BY <1>2, <1>3 DEF Places
<1>5. \A i \in 1 .. n + 1 : at[i] \in DOMAIN buffer /\ at[i] \in 0 .. size
  BY <1>4
<1>6. /\ buffer[at[n + 1]].type = "END"
      /\ \A i \in 1 .. n : buffer[at[i]].type # "END" /\ Found(buffer[at[i]]) = tags[i]
  BY <1>1, <1>2, <1>4 DEF Found, Told
<1> DEFINE Rec(f) == [o \in 0 .. size |->
               CASE o \notin DOMAIN buffer -> <<Junk>>
                 [] o \in DOMAIN buffer /\ buffer[o].type = "END" -> <<>>
                 [] OTHER -> <<Found(buffer[o])>> \o f[o + Align(buffer[o].size)]]
\* What is told from the i-th tag on.
           From(i) == SubSeq(tags, i, n)
           Which(o) == CHOOSE i \in 1 .. n + 1 : at[i] = o
           found == [o \in 0 .. size |-> IF o \in DOMAIN buffer THEN From(Which(o)) ELSE <<Junk>>]
<1>7. \A i, j \in 1 .. n + 1 : i < j => at[i] < at[j]
  <2> SUFFICES ASSUME NEW i \in 1 .. n + 1 PROVE \A j \in 1 .. n + 1 : i < j => at[i] < at[j]
    OBVIOUS
  <2> DEFINE T == {m \in 0 .. n + 1 : i < m => at[i] < at[m]}
  <2>1. 0 \in T  OBVIOUS
  <2>2. ASSUME NEW m \in 1 .. n + 1, m - 1 \in T PROVE m \in T
    <3>1. CASE i < m
      <4>1. m - 1 \in 1 .. n + 1 /\ at[m - 1] \in Nat
        BY <3>1
      <4>2. at[m] = at[m - 1] + Align(buffer[at[m - 1]].size) /\ buffer[at[m - 1]].size \in Nat \ {0}
        <5> DEFINE k == m - 1
        <5>1. k \in 1 .. n + 1 /\ k + 1 = m
          BY <4>1
        <5> HIDE DEF k
        <5>2. at[k + 1] = at[k] + Align(buffer[at[k]].size) /\ buffer[at[k]].size \in Nat \ {0}
          BY ONLY <1>4, <5>1
        <5> QED  BY <5>1, <5>2 DEF k
      <4>3. at[m - 1] < at[m]
        <5>1. at[m - 1] < at[m - 1] + Align(buffer[at[m - 1]].size)
          BY ONLY <4>1, <4>2, AlignedBehind
        <5> QED  BY ONLY <4>2, <5>1, Zenon
      <4>4. m - 1 = i \/ at[i] < at[m - 1]
        BY <2>2, <3>1
      <4>5. at[i] \in Nat /\ at[m] \in Nat
        OBVIOUS
      <4> QED  BY ONLY <4>1, <4>3, <4>4, <4>5, m \in 0 .. n + 1
    <3> QED  BY <3>1
  <2> HIDE DEF T
  <2>3. n + 1 \in Nat  OBVIOUS
  <2>4. 0 .. n + 1 \subseteq T
    BY <2>1, <2>2, <2>3, BoundedInduction
  <2> QED  BY <2>4 DEF T
<1>8. \A i \in 1 .. n + 1 : Which(at[i]) = i
  <2>1. \A i, j \in 1 .. n + 1 : at[i] = at[j] => i = j
    <3> SUFFICES ASSUME NEW i \in 1 .. n + 1, NEW j \in 1 .. n + 1, at[i] = at[j] PROVE i = j
      OBVIOUS
    <3>1. at[i] \in Nat /\ at[j] \in Nat
      OBVIOUS
    <3>2. ~(i < j) /\ ~(j < i)
      BY <1>7, <3>1
    <3> QED  BY <3>2
  <2> QED  BY <2>1
<1>9. From(n + 1) = << >> /\ \A i \in 1 .. n : From(i) = <<tags[i]>> \o From(i + 1)
  BY <1>1
<1>10. found = Rec(found)
  <2> SUFFICES ASSUME NEW o \in 0 .. size PROVE found[o] = Rec(found)[o]
    BY Zenon
  <2>1. CASE o \notin DOMAIN buffer
    BY <2>1
  <2>2. CASE o \in DOMAIN buffer
    <3>1. PICK i \in 1 .. n + 1 : o = at[i]
      BY <1>4, <2>2
    <3>2. found[o] = From(i)
      <4> HIDE DEF From, Which
      <4> QED  BY <1>8, <2>2, <3>1
    <3>3. CASE i = n + 1
      <4> HIDE DEF From, found
      <4> QED  BY <1>6, <1>9, <2>2, <3>1, <3>2, <3>3
    <3>4. CASE i \in 1 .. n
      <4>1. i + 1 \in 1 .. n + 1 /\ at[i + 1] \in DOMAIN buffer /\ at[i + 1] \in 0 .. size
        BY <1>5, <3>4
      <4>2. found[at[i + 1]] = From(i + 1)
        <5> HIDE DEF From, Which
        <5> QED  BY <1>8, <4>1
      <4>3. o + Align(buffer[o].size) = at[i + 1]
        BY <1>4, <3>1
      <4>4. buffer[o].type # "END" /\ Found(buffer[o]) = tags[i]
        BY <1>6, <3>1, <3>4
      <4> HIDE DEF From, found
      <4>5. Rec(found)[o] = <<Found(buffer[o])>> \o found[o + Align(buffer[o].size)]
        BY <2>2, <4>4
      <4>6. Rec(found)[o] = <<tags[i]>> \o From(i + 1)
        BY <4>2, <4>3, <4>4, <4>5
      <4> QED  BY <1>9, <3>2, <3>4, <4>6
    <3> QED  BY <3>3, <3>4
  <2> QED  BY <2>1, <2>2
<1>11. TagsFrom = CHOOSE f : f = Rec(f)
  BY DEF TagsFrom
<1>12. TagsFrom = Rec(TagsFrom)
  <2> HIDE DEF Rec, found
  <2> QED  BY <1>10, <1>11, Zenon
\* The tags behind i of them, for ever larger i counted from the end.
<1> DEFINE T == {m \in 0 .. n : TagsFrom[at[n + 1 - m]] = From(n + 1 - m)}
<1>13. 0 \in T
  <2>1. at[n + 1] \in DOMAIN buffer /\ at[n + 1] \in 0 .. size
    BY <1>5
  <2>2. TagsFrom[at[n + 1]] = << >>
    BY <1>6, <1>12, <2>1
  <2>3. n + 1 - 0 = n + 1  OBVIOUS
  <2> HIDE DEF From
  <2> QED  BY <1>9, <2>2, <2>3
<1>14. ASSUME NEW m \in 1 .. n, m - 1 \in T PROVE m \in T
  <2> DEFINE i == n + 1 - m
  <2>1. i \in 1 .. n /\ n + 1 - (m - 1) = i + 1
    OBVIOUS
  <2>2. TagsFrom[at[i + 1]] = From(i + 1)
    <3> HIDE DEF From
    <3> QED  BY <1>14, <2>1
  <2> HIDE DEF i
  <2>3. at[i] \in DOMAIN buffer /\ at[i] \in 0 .. size /\ at[i] + Align(buffer[at[i]].size) = at[i + 1]
    <3>1. i \in 1 .. n + 1
      BY ONLY <2>1, n \in Nat
    <3> QED  BY ONLY <1>4, <1>5, <3>1
  <2>4. buffer[at[i]].type # "END" /\ Found(buffer[at[i]]) = tags[i]
    BY <1>6, <2>1
  <2>5. TagsFrom[at[i]] = <<Found(buffer[at[i]])>> \o TagsFrom[at[i] + Align(buffer[at[i]].size)]
    <3> HIDE DEF From
    <3>1. Rec(TagsFrom)[at[i]] = <<Found(buffer[at[i]])>> \o TagsFrom[at[i] + Align(buffer[at[i]].size)]
      BY <2>3, <2>4
    <3> HIDE DEF Rec
    <3> QED  BY <1>12, <3>1
  <2>6. TagsFrom[at[i]] = From(i)
    <3> HIDE DEF From
    <3> QED  BY <1>9, <2>1, <2>2, <2>3, <2>4, <2>5
  <2> HIDE DEF From
  <2> QED  BY <2>6 DEF i
<1>15. 0 .. n \subseteq T
  <2> HIDE DEF T
  <2> QED  BY <1>13, <1>14, BoundedInduction
<1>16. TagsFrom[at[1]] = From(1)
  <2> HIDE DEF From
  <2>1. n \in T
    <3> HIDE DEF T
    <3> QED  BY ONLY <1>15, n \in Nat
  <2>2. n + 1 - n = 1
    OBVIOUS
  <2> QED  BY <2>1, <2>2
<1>17. From(1) = tags
  BY <1>1
<1> QED  BY <1>4, <1>16, <1>17

\* A tag that is pushed is told behind the others.
LEMMA PushTells ==
    ASSUME NEW type \in TagTypes, NEW length \in Nat \ {0}, NEW tells \in Int,
           NEW tags \in Seq(Contents), Chained(buffer, tags, size), PushTag(type, length, tells)
    PROVE  Chained(buffer', Append(tags, Told(type, tells)), size')
<1> DEFINE tag == Tag(type, length, tells)
<1>1. buffer' = With(buffer, size, tag) /\ size' = size + Align(tag.size)
  BY DEF PushTag, Push, With, AllocationSize, Tag
<1>2. tag.size \in Nat \ {0} /\ Found(tag) = Told(type, tells) /\ Found(tag) \in Contents
  BY DEF Tag, Found, Told, Contents
<1> HIDE DEF tag
<1> QED  BY <1>1, <1>2, ChainedAppended

\* What is told is well formed and has no end tag.
Tellings == [type : TagTypes \ {"END"}, tells : Int]

LEMMA TellingsAreContents == Seq(Tellings) \subseteq Seq(Contents)
<1>1. Tellings \subseteq Contents  BY DEF Tellings, Contents
<1> QED  BY <1>1

LEMMA ModulesTold ==
    ASSUME NEW n \in Nat
    PROVE  /\ ToldModules(n) \in Seq(Tellings)
           /\ Append(ToldModules(n), Told("MODULE", n + 1)) = ToldModules(n + 1)
<1> DEFINE strings == <<Told("CMDLINE", 0), Told("BOOT_LOADER_NAME", 0)>>
           modules(m) == [i \in 1 .. m |-> Told("MODULE", i)]
<1>1. strings \in Seq(Tellings)
  <2>1. Told("CMDLINE", 0) \in Tellings /\ Told("BOOT_LOADER_NAME", 0) \in Tellings
    BY DEF Told, Tellings, TagTypes
  <2> QED  BY <2>1
<1>2. \A m \in Nat : modules(m) \in Seq(Tellings) /\ Len(modules(m)) = m
  <2> TAKE m \in Nat
  <2>1. \A i \in 1 .. m : Told("MODULE", i) \in Tellings
    BY DEF Told, Tellings, TagTypes
  <2> QED  BY <2>1
<1>3. Append(modules(n), Told("MODULE", n + 1)) = modules(n + 1)
  <2>1. \A i \in 1 .. n + 1 :
          Append(modules(n), Told("MODULE", n + 1))[i] = modules(n + 1)[i]
    BY <1>2
  <2> QED  BY <1>2, <2>1
<1>4. \A m \in Nat : ToldModules(m) = strings \o modules(m)
  BY DEF ToldModules
<1>5. Told("MODULE", n + 1) \in Tellings
  BY DEF Told, Tellings, TagTypes
<1> HIDE DEF strings, modules
<1>6. Append(strings \o modules(n), Told("MODULE", n + 1)) = strings \o Append(modules(n), Told("MODULE", n + 1))
  <2> DEFINE more == modules(n)
             tag == Told("MODULE", n + 1)
  <2>1. more \in Seq(Tellings) /\ tag \in Tellings
    BY <1>2, <1>5
  <2> HIDE DEF more, tag
  <2>2. Append(strings \o more, tag) = strings \o Append(more, tag)
    BY ONLY <1>1, <2>1
  <2> QED  BY <2>2 DEF more, tag
<1>7. strings \o modules(n) \in Seq(Tellings)
  BY ONLY <1>1, <1>2, n \in Nat
<1> QED  BY ONLY <1>3, <1>4, <1>6, <1>7, n \in Nat, n + 1 \in Nat

LEMMA NoModuleTold ==
    ToldModules(0) = Append(<<Told("CMDLINE", 0)>>, Told("BOOT_LOADER_NAME", 0))
BY DEF ToldModules

LEMMA AppendedTold ==
    ASSUME NEW tags \in Seq(Tellings), NEW type \in TagTypes \ {"END"}, NEW tells \in Int
    PROVE  Append(tags, Told(type, tells)) \in Seq(Tellings)
<1>1. Told(type, tells) \in Tellings  BY DEF Told, Tellings
<1> QED  BY <1>1

LEMMA AllTold ==
    ASSUME IInv
    PROVE  /\ ToldMode \in Seq(Tellings) /\ ToldOldAcpi \in Seq(Tellings)
           /\ ToldNewAcpi \in Seq(Tellings) /\ ToldSections \in Seq(Tellings)
<1>1. Len(kernel.modules) \in Nat /\ mode \in Int /\ kernel.sections \in Int
  <2>1. mode \in Modes /\ Modes \subseteq Nat
    BY Typed, BootParamsAssumption DEF BootParamsAssumption
  <2> QED  BY <2>1, Typed
<1>2. ToldMode \in Seq(Tellings)
  <2>1. ToldModules(Len(kernel.modules)) \in Seq(Tellings)
    BY <1>1, ModulesTold
  <2>2. "FRAMEBUFFER" \in TagTypes \ {"END"}
    BY DEF TagTypes
  <2> QED  BY ONLY <1>1, <2>1, <2>2, AppendedTold DEF ToldMode
<1>3. ToldOldAcpi \in Seq(Tellings)
  <2>1. "ACPI_OLD" \in TagTypes \ {"END"}
    BY DEF TagTypes
  <2> QED  BY ONLY <1>2, <2>1, 0 \in Int, AppendedTold DEF ToldOldAcpi, AppendIf
<1>4. ToldNewAcpi \in Seq(Tellings)
  <2>1. "ACPI_NEW" \in TagTypes \ {"END"}
    BY DEF TagTypes
  <2> QED  BY ONLY <1>3, <2>1, 0 \in Int, AppendedTold DEF ToldNewAcpi, AppendIf
<1>5. ToldSections \in Seq(Tellings)
  <2>1. "ELF_SECTIONS" \in TagTypes \ {"END"}
    BY DEF TagTypes
  <2> QED  BY ONLY <1>1, <1>4, <2>1, AppendedTold DEF ToldSections
<1> QED  BY <1>2, <1>3, <1>4, <1>5

\* At each step the buffer tells what was pushed so far, and nothing else.
BufferTells ==
    /\ pc = "HeaderTags" => Chained(buffer, << >>, size)
    /\ pc = "Name" => Chained(buffer, <<Told("CMDLINE", 0)>>, size)
    /\ pc = "Modules" =>
          next <= Len(kernel.modules) + 1 /\ Chained(buffer, ToldModules(next - 1), size)
    /\ pc = "OldAcpi" => Chained(buffer, ToldMode, size)
    /\ pc = "NewAcpi" => Chained(buffer, ToldOldAcpi, size)
    /\ pc = "Elf" => Chained(buffer, ToldNewAcpi, size)
    /\ pc = "Map" => Chained(buffer, ToldSections, size)
    /\ pc = "Exit" => Chained(buffer, ToldSections, startFrom)
    /\ pc = "jumped" =>
          \E n \in Counts : \E to : Chained(buffer, Append(ToldMaps(n), Told("END", 0)), to)

\* What is told depends on what the kernel, the machine and the mode are.
LEMMA TellingsStay ==
    ASSUME UNCHANGED <<kernel, machine, mode>>
    PROVE  /\ ToldMode' = ToldMode /\ ToldOldAcpi' = ToldOldAcpi /\ ToldNewAcpi' = ToldNewAcpi
           /\ ToldSections' = ToldSections /\ Counts' = Counts
           /\ \A n : ToldMaps(n)' = ToldMaps(n)
BY DEF ToldMode, ToldOldAcpi, ToldNewAcpi, ToldSections, ToldMaps, Counts, MapSize, ToldModules

LEMMA TellsStep == ASSUME IInv, BufferTells, [Next]_vars PROVE BufferTells'
<1> USE Typed
<1>1. CASE pc' \in {"menu", "fault", "asserted"}
  BY <1>1 DEF BufferTells
<1>2. CASE LoadMB2Kernel
  <2>1. pc' = "menu" \/ (pc' = "HeaderTags" /\ buffer' = << >> /\ size' = 8)
    BY <1>2 DEF LoadMB2Kernel, FirstSize
  <2>2. Chained(<< >>, << >>, 8)
    <3>1. DOMAIN << >> = {}  OBVIOUS
    <3> QED  BY ONLY <3>1, NothingChained
  <2> QED  BY <1>1, <2>1, <2>2 DEF BufferTells
<1>3. CASE ReadHeaderTag
  <2>1. pc' \in {"menu", "asserted"} \/ (pc' = "HeaderTags" /\ UNCHANGED <<buffer, size>>)
    BY <1>3 DEF ReadHeaderTag, Return, SetMode
  <2>2. pc = "HeaderTags"
    BY <1>3 DEF ReadHeaderTag
  <2> QED  BY <1>1, <2>1, <2>2 DEF BufferTells
<1>4. CASE PushStrings
  <2>1. pc = "HeaderTags" /\ pc' = "Name" /\ PushTag("CMDLINE", kernel.cmdline + 1 + 8, 0)
    BY <1>4 DEF PushStrings
  <2>2. kernel.cmdline + 1 + 8 \in Nat \ {0} /\ "CMDLINE" \in TagTypes /\ << >> \in Seq(Contents)
    <3>1. kernel.cmdline + 1 + 8 \in Nat \ {0}
      BY SMT
    <3> QED  BY <3>1 DEF TagTypes
  <2>3. Chained(buffer, << >>, size)
    BY <2>1 DEF BufferTells
  <2>4. Chained(buffer', Append(<< >>, Told("CMDLINE", 0)), size')
    BY ONLY <2>1, <2>2, <2>3, 0 \in Int, PushTells
  <2>5. Append(<< >>, Told("CMDLINE", 0)) = <<Told("CMDLINE", 0)>>
    OBVIOUS
  <2> QED  BY <2>1, <2>4, <2>5 DEF BufferTells
<1>5. CASE PushName
  <2>1. pc = "Name" /\ pc' = "Modules" /\ next' = 1 /\ kernel' = kernel
        /\ PushTag("BOOT_LOADER_NAME", 18 + 8, 0)
    BY <1>5 DEF PushName
  <2>2. <<Told("CMDLINE", 0)>> \in Seq(Contents)
    <3>1. Told("CMDLINE", 0) \in Contents
      BY DEF Told, Contents, TagTypes
    <3> QED  BY <3>1
  <2>3. Chained(buffer, <<Told("CMDLINE", 0)>>, size)
    BY <2>1 DEF BufferTells
  <2>4. 18 + 8 \in Nat \ {0} /\ "BOOT_LOADER_NAME" \in TagTypes
    BY ONLY DEF TagTypes
  <2>5. Chained(buffer', ToldModules(0), size')
    BY ONLY <2>1, <2>2, <2>3, <2>4, 0 \in Int, PushTells, NoModuleTold
  <2>6. next' <= Len(kernel'.modules) + 1 /\ next' - 1 = 0
    BY <2>1
  <2>7. ToldModules(next - 1)' = ToldModules(0)
    BY <2>6 DEF ToldModules
  <2> QED  BY <2>1, <2>5, <2>6, <2>7 DEF BufferTells
<1>6. CASE PushModule
  <2>1. pc = "Modules" /\ pc' = "Modules" /\ next' = next + 1 /\ kernel' = kernel
        /\ next <= Len(kernel.modules) /\ PushTag("MODULE", ModuleTagSize(next), next)
    BY <1>6 DEF PushModule
  <2>2. ModuleTagSize(next) \in Nat \ {0}
    <3> DEFINE m == kernel.modules[next]
    <3>1. next \in 1 .. Len(kernel.modules)
      BY <2>1
    <3>2. m \in Nat /\ ModuleTagSize(next) = 16 + m + 1
      BY <3>1 DEF ModuleTagSize
    <3> HIDE DEF m
    <3> QED  BY <3>2
  <2>3. next - 1 \in Nat /\ next \in Int /\ (next - 1) + 1 = next
    OBVIOUS
  <2>4. ToldModules(next - 1) \in Seq(Contents)
        /\ Append(ToldModules(next - 1), Told("MODULE", next)) = ToldModules(next)
    BY ONLY <2>3, ModulesTold, TellingsAreContents
  <2>5. Chained(buffer, ToldModules(next - 1), size)
    BY <2>1 DEF BufferTells
  <2>9. "MODULE" \in TagTypes
    BY DEF TagTypes
  <2>6. Chained(buffer', ToldModules(next), size')
    BY ONLY <2>1, <2>2, <2>3, <2>4, <2>5, <2>9, PushTells
  <2>7. next' - 1 = next /\ next' <= Len(kernel'.modules) + 1
    BY ONLY <2>1, <2>3, Typed, IInv
  <2>8. ToldModules(next - 1)' = ToldModules(next)
    BY <2>7 DEF ToldModules
  <2> QED  BY <2>1, <2>6, <2>7, <2>8 DEF BufferTells
<1>7. CASE PushFramebuffer
  <2>1. pc = "Modules" /\ pc' = "OldAcpi" /\ UNCHANGED <<kernel, machine, mode>>
        /\ next > Len(kernel.modules) /\ PushTag("FRAMEBUFFER", 40, mode)
    BY <1>7 DEF PushFramebuffer, header
  <2>2. Chained(buffer, ToldModules(Len(kernel.modules)), size)
    <3>1. next - 1 = Len(kernel.modules)
      BY <2>1 DEF BufferTells
    <3> QED  BY <2>1, <3>1 DEF BufferTells
  <2>3. ToldModules(Len(kernel.modules)) \in Seq(Contents)
    BY ModulesTold, TellingsAreContents
  <2>4. mode \in Int
    <3>1. mode \in Modes /\ Modes \subseteq Nat
      BY BootParamsAssumption DEF BootParamsAssumption
    <3> QED  BY <3>1
  <2>5. Chained(buffer', ToldMode, size')
    <3>1. 40 \in Nat \ {0} /\ "FRAMEBUFFER" \in TagTypes
      BY DEF TagTypes
    <3> QED  BY ONLY <2>1, <2>2, <2>3, <2>4, <3>1, PushTells DEF ToldMode
  <2>6. ToldMode' = ToldMode
    BY ONLY <2>1, TellingsStay
  <2> QED  BY <2>1, <2>5, <2>6 DEF BufferTells
<1>8. CASE PushOldAcpi
  <2>1. pc = "OldAcpi" /\ pc' = "NewAcpi" /\ UNCHANGED <<kernel, machine, mode>>
        /\ PushAcpi(machine.old, "ACPI_OLD", 20 + 8)
    BY <1>8 DEF PushOldAcpi, header
  <2>2. Chained(buffer, ToldMode, size) /\ ToldMode \in Seq(Contents)
    BY <2>1, AllTold, TellingsAreContents DEF BufferTells
  <2>3. Chained(buffer', ToldOldAcpi, size')
    <3>1. CASE machine.old /\ PushTag("ACPI_OLD", 20 + 8, 0)
      <4>1. 20 + 8 \in Nat \ {0} /\ "ACPI_OLD" \in TagTypes /\ 0 \in Int
        BY ONLY DEF TagTypes
      <4> QED  BY ONLY <2>2, <3>1, <4>1, PushTells DEF ToldOldAcpi, AppendIf
    <3>2. CASE ~machine.old /\ UNCHANGED <<buffer, size>>
      BY <2>2, <3>2 DEF ToldOldAcpi, AppendIf
    <3> QED  BY <2>1, <3>1, <3>2 DEF PushAcpi
  <2>4. ToldOldAcpi' = ToldOldAcpi
    BY ONLY <2>1, TellingsStay
  <2> QED  BY <2>1, <2>3, <2>4 DEF BufferTells
<1>9. CASE PushNewAcpi
  <2>1. pc = "NewAcpi" /\ pc' = "Elf" /\ UNCHANGED <<kernel, machine, mode>>
        /\ PushAcpi(machine.new, "ACPI_NEW", 36 + 8)
    BY <1>9 DEF PushNewAcpi, header
  <2>2. Chained(buffer, ToldOldAcpi, size) /\ ToldOldAcpi \in Seq(Contents)
    BY <2>1, AllTold, TellingsAreContents DEF BufferTells
  <2>3. Chained(buffer', ToldNewAcpi, size')
    <3>1. CASE machine.new /\ PushTag("ACPI_NEW", 36 + 8, 0)
      <4>1. 36 + 8 \in Nat \ {0} /\ "ACPI_NEW" \in TagTypes /\ 0 \in Int
        BY ONLY DEF TagTypes
      <4> QED  BY ONLY <2>2, <3>1, <4>1, PushTells DEF ToldNewAcpi, AppendIf
    <3>2. CASE ~machine.new /\ UNCHANGED <<buffer, size>>
      BY <2>2, <3>2 DEF ToldNewAcpi, AppendIf
    <3> QED  BY <2>1, <3>1, <3>2 DEF PushAcpi
  <2>4. ToldNewAcpi' = ToldNewAcpi
    BY ONLY <2>1, TellingsStay
  <2> QED  BY <2>1, <2>3, <2>4 DEF BufferTells
<1>10. CASE PushElf
  <2> DEFINE length == kernel.sections * kernel.sectionSize
  <2>1. pc = "Elf" /\ pc' \in {"fault", "Map"} /\ UNCHANGED <<kernel, machine, mode>>
        /\ PushTag("ELF_SECTIONS", 20 + length, kernel.sections)
    BY <1>10 DEF PushElf
  <2>2. Chained(buffer, ToldNewAcpi, size) /\ ToldNewAcpi \in Seq(Contents)
    BY <2>1, AllTold, TellingsAreContents DEF BufferTells
  <2>3. 20 + length \in Nat \ {0} /\ kernel.sections \in Int
    <3>1. length \in Nat
      BY SMT
    <3> HIDE DEF length
    <3> QED  BY <3>1
  <2> HIDE DEF length
  <2>4. Chained(buffer', ToldSections, size')
    <3>1. "ELF_SECTIONS" \in TagTypes
      BY DEF TagTypes
    <3> QED  BY ONLY <2>1, <2>2, <2>3, <3>1, PushTells DEF ToldSections
  <2>5. ToldSections' = ToldSections
    BY ONLY <2>1, TellingsStay
  <2> QED  BY <1>1, <2>1, <2>4, <2>5 DEF BufferTells
<1>11. CASE PushMap
  <2>1. pc = "Map" /\ pc' = "Exit" /\ startFrom' = size /\ UNCHANGED <<kernel, machine, mode, buffer>>
    BY <1>11 DEF PushMap, header
  <2>2. ToldSections' = ToldSections
    BY ONLY <2>1, TellingsStay
  <2> QED  BY <2>1, <2>2 DEF BufferTells
<1>12. CASE ExitAndJump
  <2>1. pc = "Exit" /\ pc' = "jumped" /\ UNCHANGED <<kernel, machine, mode>>
    BY <1>12 DEF ExitAndJump, header
  <2>2. PICK n \in Counts :
          buffer' = [o \in DOMAIN buffer \cup {startFrom, EfiAt(n), EndAt(n)} |->
                       CASE o = startFrom -> MmapTag(n)
                         [] o = EfiAt(n) -> EfiTag(n)
                         [] o = EndAt(n) -> EndTag
                         [] OTHER -> buffer[o]]
    BY <1>12 DEF ExitAndJump, EfiAt, EndAt, MmapTag, EfiTag, EndTag
  <2>3. Chained(buffer, ToldSections, startFrom) /\ ToldSections \in Seq(Contents)
    BY <2>1, AllTold, TellingsAreContents DEF BufferTells
  <2>4. /\ startFrom \in Nat /\ startFrom % 8 = 0
        /\ \A o \in DOMAIN buffer : o + buffer[o].size <= startFrom
    BY <2>1 DEF IInv, RoomLeft
  <2>5. n \in Nat /\ n * DescriptorSize \in Nat /\ n # 0
    <3>1. MapSize \in Nat /\ n \in 1 .. MapSize
      BY <2>2, RoomTyped DEF Counts
    <3>2. n \in Nat /\ DescriptorSize \in Nat /\ n # 0
      BY <3>1, Constants
    <3> QED  BY ONLY <3>2, SMT
  <2>6. /\ MmapTag(n).size = 16 + n * 24 /\ EfiTag(n).size = 16 + n * DescriptorSize /\ EndTag.size = 8
        /\ Found(MmapTag(n)) = Told("MMAP", n) /\ Found(EfiTag(n)) = Told("EFI_MMAP", n)
        /\ Found(EndTag) = Told("END", 0)
    BY DEF MmapTag, EfiTag, EndTag, Tag, Found, Told
  <2>7. /\ MmapTag(n).size \in Nat \ {0} /\ EfiTag(n).size \in Nat \ {0} /\ EndTag.size \in Nat \ {0}
    <3>1. 16 + n * 24 \in Nat \ {0}
      BY ONLY <2>5, SMT
    <3>2. 16 + n * DescriptorSize \in Nat \ {0}
      BY ONLY <2>5, SMT
    <3> QED  BY ONLY <2>6, <3>1, <3>2, 8 \in Nat \ {0}
  <2>8. Told("MMAP", n) \in Contents /\ Told("EFI_MMAP", n) \in Contents /\ Told("END", 0) \in Contents
    BY ONLY <2>5 DEF Told, Contents, TagTypes
  <2> DEFINE b1 == With(buffer, startFrom, MmapTag(n))
             at1 == startFrom + Align(MmapTag(n).size)
             b2 == With(b1, at1, EfiTag(n))
             at2 == at1 + Align(EfiTag(n).size)
             b3 == With(b2, at2, EndTag)
             t1 == Append(ToldSections, Told("MMAP", n))
             t2 == Append(t1, Told("EFI_MMAP", n))
             t3 == Append(t2, Told("END", 0))
  <2>9. t1 \in Seq(Contents) /\ t2 \in Seq(Contents)
    BY <2>3, <2>8
  <2>10. Chained(b1, t1, at1)
    BY ONLY <2>3, <2>6, <2>7, <2>8, ChainedAppended
  <2>11. Chained(b2, t2, at2)
    <3> HIDE DEF b1, at1, t1
    <3> QED  BY ONLY <2>6, <2>7, <2>8, <2>9, <2>10, ChainedAppended
  <2>12. Chained(b3, t3, at2 + Align(EndTag.size))
    <3> HIDE DEF b2, at2, t2
    <3> QED  BY ONLY <2>6, <2>7, <2>8, <2>9, <2>11, ChainedAppended
  <2>13. at1 = EfiAt(n) /\ at2 = EndAt(n) /\ startFrom < at1 /\ at1 < at2 /\ at1 \in Nat /\ at2 \in Nat
    <3>1. /\ Align(MmapTag(n).size) \in Nat \ {0} /\ Align(MmapTag(n).size) % 8 = 0
          /\ Align(EfiTag(n).size) \in Nat \ {0} /\ Align(EfiTag(n).size) % 8 = 0
      <4>1. \A x \in Nat \ {0} : Align(x) \in Nat \ {0} /\ Align(x) % 8 = 0
        <5> TAKE x \in Nat \ {0}
        <5> QED  BY ONLY AlignRounds
      <4> QED  BY ONLY <2>7, <4>1
    <3>2. Align(startFrom + MmapTag(n).size) = at1
      BY ONLY <2>4, <2>7, AlignBehind
    <3>3. at1 \in Nat /\ at1 % 8 = 0
      <4> DEFINE x == Align(MmapTag(n).size)
      <4>1. x \in Nat /\ x % 8 = 0
        BY ONLY <3>1
      <4> HIDE DEF x
      <4>2. startFrom + x \in Nat /\ (startFrom + x) % 8 = 0
        BY ONLY <2>4, <4>1, SumOfEights
      <4> QED  BY ONLY <4>2 DEF x
    <3>4. Align(at1 + EfiTag(n).size) = at2
      <4> HIDE DEF at1
      <4> QED  BY ONLY <2>7, <3>3, AlignBehind DEF at2
    <3>5. at1 = EfiAt(n) /\ at2 = EndAt(n)
      <4> HIDE DEF at1, at2
      <4> QED  BY ONLY <3>2, <3>4 DEF EfiAt, EndAt, NextTag
    <3> QED  BY ONLY <2>4, <3>1, <3>3, <3>5
  <2>14. buffer' = b3
    <3> HIDE DEF at1, at2
    <3>1. /\ DOMAIN b1 = DOMAIN buffer \cup {startFrom} /\ b1[startFrom] = MmapTag(n)
          /\ \A o \in DOMAIN buffer \ {startFrom} : b1[o] = buffer[o]
      BY DEF With
    <3>2. /\ DOMAIN b2 = DOMAIN b1 \cup {at1} /\ b2[at1] = EfiTag(n)
          /\ \A o \in DOMAIN b1 \ {at1} : b2[o] = b1[o]
      <4> HIDE DEF b1
      <4> QED  BY DEF With
    <3>3. /\ DOMAIN b3 = DOMAIN b2 \cup {at2} /\ b3[at2] = EndTag
          /\ \A o \in DOMAIN b2 \ {at2} : b3[o] = b2[o]
      <4> HIDE DEF b2
      <4> QED  BY DEF With
    <3>4. b3 = [o \in DOMAIN b2 \cup {at2} |-> IF o = at2 THEN EndTag ELSE b2[o]]
      BY DEF With
    <3>5. \A o \in DOMAIN buffer : o # startFrom /\ o # at1 /\ o # at2
      <4> SUFFICES ASSUME NEW o \in DOMAIN buffer PROVE o # startFrom /\ o # at1 /\ o # at2
        OBVIOUS
      <4>1. o \in Nat /\ buffer[o].size \in Nat \ {0} /\ o + buffer[o].size <= startFrom
        BY <2>4 DEF BufferShape
      <4> QED  BY ONLY <2>4, <2>13, <4>1
    <3> HIDE DEF b1, b2
    <3>6. DOMAIN buffer' = DOMAIN b2 \cup {at2}
      BY <2>2, <2>13, <3>1, <3>2
    <3>7. startFrom # at1 /\ startFrom # at2 /\ at1 # at2
      BY ONLY <2>4, <2>13
    <3>8. /\ buffer'[startFrom] = MmapTag(n) /\ buffer'[at1] = EfiTag(n) /\ buffer'[at2] = EndTag
          /\ \A o \in DOMAIN buffer : buffer'[o] = buffer[o]
      BY <2>2, <2>13, <3>5, <3>7
    <3> HIDE DEF b3
    <3>9. ASSUME NEW o \in DOMAIN b2 \cup {at2} PROVE buffer'[o] = b3[o]
      BY ONLY <3>1, <3>2, <3>3, <3>5, <3>7, <3>8, <3>9
    <3>10. buffer' = [o \in DOMAIN b2 \cup {at2} |-> buffer'[o]]
      BY <2>2, <3>6
    <3> QED  BY ONLY <3>4, <3>9, <3>10, <3>3
  <2>15. Counts' = Counts /\ Append(ToldMaps(n)', Told("END", 0)) = t3
    BY <2>1, TellingsStay DEF ToldMaps
  <2> HIDE DEF b3, t3, at2
  <2>16. Chained(buffer', Append(ToldMaps(n)', Told("END", 0)), at2 + Align(EndTag.size))
    BY ONLY <2>12, <2>14, <2>15
  <2>17. n \in Counts'
    BY <2>2, <2>15
  <2> QED  BY ONLY <2>1, <2>16, <2>17 DEF BufferTells
<1>13. CASE Fail
  BY <1>1, <1>13 DEF Fail, Return
<1>14. CASE UNCHANGED vars
  <2>1. UNCHANGED <<pc, kernel, machine, mode, next, buffer, size, startFrom>>
    BY <1>14 DEF vars, header
  <2>2. /\ ToldMode' = ToldMode /\ ToldOldAcpi' = ToldOldAcpi /\ ToldNewAcpi' = ToldNewAcpi
        /\ ToldSections' = ToldSections /\ Counts' = Counts
        /\ \A n : ToldMaps(n)' = ToldMaps(n)
    BY ONLY <2>1, TellingsStay
  <2>3. ToldModules(next - 1)' = ToldModules(next - 1)
    BY ONLY <2>1 DEF ToldModules
  <2> QED  BY ONLY BufferTells, <2>1, <2>2, <2>3 DEF BufferTells
<1> QED
  BY ONLY [Next]_vars, <1>2, <1>3, <1>4, <1>5, <1>6, <1>7, <1>8, <1>9, <1>10, <1>11, <1>12, <1>13, <1>14
  DEF Next

\* Whatever failed before, a kernel that is entered finds in the buffer all there is to
\* tell, once and in order.
THEOREM AllIsTold == Spec => []TagsComplete
<1>1. Init => BufferTells
  BY DEF Init, BufferTells
<1>2. IInv /\ BufferTells /\ [Next]_vars => BufferTells'
  BY TellsStep
<1>3. IInv /\ BufferTells => TagsComplete
  <2> SUFFICES ASSUME IInv, BufferTells, pc = "jumped"
               PROVE  \E n \in Counts : TagsFrom[8] = ToldMaps(n)
    BY DEF TagsComplete
  <2>1. PICK n \in Counts : \E to : Chained(buffer, Append(ToldMaps(n), Told("END", 0)), to)
    BY DEF BufferTells
  <2>2. PICK to : Chained(buffer, Append(ToldMaps(n), Told("END", 0)), to)
    BY <2>1
  <2>3. n \in Int
    <3>1. MapSize \in Nat
      BY Typed, RoomTyped
    <3> QED  BY <3>1 DEF Counts
  <2>4. ToldMaps(n) \in Seq(Tellings)
    <3>1. "MMAP" \in TagTypes \ {"END"} /\ "EFI_MMAP" \in TagTypes \ {"END"}
      BY DEF TagTypes
    <3>2. Append(ToldSections, Told("MMAP", n)) \in Seq(Tellings)
      BY ONLY <2>3, <3>1, IInv, AllTold, AppendedTold
    <3> QED  BY ONLY <2>3, <3>1, <3>2, AppendedTold DEF ToldMaps
  <2>5. ToldMaps(n) \in Seq(Contents)
    BY <2>4, TellingsAreContents
  <2>6. \A i \in 1 .. Len(ToldMaps(n)) : ToldMaps(n)[i].type # "END"
    <3>1. \A i \in 1 .. Len(ToldMaps(n)) : ToldMaps(n)[i] \in Tellings
      BY ONLY <2>4
    <3> QED  BY ONLY <3>1 DEF Tellings
  <2>7. size \in Nat /\ \A o \in DOMAIN buffer : o \in 0 .. size
    BY Typed
  <2>8. TagsFrom[8] = ToldMaps(n)
    BY ONLY <2>2, <2>5, <2>6, <2>7, TagsRead
  <2> QED  BY <2>8
<1> QED  BY <1>1, <1>2, <1>3, Invariance, PTL DEF Spec

-----------------------------------------------------------------------------
(* The first eight bytes.                                                  *)

\* Where tags are pushed while a kernel is loaded: behind the first eight bytes.
HeadLeft ==
    /\ 0 \notin DOMAIN buffer
    /\ pc \in Steps => size >= FirstSize
    /\ pc = "Exit" => startFrom >= FirstSize

LEMMA PushBehindHead ==
    ASSUME IInv, HeadLeft, NEW type, NEW length \in Nat, NEW tells,
           pc \in Steps, pc' # "Exit", PushTag(type, length, tells)
    PROVE  HeadLeft'
<1>1. /\ DOMAIN buffer' = DOMAIN buffer \cup {size}
      /\ size' = size + AllocationSize(length)
  BY DEF PushTag, Push
<1>2. size \in Nat /\ size >= FirstSize
  BY Typed DEF HeadLeft
<1>3. size' >= FirstSize /\ size # 0
  BY ONLY <1>1, <1>2, AlignRounds, length \in Nat DEF AllocationSize, FirstSize
<1> QED  BY <1>1, <1>3 DEF HeadLeft

LEMMA HeadStays ==
    ASSUME HeadLeft, UNCHANGED <<buffer, size, startFrom>>, pc' = pc \/ pc' \notin Steps
    PROVE  HeadLeft'
BY DEF HeadLeft, Steps

LEMMA HeadLeftStep == ASSUME IInv, HeadLeft, [Next]_vars PROVE HeadLeft'
<1>1. CASE LoadMB2Kernel
  <2>1. CASE pc' = "menu" /\ UNCHANGED <<buffer, size>>
    BY <2>1 DEF HeadLeft, Steps
  <2>2. CASE pc' = "HeaderTags" /\ buffer' = << >> /\ size' = FirstSize
    BY <2>2 DEF HeadLeft, FirstSize
  <2> QED  BY <1>1, <2>1, <2>2 DEF LoadMB2Kernel
<1>2. ASSUME Return PROVE HeadLeft'
  BY <1>2, HeadStays DEF Return, Steps
<1>3. CASE ReadHeaderTag
  <2> DEFINE tag == kernel.header[next]
  <2>1. CASE Refused(tag)
    BY <1>2, <1>3, <2>1 DEF ReadHeaderTag
  <2>2. CASE ~Refused(tag)
    <3>1. UNCHANGED <<buffer, size, startFrom>> /\ pc = "HeaderTags"
      BY <1>3, <2>2 DEF ReadHeaderTag
    <3>2. pc' = pc \/ pc' = "asserted"
      BY <1>3, <2>2 DEF ReadHeaderTag, SetMode
    <3> QED  BY <3>1, <3>2, HeadStays DEF Steps
  <2> QED  BY <2>1, <2>2
<1>4. CASE PushStrings
  <2>1. kernel.cmdline + 1 + 8 \in Nat
    BY Typed
  <2> QED  BY <1>4, <2>1, PushBehindHead DEF PushStrings, Steps
<1>5. CASE PushName
  <2>1. 18 + 8 \in Nat
    OBVIOUS
  <2> QED  BY <1>5, <2>1, PushBehindHead DEF PushName, Steps
<1>6. CASE PushModule
  <2>1. next \in 1 .. Len(kernel.modules)
    BY <1>6, Typed DEF PushModule
  <2>2. ModuleTagSize(next) \in Nat
    BY <2>1, Typed DEF ModuleTagSize
  <2> QED  BY <1>6, <2>2, PushBehindHead DEF PushModule, Steps
<1>7. CASE PushFramebuffer
  BY <1>7, PushBehindHead DEF PushFramebuffer, Steps
<1>8. ASSUME NEW present, NEW type, NEW length \in Nat, PushAcpi(present, type, length),
             pc \in Steps, pc' \in {"NewAcpi", "Elf"}, UNCHANGED startFrom
      PROVE  HeadLeft'
  <2>1. CASE PushTag(type, length, 0)
    BY <1>8, <2>1, PushBehindHead
  <2>2. CASE UNCHANGED <<buffer, size>>
    BY <1>8, <2>2 DEF HeadLeft
  <2> QED  BY <1>8, <2>1, <2>2 DEF PushAcpi
<1>9. CASE PushOldAcpi
  <2>1. 20 + 8 \in Nat
    OBVIOUS
  <2> QED  BY <1>8, <1>9, <2>1 DEF PushOldAcpi, Steps
<1>10. CASE PushNewAcpi
  <2>1. 36 + 8 \in Nat
    OBVIOUS
  <2> QED  BY <1>8, <1>10, <2>1 DEF PushNewAcpi, Steps
<1>11. CASE PushElf
  <2>1. PICK room \in Nat : room = 20 + kernel.sections * kernel.sectionSize
    <3>1. kernel.sections \in Nat /\ kernel.sectionSize \in Nat
      BY Typed
    <3> QED  BY ONLY <3>1
  <2>2. PushTag("ELF_SECTIONS", room, kernel.sections) /\ pc = "Elf" /\ pc' \in {"fault", "Map"}
    BY <1>11, <2>1 DEF PushElf
  <2> QED  BY <2>2, PushBehindHead DEF Steps
<1>12. CASE PushMap
  <2>1. MapRoom \in Nat /\ size \in Nat
    BY Typed, RoomTyped
  <2>2. /\ pc = "Map" /\ startFrom' = size /\ size' = size + Align(MapRoom) /\ UNCHANGED buffer
        /\ size >= FirstSize
    BY <1>12 DEF PushMap, AllocationSize, HeadLeft, Steps
  <2>3. size' >= FirstSize
    BY ONLY <2>1, <2>2, AlignRounds DEF FirstSize
  <2> QED  BY <2>2, <2>3 DEF HeadLeft
<1>13. CASE ExitAndJump
  <2>1. PICK n \in Counts :
          DOMAIN buffer' = DOMAIN buffer \cup {startFrom, EfiAt(n), EndAt(n)}
    BY <1>13 DEF ExitAndJump, EfiAt, EndAt, MmapTag, EfiTag, EndTag
  <2>2. startFrom \in Nat /\ startFrom >= FirstSize /\ n \in Nat
    BY <1>13, Typed, RoomTyped DEF ExitAndJump, HeadLeft, Counts
  <2>3. EfiAt(n) \in Nat /\ EfiAt(n) > 0
    <3>1. startFrom + (16 + n * 24) \in Nat /\ startFrom + (16 + n * 24) > 0
      BY <2>2
    <3> QED  BY ONLY <3>1, AlignRounds DEF EfiAt, NextTag, MmapTag, Tag
  <2>4. EndAt(n) > 0
    <3>1. n * DescriptorSize \in Nat
      BY <2>2, Constants
    <3>2. EfiAt(n) + (16 + n * DescriptorSize) \in Nat /\ EfiAt(n) + (16 + n * DescriptorSize) > 0
      BY ONLY <2>3, <3>1
    <3> QED  BY ONLY <3>2, AlignRounds DEF EndAt, NextTag, EfiTag, Tag
  <2>5. 0 \notin DOMAIN buffer'
    BY ONLY <2>1, <2>2, <2>3, <2>4, HeadLeft DEF HeadLeft, FirstSize
  <2> QED  BY <1>13, <2>5 DEF ExitAndJump, HeadLeft, Steps
<1>14. CASE UNCHANGED vars
  BY <1>14, HeadStays DEF vars
<1> QED
  BY <1>1, <1>2, <1>3, <1>4, <1>5, <1>6, <1>7, <1>9, <1>10, <1>11, <1>12, <1>13, <1>14 DEF Next, Fail

\* The size is pushed for no kernel: whatever is loaded and whatever the attempts before
\* it left, nothing is ever written to the first eight bytes of the boot information.
THEOREM SizeNeverPushed == Spec => [](0 \notin DOMAIN buffer)
<1>1. Init => HeadLeft
  BY DEF Init, HeadLeft, Steps
<1>2. IInv /\ HeadLeft /\ [Next]_vars => HeadLeft'
  BY HeadLeftStep
<1>3. HeadLeft => 0 \notin DOMAIN buffer
  BY DEF HeadLeft
<1> QED  BY <1>1, <1>2, <1>3, Invariance, PTL DEF Spec
=============================================================================
